---------------------------- MODULE WindowFilters ----------------------------
(***************************************************************************)
(* The algorithms that compute a cell from the cells around it:            *)
(* suminbuffer.h, filter.h, majorityfilter.h, blurfilter.h, voronoi.h and  *)
(* category_sum_in_buffer of category.h.  They are functions of a masked   *)
(* raster r: its size, the elements and the cells that are nodata.  In a   *)
(* result Null is nodata, and Unset an element that is not initialised.    *)
(* A quotient is a pair of a numerator and a denominator.                  *)
(*                                                                         *)
(* A radius is in cells.  Where the code compares with the integer part of *)
(* its square, the square is given.                                        *)
(***************************************************************************)
EXTENDS RasterArea, FiniteSetsExt, SequencesExt

CONSTANTS
    Images,     \* the elements of the rasters that the calls are made with
    Unset

ASSUME ImagesAssumption == Images \subseteq [Cell -> Int]

Cells(r) == (0 .. r.rows - 1) \X (0 .. r.cols - 1)
Scan(r) == [k \in 1 .. r.rows * r.cols |-> <<(k - 1) \div r.cols, (k - 1) % r.cols>>]
DataIn(r, cells) == {c \in cells \cap Cells(r) : c \notin r.missing}

D2(a, b) == Squared(a[1] - b[1]) + Squared(a[2] - b[2])
Within(r, cell, radius2) == {c \in Cells(r) : D2(c, cell) <= radius2}
SquareAround(r, cell, radius) ==
    {c \in Cells(r) : c[1] - cell[1] \in -radius .. radius /\ c[2] - cell[2] \in -radius .. radius}

SumOf(data, cells) == MapThenSumSet(LAMBDA c : data[c], cells)

-----------------------------------------------------------------------------
(* suminbuffer.h *)

\* replace_nodata_in_place(src, 0)
Source(r) == [c \in Cells(r) |-> IF c \in r.missing THEN 0 ELSE r.data[c]]

compute_integral_image(r) ==
    LET image == Source(r)
        rowSum[c \in Cells(r)] == image[c] + IF c[2] = 0 THEN 0 ELSE rowSum[<<c[1], c[2] - 1>>]
        area[c \in Cells(r)] == rowSum[c] + IF c[1] = 0 THEN 0 ELSE area[<<c[1] - 1, c[2]>>]
    IN  area

\* Between the corners, without the row and the column of the first.
compute_sum_within_rectangle(r, area, first, last) ==
    LET at(row, col) ==
            IF row < 0 \/ col < 0 THEN 0 ELSE area[<<Least(row, r.rows - 1), Least(col, r.cols - 1)>>]
    IN  at(last[1], last[2]) + at(first[1], first[2]) - at(first[1], last[2]) - at(last[1], first[2])

compute_sum_within_rectangle_around(r, area, cell, radius) ==
    compute_sum_within_rectangle(r, area, <<cell[1] - radius - 1, cell[2] - radius - 1>>,
                                          <<cell[1] + radius, cell[2] + radius>>)

Circle(radius) ==
    {d \in (-radius .. radius) \X (-radius .. radius) : Squared(d[1]) + Squared(d[2]) <= Squared(radius)}

\* Mutant: the left border is taken from the circle itself.
circle_border_offsetsInside(radius) ==
    [plusRight |-> {d \in Circle(radius) : <<d[1], d[2] + 1>> \notin Circle(radius)},
     minLeft   |-> {d \in Circle(radius) : <<d[1], d[2] - 1>> \notin Circle(radius)},
     plusDown  |-> {d \in Circle(radius) : <<d[1] + 1, d[2]>> \notin Circle(radius)},
     minTop    |-> {d \in Circle(radius) : <<d[1] - 1, d[2]>> \notin Circle(radius)}]

\* The cells that a circle gains and loses when it moves to the right or down,
\* as seen from its new center.
circle_border_offsets(radius) ==
    [plusRight |-> {d \in Circle(radius) : <<d[1], d[2] + 1>> \notin Circle(radius)},
     minLeft   |-> {<<d[1], d[2] - 1>> : d \in Circle(radius)} \ Circle(radius),
     plusDown  |-> {d \in Circle(radius) : <<d[1] + 1, d[2]>> \notin Circle(radius)},
     minTop    |-> {<<d[1] - 1, d[2]>> : d \in Circle(radius)} \ Circle(radius)]

compute_sum_in_cells(r, cell, offsets) ==
    SumOf(Source(r), {<<cell[1] + d[1], cell[2] + d[2]>> : d \in offsets} \cap Cells(r))

\* prev is the last circle: its center and its sum.
compute_sum_within_circle(r, area, cell, radius, prev) ==
    LET borders == circle_border_offsets(radius)
        noValues == compute_sum_within_rectangle_around(r, area, cell, radius) = 0
        moved(plus, min) ==
            prev.sum + compute_sum_in_cells(r, cell, plus) - compute_sum_in_cells(r, cell, min)
    IN  CASE noValues -> 0
          [] ~noValues /\ prev.at = <<cell[1], cell[2] - 1>> -> moved(borders.plusRight, borders.minLeft)
          [] ~noValues /\ prev.at = <<cell[1] - 1, cell[2]>> -> moved(borders.plusDown, borders.minTop)
          [] OTHER -> compute_sum_in_cells(r, cell, Circle(radius))

\* radius * sqrt(pi) / 2 in whole cells
SquareRadius(radius) == (886 * radius) \div 1000

\* Every cell of the result is data.
sum_in_buffer(r, radius, bufferStyle) ==
    LET area == compute_integral_image(r)
        start == [at |-> <<1 - radius, 1 - radius>>, sum |-> 0, result |-> Source(r)]
        step(prev, cell) ==
            LET sum == compute_sum_within_circle(r, area, cell, radius, prev)
            IN  [at |-> cell, sum |-> sum, result |-> [prev.result EXCEPT ![cell] = sum]]
    IN  IF bufferStyle = "Circular" THEN FoldLeft(step, start, Scan(r)).result
        ELSE [cell \in Cells(r) |->
                 compute_sum_within_rectangle_around(r, area, cell, SquareRadius(radius))]

\* std::numeric_limits<T>::lowest()
Lowest == -1000000

\* The square of the radius is rounded up.
max_in_buffer(r, radius2) ==
    [cell \in Cells(r) |-> Max({Lowest} \cup {r.data[c] : c \in DataIn(r, Within(r, cell, radius2))})]

-----------------------------------------------------------------------------
(* filter.h *)

FilterModes == {"Constant", "Linear", "Exponential", "Exponential2"}

\* In units of one (radius + 1)-th, for a radius of 0 or 1: for more, factors
\* are no fractions.
Factor(mode, radius, d2) ==
    CASE d2 > Squared(radius) -> 0
      [] d2 <= Squared(radius) /\ mode = "Linear" -> radius + 1 - d2
      [] OTHER -> radius + 1

increment_or_assign(ras, cell, value) ==
    [ras EXCEPT ![cell] = IF @ = Null THEN value ELSE @ + value]

\* A value is handed out to the cells around.  If normalised it is a multiple of
\* all the sums of factors.  The exponential filter adds the value at its own
\* cell twice if that cell was reached before.  (An element that is nodata is
\* added to as well, but assigned next.)
filter(r, mode, radius, normalize) ==
    LET around(cell) == {c \in Cells(r) : Factor(mode, radius, D2(c, cell)) > 0}
        sum_area(cell) == SumOf([c \in around(cell) |-> Factor(mode, radius, D2(c, cell))], around(cell))
        part(cell, c) ==
            LET product == r.data[cell] * Factor(mode, radius, D2(c, cell))
            IN  IF normalize THEN product \div sum_area(cell) ELSE product
        twice(cell, ras) == normalize /\ mode = "Exponential" /\ ras[cell] # Null
        hand_out(ras, cell) ==
            IF cell \in r.missing THEN ras
            ELSE [c \in Cells(r) |->
                     IF c \notin around(cell) THEN ras[c]
                     ELSE increment_or_assign(ras, c, IF c = cell /\ twice(cell, ras) THEN 2 * part(cell, c)
                                                      ELSE part(cell, c))[c]]
    IN  FoldLeft(hand_out, [c \in Cells(r) |-> Null], Scan(r))

average_filter_square(r, radius) ==
    [cell \in Cells(r) |->
        LET area == DataIn(r, SquareAround(r, cell, radius))
        IN  IF area = {} THEN Null ELSE <<SumOf(r.data, area), Quantify(area, LAMBDA c : TRUE)>>]

-----------------------------------------------------------------------------
(* majorityfilter.h, blurfilter.h, voronoi.h and category.h *)

\* The most frequent element; the present one if no other is more frequent,
\* otherwise the smallest.
compute_majority(r, cell, radius2) ==
    LET near == DataIn(r, Within(r, cell, radius2))
        count(v) == Quantify(near, LAMBDA c : r.data[c] = v)
        maxCount == Max({0} \cup {count(r.data[c]) : c \in near})
    IN  CASE near = {} -> Null
          [] near # {} /\ cell \notin r.missing /\ count(r.data[cell]) = maxCount -> r.data[cell]
          [] OTHER -> Min({v \in {r.data[c] : c \in near} : count(v) = maxCount})

majority_filter(r, radius2) == [cell \in Cells(r) |-> compute_majority(r, cell, radius2)]

\* Nodata is copied without the mask: the element below it becomes data.
blur_filter(r) ==
    [cell \in Cells(r) |->
        LET near == DataIn(r, SquareAround(r, cell, 1))
        IN  IF cell \in r.missing THEN <<r.data[cell], 1>>
            ELSE <<SumOf(r.data, near), Quantify(near, LAMBDA c : TRUE)>>]

\* Locations are cells of the raster without duplicates.
voronoi(r, locations) ==
    LET nearer(cell, best, k) ==
            IF best = -1 \/ D2(locations[k], cell) < D2(locations[best + 1], cell) THEN k - 1 ELSE best
        nearest(cell) == FoldLeft(LAMBDA best, k : nearer(cell, best, k), -1, [k \in DOMAIN locations |-> k])
    IN  [cell \in Cells(r) |-> IF \E k \in DOMAIN locations : locations[k] = cell
                               THEN (CHOOSE k \in DOMAIN locations : locations[k] = cell) - 1
                               ELSE nearest(cell)]

get_clusters_around(z, cell, radius2) ==
    {z.data[c] : c \in DataIn(z, Within(z, cell, radius2))} \ {0}

\* Nodata of the values is marked and stays so; where the zones only are nodata
\* nothing is assigned.
category_sum_in_buffer(z, r, radius2) ==
    LET reached(id) == {c \in DataIn(r, Cells(r)) : id \in get_clusters_around(z, c, radius2)}
    IN  [cell \in Cells(r) |->
            CASE cell \in r.missing -> Null
              [] cell \notin r.missing /\ cell \in z.missing -> Unset
              [] OTHER -> IF z.data[cell] = 0 THEN 0 ELSE SumOf(r.data, reached(z.data[cell]))]

-----------------------------------------------------------------------------
(* Properties *)

\* The rasters that a call is made with: the images, with a peak at the center,
\* and the same elements in one column.
Asked == request.op = "cells_circular" /\ stage = "skip" /\ visited = <<>> /\ current = Begin(Window(request))

Peak == 5
Inputs ==
    UNION {
        LET data == [image EXCEPT ![request.center] = Peak]
            offset(c) == CellAt(c[1])
        IN  {[rows |-> Rows, cols |-> Cols, data |-> data, missing |-> request.missing],
             [rows |-> Rows * Cols, cols |-> 1,
              data |-> [c \in (0 .. Rows * Cols - 1) \X {0} |-> data[offset(c)]],
              missing |-> {c \in (0 .. Rows * Cols - 1) \X {0} : offset(c) \in request.missing}]} :
        image \in Images }

\* A circle is summed from the circle before it, and a square from the integral
\* image, as if all their data were added up.  A circle is taken to be empty if
\* the square around it sums to zero: what is claimed of circles is claimed of
\* rasters whose squares do so only if they hold nothing but zeros.
SumsExact(r, radius) ==
    LET s == SquareRadius(radius)
        nothing(cell) == \A c \in DataIn(r, SquareAround(r, cell, radius)) : r.data[c] = 0
        misled == \E cell \in Cells(r) :
                     /\ ~nothing(cell)
                     /\ SumOf(r.data, DataIn(r, SquareAround(r, cell, radius))) = 0
        circular == sum_in_buffer(r, radius, "Circular")
        square == sum_in_buffer(r, radius, "Square")
    IN  \A cell \in Cells(r) :
            /\ square[cell] = SumOf(r.data, DataIn(r, SquareAround(r, cell, s)))
            /\ misled \/ circular[cell] = SumOf(r.data, DataIn(r, Within(r, cell, Squared(radius))))

\* A normalised filter moves what its cells hold and loses nothing; the
\* exponential one hands out more.
FilterConserves(r) ==
    \A mode \in FilterModes, radius \in {0, 1} :
        LET s == [r EXCEPT !.data = [c \in DOMAIN @ |-> 60 * @[c]]]
            t == filter(s, mode, radius, TRUE)
            total == SumOf(s.data, DataIn(s, Cells(s)))
            kept == SumOf(t, {c \in Cells(r) : t[c] # Null})
        IN  IF mode = "Exponential" /\ (\A c \in Cells(r) : r.data[c] >= 0) THEN kept >= total
            ELSE mode = "Exponential" \/ kept = total

\* A majority is an element of the circle that is at least as frequent as all
\* others, and the element of the cell itself if that is as frequent.
MajoritiesExact(r, radius2) ==
    LET t == majority_filter(r, radius2)
        frequency(cell, v) == Quantify(DataIn(r, Within(r, cell, radius2)), LAMBDA c : r.data[c] = v)
    IN  \A cell \in Cells(r) :
            /\ t[cell] = Null <=> DataIn(r, Within(r, cell, radius2)) = {}
            /\ t[cell] # Null =>
                  /\ \A c \in DataIn(r, Cells(r)) : frequency(cell, r.data[c]) <= frequency(cell, t[cell])
                  /\ cell \notin r.missing /\ r.data[cell] # t[cell] =>
                        frequency(cell, r.data[cell]) < frequency(cell, t[cell])

\* Every value is added to every zone within its radius, once however many cells
\* of the zone are near.
CategorySumsExact(r, radius2) ==
    LET z == [r EXCEPT !.data = [c \in DOMAIN @ |-> (c[1] + c[2]) % 3], !.missing = {c \in @ : c[2] = 0}]
        t == category_sum_in_buffer(z, r, radius2)
        near(c, id) == \E other \in DataIn(z, Within(z, c, radius2)) : z.data[other] = id
    IN  \A cell \in DataIn(r, Cells(r)) \ z.missing : z.data[cell] # 0 =>
            t[cell] = SumOf(r.data, {c \in DataIn(r, Cells(r)) : near(c, z.data[cell])})

\* A cell belongs to the first of the locations that are nearest to it.
VoronoiExact(r, locations) ==
    \A cell \in Cells(r) :
        LET index == voronoi(r, locations)[cell] + 1
        IN  \A k \in DOMAIN locations :
                /\ D2(locations[index], cell) <= D2(locations[k], cell)
                /\ k < index => D2(locations[index], cell) < D2(locations[k], cell)

\* In the order of the loops
MissingCells(r) ==
    FoldLeft(LAMBDA seen, c : IF c \in r.missing THEN Append(seen, c) ELSE seen, <<>>, Scan(r))

\* What the algorithms over windows compute cell by cell, with borders that are
\* cut off, from what they computed before, is what their names say.
FiltersExact ==
    Asked => \A r \in Inputs :
        /\ SumsExact(r, request.radius)
        /\ request.radius = 1 => FilterConserves(r)
        /\ \A radius2 \in {Squared(request.radius), Squared(request.radius) + 1} :
              MajoritiesExact(r, radius2) /\ CategorySumsExact(r, radius2)
        /\ r.missing # {} => VoronoiExact(r, MissingCells(r))
=============================================================================
