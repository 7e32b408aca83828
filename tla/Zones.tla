-------------------------------- MODULE Zones --------------------------------
(***************************************************************************)
(* The algorithms that gather the cells of a zone and hand something back  *)
(* to them: category.h, the sums of masking.h, choropleth.h, tablerow.h,   *)
(* distribute.h, weighteddistribution.h, arealweighteddistribution.h,      *)
(* dasmap.h, multiresolution.h and aggregatemultiresolution.h.  A zone is  *)
(* all the cells with one integer in a second raster z.                    *)
(*                                                                         *)
(* Quantities are integers: a fraction counts in units of one One-th, and  *)
(* an amount is a multiple of all the numbers it may be divided by.        *)
(***************************************************************************)
EXTENDS PolygonCoverage

LOCAL INSTANCE FiniteSets
LOCAL INSTANCE FiniteSetsExt
LOCAL INSTANCE SequencesExt

Both(z, r) == {i \in DOMAIN r.data : ~IsNodata(z, i) /\ ~IsNodata(r, i)}

\* Mutant: nodata of the raster belongs to the zone.
InZoneAny(z, r, zone) == {i \in DOMAIN r.data : ~IsNodata(z, i) /\ z.data[i] = zone}

InZone(z, r, zone) == {i \in Both(z, r) : z.data[i] = zone}

\* The elements of some cells, added up at the width of a type.
Total(type, r, cells) ==
    LET values == MapThenSumSet(LAMBDA i : r.data[i], cells)
    IN  CASE \E i \in cells : r.data[i] = NaN -> NaN
          [] type = "uint" /\ (\A i \in cells : r.data[i] # NaN) -> values % Modulus
          [] OTHER -> values

-----------------------------------------------------------------------------
(* category.h *)

Lowest(type) == IF type = "float" THEN -FloatMax ELSE 0

\* Zone 0 and elements of 0 are not looked at.
category_map(z, r, op) ==
    LET cells(zone) == {i \in InZone(z, r, zone) : r.data[i] # 0}
        numbers(zone) == {r.data[i] : i \in cells(zone)} \ {NaN}
        value(zone) == CASE op = "sum" -> Total(r.type, r, cells(zone))
                         [] op = "max" -> Max(numbers(zone) \cup {Lowest(r.type)})
                         [] op = "min" -> Min(numbers(zone) \cup {Largest(r.type)})
    IN  [zone \in {z.data[i] : i \in {j \in Both(z, r) : r.data[j] # 0}} \ {0} |-> value(zone)]

MayCategorise(z, r) == MayMark(r, {i \in DOMAIN z.data : IsNodata(z, i)})
category_func(z, r, op) ==
    LET m == category_map(z, r, op)
        result == Filled(r.storage, r.type, r.nod, Len(r.data), 0)
        of(zone) == IF zone \in DOMAIN m THEN m[zone] ELSE 0
        zoned == {i \in DOMAIN z.data : ~IsNodata(z, i) /\ z.data[i] # 0}
        assigned == [result EXCEPT !.data = [i \in DOMAIN @ |-> IF i \in zoned THEN of(z.data[i]) ELSE @[i]]]
    IN  Marked(MarkedAsData(assigned, zoned), {i \in DOMAIN z.data : IsNodata(z, i)})

\* The smallest of the elements that come most often.
Mode(z, r, zone) ==
    LET count(v) == Cardinality({i \in InZone(z, r, zone) : r.data[i] = v})
        values == {r.data[i] : i \in InZone(z, r, zone)}
    IN  IF values = {} THEN 0 ELSE Min({v \in values : \A w \in values : count(w) <= count(v)})

\* The zones are read as they are when the result is written, nodata or not.
category_mode(z, r) ==
    [Filled(r.storage, r.type, r.nod, Len(r.data), 0) EXCEPT !.data =
        [i \in DOMAIN @ |-> IF z.data[i] = 0 THEN @[i] ELSE Mode(z, r, z.data[i])]]

category_filter(z, r, which) ==
    LET true(zone) == {i \in InZone(z, r, zone) : r.data[i] # 0}
        keeps(zone) == CASE which = "or" -> true(zone) # {}
                         [] which = "and" -> true(zone) = InZone(z, r, zone)
                         [] which = "not" -> true(zone) = {}
    IN  [z EXCEPT !.data = [i \in DOMAIN @ |-> IF @[i] # 0 /\ keeps(@[i]) THEN @[i] ELSE 0]]

-----------------------------------------------------------------------------
(* The sums of masking.h, and choropleth.h *)

Present(z, r) == {i \in DOMAIN r.data : ~Missing(z, i) /\ ~Missing(r, i)}
sum_mask(r, z) ==
    [id \in {z.data[i] : i \in Present(z, r)} |-> Total("float", r, {i \in Present(z, r) : z.data[i] = id})]
sum_mask_of(r, z, ids) == [id \in ids |-> IF id \in DOMAIN sum_mask(r, z) THEN sum_mask(r, z)[id] ELSE 0]
count_mask(z) ==
    [id \in DataValues(z) |-> Cardinality({i \in ValueCells(z) : z.data[i] = id})]

\* An average is over the cells of the area, whether the input has data or not.
Choropleth(r, z, average) ==
    LET sums == sum_mask_of(r, z, DataValues(z))
        value(id) == IF average THEN Compute("float", "divides", sums[id], count_mask(z)[id]) ELSE sums[id]
    IN  Put(Made(z, "float", NaN), [i \in DOMAIN z.data |-> IF Missing(z, i) THEN None ELSE value(z.data[i])])
choropleth_sum(r, z) == Choropleth(r, z, FALSE)
choropleth_average(r, z) == Choropleth(r, z, TRUE)

-----------------------------------------------------------------------------
(* tablerow.h *)

Operations == {"Sum", "Count", "CountNonZero", "Min", "MinNonZero", "Max", "Average", "AverageInCat1"}

\* The entry of a category, an element and a count, after one more cell with x;
\* <<>> before there is an entry.  A cell of nodata makes one of 0 without any.
Entered(op, entry, x) ==
    LET added == IF entry = <<>> THEN <<x, 1>> ELSE <<entry[1] + x, entry[2] + 1>>
        kept(y) == IF entry = <<>> THEN <<x, 1>> ELSE <<y, entry[2]>>
    IN  CASE x = None -> IF entry = <<>> THEN <<0, 0>> ELSE entry
          [] x = 0 /\ op \in {"CountNonZero", "MinNonZero"} -> entry
          [] x # None /\ op \in {"Sum", "Count", "Average", "AverageInCat1"} -> added
          [] x \notin {None, 0} /\ op = "CountNonZero" ->
                 IF entry = <<>> THEN added ELSE <<entry[1], entry[2] + 1>>
          [] op = "Max" /\ x # None -> kept(Max({entry[1], x}))
          [] op = "Min" /\ x # None -> kept(Min({entry[1], x}))
          [] OTHER -> kept(Min({entry[1], x}))

Entry(r, z, op, cat) ==
    LET cells == SelectSeq([i \in DOMAIN z.data |-> i], LAMBDA i : ~IsNodata(z, i) /\ z.data[i] = cat)
        values == [j \in DOMAIN cells |-> IF IsNodata(r, cells[j]) THEN None ELSE r.data[cells[j]]]
    IN  IF op = "AverageInCat1" /\ cat = 1
        THEN FoldLeft(LAMBDA e, x : IF x = None THEN e ELSE Entered(op, e, x), <<0, 0>>, values)
        ELSE FoldLeft(LAMBDA e, x : Entered(op, e, x), <<>>, values)

\* The columns of the table; None is the text for a column without a number.
table_row(r, z, op) ==
    LET cats == IF op = "AverageInCat1" THEN {1} ELSE {z.data[i] : i \in {j \in DOMAIN z.data : ~IsNodata(z, j)}}
        shown(e) == CASE e[2] = 0 -> None
                      [] e[2] > 0 /\ op \in {"Count", "CountNonZero"} -> e[2]
                      [] e[2] > 0 /\ op \in {"Average", "AverageInCat1"} -> Quotient("float", e[1], e[2])
                      [] OTHER -> e[1]
    IN  [cat \in {c \in cats : Entry(r, z, op, c) # <<>>} |-> shown(Entry(r, z, op, cat))]

-----------------------------------------------------------------------------
(* distribute.h: a One-th is a fraction *)

One == 2

\* Of a raster with a number.  A proportion of 0 leaves nothing but nodata.
distribute(r, proportions) ==
    [p \in DOMAIN proportions |->
        IF proportions[p] = 0 THEN Filled(r.storage, "float", r.nod, Len(r.data), r.nod)
        ELSE Put(Filled(r.storage, "float", r.nod, Len(r.data), r.nod),
                 [i \in DOMAIN r.data |->
                    IF Missing(r, i) THEN None ELSE Compute("float", "multiplies", r.data[i], proportions[p])])]

\* amount is a multiple of the total that it is divided by
value_distribution(amount, r, total) ==
    Put(Filled(r.storage, "float", r.nod, Len(r.data), r.nod),
        [i \in DOMAIN r.data |->
            IF Missing(r, i) THEN None ELSE Compute("float", "multiplies", r.data[i], amount \div total)])

\* Fractions that are nodata are 0; those beyond 0 and 1 throw.
FractionAt(s, i) == IF IsNodata(s, i) THEN 0 ELSE s.data[i]
MayDistributeBy(r, s) == \A i \in ValueCells(r) : FractionAt(s, i) \in 0..One
raster_distribution(r, s) ==
    LET part(i, remainder) ==
            Compute("float", "multiplies", r.data[i], IF remainder THEN One - FractionAt(s, i) ELSE FractionAt(s, i))
        raster_of(remainder) ==
            Put(Filled(r.storage, "float", r.nod, Len(r.data), r.nod),
                [i \in DOMAIN r.data |-> IF Missing(r, i) THEN None ELSE part(i, remainder)])
    IN  [fraction |-> raster_of(FALSE), remainder |-> raster_of(TRUE)]

\* Every id of the mask has a location; an element without an id throws.
MayGather(r, z, id2location) ==
    \A i \in ValueCells(r) : ~IsNodata(z, i) /\ z.data[i] \in DOMAIN id2location
distribute_spatially(r, z, id2location) ==
    LET ids == {z.data[i] : i \in ValueCells(r)}
        idAt(i) == CHOOSE id \in ids : id2location[id] = i
        total(id) == Total(r.type, r, {i \in ValueCells(r) : z.data[i] = id})
    IN  Put(Filled(r.storage, r.type, r.nod, Len(r.data), r.nod),
            [i \in DOMAIN r.data |-> IF i \in {id2location[id] : id \in ids} THEN total(idAt(i)) ELSE None])

-----------------------------------------------------------------------------
(* weighteddistribution.h, arealweighteddistribution.h and dasmap.h *)

SumOfWeights(z, w, zone) == Total("float", w, InZone(z, w, zone))

\* Mutant: an amount for a zone without cells is not refused.
MayDistributeAny(z, w, amounts) ==
    \A i \in DOMAIN z.data : ~IsNodata(z, i) => z.data[i] >= 0 /\ (IsNodata(w, i) \/ w.data[i] >= 0)

\* Weights and zones are not negative, and each amount but 0 has a zone.
MayDistribute(z, w, amounts) ==
    /\ \A i \in DOMAIN z.data : ~IsNodata(z, i) => z.data[i] >= 0 /\ (IsNodata(w, i) \/ w.data[i] >= 0)
    /\ \A zone \in DOMAIN amounts :
          amounts[zone] = 0 \/ \E i \in DOMAIN z.data : ~IsNodata(z, i) /\ z.data[i] = zone

\* Mutant: weights of 0 count the cells without a weight, too.
ShareOfAll(z, w, amounts, i) ==
    LET zone == z.data[i]
        zoneCells == {j \in DOMAIN z.data : ~IsNodata(z, j) /\ z.data[j] = zone}
        data == InZone(z, w, zone)
    IN  CASE SumOfWeights(z, w, zone) > 0 /\ i \in data ->
                 (amounts[zone] * w.data[i]) \div SumOfWeights(z, w, zone)
          [] SumOfWeights(z, w, zone) = 0 /\ (data = {} \/ i \in data) ->
                 amounts[zone] \div Cardinality(zoneCells)
          [] OTHER -> None

\* To the cells in proportion to their weights, or evenly if all of them are 0,
\* or evenly to the cells without a weight if no cell has one.
Share(z, w, amounts, i) ==
    LET zone == z.data[i]
        zoneCells == {j \in DOMAIN z.data : ~IsNodata(z, j) /\ z.data[j] = zone}
        data == InZone(z, w, zone)
    IN  CASE SumOfWeights(z, w, zone) > 0 /\ i \in data ->
                 (amounts[zone] * w.data[i]) \div SumOfWeights(z, w, zone)
          [] SumOfWeights(z, w, zone) = 0 /\ i \in data -> amounts[zone] \div Cardinality(data)
          [] data = {} -> amounts[zone] \div Cardinality(zoneCells)
          [] OTHER -> None

weighted_distribution(z, w, amounts, zero_is_nodata) ==
    LET nod == IF zero_is_nodata THEN 0 ELSE NaN
        share(i) == IF IsNodata(z, i) \/ z.data[i] \notin DOMAIN amounts THEN None ELSE Share(z, w, amounts, i)
    IN  Put(Filled(z.storage, "float", nod, Len(z.data), nod),
            [i \in DOMAIN z.data |-> IF zero_is_nodata /\ share(i) = 0 THEN None ELSE share(i)])

areal_weighted_distribution(z, amounts) ==
    weighted_distribution(z, Filled(z.storage, "float", z.nod, Len(z.data), 1), amounts, TRUE)

\* computeGkz: the share of a cell of class k and zone z as a fraction.  Ck are
\* the weights of the classes, from 0 on, and NaN if a class has none.  The
\* factor A / Az that all classes of a zone have in common is left out.
gkz(k, z, Ck, class, zone) ==
    LET A == Both(z, k)
        Akz(c) == Cardinality({i \in A : k.data[i] = c /\ z.data[i] = zone})
        Ak(c) == Cardinality({i \in A : k.data[i] = c})
        Az == Cardinality({i \in A : z.data[i] = zone})
        all == ProductSet({Ak(c) : c \in DOMAIN Ck} \ {0})
        ckz(c) == IF Ck[c] = NaN \/ Ak(c) = 0 THEN 0 ELSE (Ck[c] * Akz(c) * all) \div Ak(c)
        cz == MapThenSumSet(ckz, DOMAIN Ck)
    IN  CASE cz > 0 -> <<ckz(class), cz * Akz(class)>>
          [] cz = 0 /\ Az > 0 -> <<1, Az>>
          [] OTHER -> <<0, 1>>

\* Elements of the result are pairs of a numerator and a denominator.
MayMap(k, z, Ck, amounts) ==
    \A i \in Both(z, k) : k.data[i] \in DOMAIN Ck /\ z.data[i] \in DOMAIN amounts
dasMap(k, z, Ck, amounts) ==
    LET g(i) == gkz(k, z, Ck, k.data[i], z.data[i])
        mapped(i) == i \in Both(z, k) /\ amounts[z.data[i]] # NaN
    IN  Put(Filled(z.storage, "float", NaN, Len(z.data), NaN),
            [i \in DOMAIN z.data |-> IF mapped(i) THEN <<amounts[z.data[i]] * g(i)[1], g(i)[2]>> ELSE None])

-----------------------------------------------------------------------------
(* multiresolution.h and aggregatemultiresolution.h, of rasters with cols columns *)

\* The cell of the smaller raster that holds cell i of the larger one.
BlockOf(i, cols, factor) ==
    ((i - 1) \div (cols * factor)) * (cols \div factor) + ((i - 1) % cols) \div factor + 1

\* The elements are copied without the mask.
inflate(r, cols, factor) ==
    LET result == Made(r, r.type, r.nod)
        data == [i \in 1..(Len(r.data) * factor * factor) |-> r.data[BlockOf(i, cols * factor, factor)]]
    IN  IF Masked(r) THEN [result EXCEPT !.data = data, !.mask = IF @ = <<>> THEN @ ELSE [i \in DOMAIN data |-> FALSE]]
        ELSE [result EXCEPT !.data = data]

\* A mask that marks all cells of the result stays as it is.
deflate_equal_sum(r, cols, factor) ==
    LET n == Len(r.data) \div (factor * factor)
        block(b) == {i \in DOMAIN r.data : ~IsNodata(r, i) /\ BlockOf(i, cols, factor) = b}
    IN  [Filled(r.storage, "float", NaN, n, NaN) EXCEPT !.data =
            [b \in 1..n |-> IF block(b) = {} THEN @[b] ELSE Total("float", r, block(b))]]

convertCategoriesToWeights(z, weight) ==
    [Filled(z.storage, "float", NaN, Len(z.data), NaN) EXCEPT !.data =
        [i \in DOMAIN @ |-> IF ~IsNodata(z, i) /\ z.data[i] \in DOMAIN weight THEN weight[z.data[i]] ELSE @[i]]]

aggregate_multi_resolution(z, weight, cols, factor) ==
    deflate_equal_sum(convertCategoriesToWeights(z, weight), cols, factor)

aggregate_and_spread_multi_resolution(z, weight, zones, amounts, cols, factor) ==
    deflate_equal_sum(weighted_distribution(zones, convertCategoriesToWeights(z, weight), amounts, FALSE), cols, factor)

-----------------------------------------------------------------------------
(* Properties: of the raster and a copy of it below, so that a zone has cells *)
(* of both and nodata comes before and after data of its zone.                *)

Twice(r) ==
    IF Masked(r) THEN [r EXCEPT !.data = @ \o @, !.mask = @ \o @] ELSE [r EXCEPT !.data = @ \o @]

Patterns == {<<1, 1, 0, 1>>, <<0, 1, 1, 0>>, <<2, 1, 0, 1>>, <<1, 2, 2, 1>>}
Zonings(r) == {FromData(r.storage, "int", nod, SubSeq(zones, 1, Len(r.data))) : zones \in Patterns, nod \in {None, 2}}

ContentsIn(z, r, zone) == {i \in DOMAIN r.data : Contents(z)[i] = zone /\ Contents(r)[i] # None}
Sum(x, cells) == MapThenSumSet(LAMBDA i : x[i], cells)
Data(x) == {i \in DOMAIN x : x[i] # None}

\* What category.h hands to the cells of a zone is the sum, the largest, the
\* smallest but 0 or the most frequent element among the data of the zone, and
\* a filter keeps whole zones.  (Nodata of the zones is left out for the mode
\* and the filters, which write data there.)
CategoriesExact(z, r) ==
    LET x == Contents(r)
        values(zone) == {x[i] : i \in ContentsIn(z, r, zone)}
        wanted(op, zone) ==
            CASE zone = 0 -> 0
              [] op = "sum" /\ zone # 0 -> IF r.type = "uint" THEN Sum(x, ContentsIn(z, r, zone)) % Modulus
                                           ELSE Sum(x, ContentsIn(z, r, zone))
              [] op = "max" /\ zone # 0 -> Max(values(zone) \cup {0})
              [] OTHER -> IF values(zone) \subseteq {0} THEN 0 ELSE Min(values(zone) \ {0})
        frequency(zone, v) == Quantify(ContentsIn(z, r, zone), LAMBDA i : x[i] = v)
        filtered(which, i) == Contents(category_filter(z, r, which))[i] = Contents(z)[i]
    IN  /\ MayCategorise(z, r) => \A op \in {"sum", "max", "min"}, i \in DOMAIN x :
              LET t == category_func(z, r, op)
                  numbers == IF z.data[i] = 0 THEN {t.nod} ELSE InBandNumbers(t)
              IN  Contents(t)[i] \in IF IsNodata(z, i) THEN {None}
                                     ELSE Promise!AsRead(wanted(op, z.data[i]), numbers)
        /\ \A i \in DOMAIN x : Contents(z)[i] \notin {0, None} =>
              LET zone == Contents(z)[i]
                  mode == category_mode(z, r).data[i]
                  true == {j \in ContentsIn(z, r, zone) : x[j] # 0}
              IN  /\ \A v \in values(zone) :
                         \/ frequency(zone, v) < frequency(zone, mode)
                         \/ frequency(zone, v) = frequency(zone, mode) /\ mode <= v
                  /\ filtered("or", i) <=> true # {}
                  /\ filtered("and", i) <=> true = ContentsIn(z, r, zone)
                  /\ filtered("not", i) <=> true = {}

\* A column of a table is the operation on the data of its category.  The
\* minima and the maximum show nothing if nodata comes before the first of them.
TableRowsExact(z, r) ==
    \A op \in Operations : \A cat \in DOMAIN table_row(r, z, op) :
        LET cells == ContentsIn(z, r, cat)
            counted == IF op \in {"MinNonZero", "CountNonZero"} THEN {i \in cells : r.data[i] # 0} ELSE cells
            values == {r.data[i] : i \in counted}
            late == \E i \in DOMAIN r.data : /\ Contents(z)[i] = cat /\ Contents(r)[i] = None
                                             /\ \A j \in counted : i < j
            sum_ == Sum(r.data, cells)
        IN  table_row(r, z, op)[cat] =
                CASE counted = {} -> None
                  [] counted # {} /\ op = "Sum" -> sum_
                  [] counted # {} /\ op \in {"Count", "CountNonZero"} -> Cardinality(counted)
                  [] counted # {} /\ op \in {"Average", "AverageInCat1"} -> Quotient("float", sum_, Cardinality(counted))
                  [] counted # {} /\ op \in {"Min", "MinNonZero"} -> IF late THEN None ELSE Min(values)
                  [] OTHER -> IF late THEN None ELSE Max(values)

\* Sums and tables of zones agree with the cells they are made of.
ZonesExact ==
    LET r == Twice(raster)
    IN  (\A i \in DOMAIN r.data : Contents(r)[i] # NaN) => \A z \in Zonings(r) :
            /\ CategoriesExact(z, r)
            /\ TableRowsExact(z, r)
            /\ \A i \in DOMAIN r.data :
                  LET cells == {j \in DOMAIN r.data : Contents(z)[j] = Contents(z)[i]}
                      present == {j \in cells : ~Missing(r, j)}
                  IN  /\ IsNodata(z, i) <=> Contents(choropleth_sum(r, z))[i] = None
                      /\ ~IsNodata(z, i) =>
                            /\ Contents(choropleth_sum(r, z))[i] = Sum(r.data, present)
                            /\ Contents(choropleth_average(r, z))[i] =
                                   Quotient("float", Sum(r.data, present), Cardinality(cells))

\* The amounts of a zone that may be divided by any sum of four weights.  A zone
\* that has no cell has 0, which is passed over, or an amount, which is refused.
Amount == 27720
NoZone == 9
AmountsFor(z) ==
    LET zones == {z.data[i] : i \in {j \in DOMAIN z.data : ~IsNodata(z, j)}}
        amounts(chosen, none) == [zone \in chosen |-> IF zone = NoZone THEN none ELSE Amount * zone]
    IN  {amounts(zones \ {1}, 0), amounts(zones \cup {NoZone}, 0), amounts(zones \cup {NoZone}, Amount)}

\* Every amount of weighted_distribution that is not refused arrives in its zone,
\* and goes to cells in proportion to their weights, or evenly if none has any;
\* what has no amount, and 0, is nodata.
WeightsConserve(z, w) ==
    \A amounts \in AmountsFor(z), flag \in BOOLEAN : MayDistribute(z, w, amounts) =>
        LET x == Contents(weighted_distribution(z, w, amounts, flag))
            of(zone) == {i \in DOMAIN x : Contents(z)[i] = zone}
            y == Contents(areal_weighted_distribution(z, amounts))
        IN  /\ \A zone \in DOMAIN amounts :
                  /\ Sum(x, of(zone) \cap Data(x)) = amounts[zone]
                  /\ Sum(y, of(zone) \cap Data(y)) = amounts[zone]
                  /\ \A i, j \in of(zone) \cap Data(x) \cap Data(Contents(w)) :
                        Sum(w.data, of(zone) \cap Data(Contents(w))) # 0 => x[i] * w.data[j] = x[j] * w.data[i]
                  /\ \A i, j \in of(zone) \cap Data(x) :
                        Sum(w.data, of(zone) \cap Data(Contents(w))) = 0 => x[i] = x[j]
            /\ \A i \in Data(x) : IsNodata(z, i) = FALSE /\ z.data[i] \in DOMAIN amounts /\ (flag => x[i] # 0)

\* The shares of dasMap in a zone add up to its amount.
DasMapConserves(z, k) ==
    \A Ck \in {<<1, 1, 1, 1>>, <<2, 0, 3, NaN>>} :
        LET weight == [c \in 0..3 |-> Ck[c + 1]]
            amounts == [zone \in 0..2 |-> IF zone = 0 THEN NaN ELSE zone]
            x == Contents(dasMap(k, z, weight, amounts))
            den == ProductSet({x[i][2] : i \in Data(x)})
        IN  MayMap(k, z, weight, amounts) => \A zone \in 1..2 :
                LET cells == {i \in Data(x) : z.data[i] = zone}
                IN  cells # {} => MapThenSumSet(LAMBDA i : x[i][1] * (den \div x[i][2]), cells) = zone * den

\* Nothing is lost where quantities are spread over polygons, rasters, cells,
\* locations or resolutions.  (Masked rasters are left out for the resolutions: an
\* inflated one loses its mask and a deflated one stays nodata.)
TotalsConserved ==
    LET r == Twice(raster)
        x == Contents(r)
        total == Sum(x, Data(x))
        sumOf(t) == Sum(Contents(t), Data(Contents(t)))
    IN  (\A i \in DOMAIN x : x[i] # NaN) =>
        /\ r.type = "float" /\ Len(x) = 4 /\ (\A i \in DOMAIN x : x[i] = 1) =>
              \A polygons \in Maps, order \in Orders :
                 /\ BordersDivided(polygons, order)
                 /\ BurnedExactly(r.storage, r.nod, 2, polygons, order)
        /\ r.nod # None =>
              /\ \A proportions \in {<<2>>, <<1, 1>>, <<0, 2>>} :
                    MapThenSumSet(LAMBDA p : sumOf(distribute(r, proportions)[p]), DOMAIN proportions) = One * total
              /\ total > 0 => sumOf(value_distribution(3 * total, r, total)) = 3 * total
              /\ \A s \in {Twice(s) : s \in {o \in Others : o.type = "float"}} : MayDistributeBy(r, s) =>
                    LET t == raster_distribution(r, s)
                    IN  \A i \in DOMAIN x :
                          IF x[i] = None THEN Contents(t.fraction)[i] = None /\ Contents(t.remainder)[i] = None
                          ELSE Contents(t.fraction)[i] + Contents(t.remainder)[i] = One * x[i]
        /\ \A z \in Zonings(r) :
              /\ WeightsConserve(z, r)
              /\ r.nod # None /\ Len(x) > 2 /\ MayGather(r, z, [id \in 0..2 |-> id + 1]) =>
                    LET t == distribute_spatially(r, z, [id \in 0..2 |-> id + 1])
                        of(id) == Sum(x, {i \in Data(x) : z.data[i] = id})
                    IN  \A id \in 0..2 : Contents(t)[id + 1] \in
                            IF \A i \in Data(x) : z.data[i] # id THEN {None}
                            ELSE Promise!AsRead(IF r.type = "uint" THEN of(id) % Modulus ELSE of(id), InBandNumbers(r))
              /\ r.type = "uint" => DasMapConserves(z, r)
              /\ ~Masked(r) /\ Len(x) = 4 =>
                    LET weight == [c \in 0..1 |-> c + 1]
                    IN  sumOf(aggregate_multi_resolution(z, weight, 2, 2)) =
                            Sum([i \in DOMAIN x |-> IF Contents(z)[i] \in 0..1 THEN z.data[i] + 1 ELSE 0], DOMAIN x)
        /\ r.type = "float" /\ ~Masked(r) /\ Len(x) = 4 =>
              /\ sumOf(deflate_equal_sum(r, 2, 2)) = total
              /\ deflate_equal_sum(inflate(r, 2, 2), 4, 2).data =
                    [i \in DOMAIN x |-> IF IsNodata(r, i) THEN NaN ELSE 4 * r.data[i]]
=============================================================================
