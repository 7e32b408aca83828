---------------------------- MODULE DenseRaster ----------------------------
(***************************************************************************)
(* DenseRaster<T> (core/include/gdx/denseraster.h): one vector of elements *)
(* and metadata.  Nodata is in band: a NaN in a raster of float, the       *)
(* number of the metadata in any other, and nothing if the metadata have   *)
(* no number.  Every member that changes or makes a raster is an operator  *)
(* from rasters to rasters; one that may throw has a condition beside it.  *)
(* Rows and columns are left out: the vector is linear.                    *)
(***************************************************************************)
EXTENDS Elements

Cells(r) == DOMAIN r.data
size(r) == Len(r.data)

Raster(type, nod, data) ==
    [storage |-> "dense", type |-> type, nod |-> nod, data |-> data]

is_nodata(r, i) ==
    /\ r.nod # None
    /\ r.data[i] = IF has_nan(r.type) THEN NaN ELSE r.nod

\* init_nodata_values: the number of the metadata becomes a NaN
init_nodata_values(r) ==
    IF has_nan(r.type) /\ r.nod \notin {None, NaN}
    THEN [r EXCEPT !.data = [i \in Cells(r) |-> IF @[i] = r.nod THEN NaN ELSE @[i]]]
    ELSE r

FromData(type, nod, data) == init_nodata_values(Raster(type, nod, data))

fill(r, v) == [r EXCEPT !.data = [i \in Cells(r) |-> v]]

Filled(type, nod, n, v) ==
    Raster(type, nod, [i \in 1..n |-> IF has_nan(type) /\ nod # None /\ v = nod THEN NaN ELSE v])

resize(r, n) == [r EXCEPT !.data = [i \in 1..n |-> IF i <= size(r) THEN @[i] ELSE 0]]
resize_and_fill(r, n, v) == fill(resize(r, n), v)

has_nodata(r) == \E i \in Cells(r) : is_nodata(r, i)

\* The vector instructions of a raster of float compare NaN # nod.
fill_values(r, v) ==
    IF r.nod = None THEN fill(r, v)
    ELSE [r EXCEPT !.data = [i \in Cells(r) |->
                                IF Holds("not_equal_to", @[i], r.nod) THEN v ELSE @[i]]]

\* Mutant: a raster of float is filled with the number, not with NaN.
fill_with_number(r) == IF r.nod = None THEN r ELSE fill(r, r.nod)

InBand(r) == IF has_nan(r.type) THEN NaN ELSE r.nod
fill_with_nodata(r) == IF r.nod = None THEN r ELSE fill(r, InBand(r))

MayMark(r) == r.nod # None
mark_as_nodata(r, i) == [r EXCEPT !.data[i] = InBand(r)]
assign(r, i, v) == [r EXCEPT !.data[i] = v]     \* mark_as_data does nothing

MaySetNodata(r, v) == has_nan(r.type) \/ v # NaN
set_nodata(r, v) == [r EXCEPT !.nod = v]

replace_nodata(r, v) ==
    [r EXCEPT !.data = [i \in Cells(r) |-> IF is_nodata(r, i) THEN v ELSE @[i]],
              !.nod = None]

turn_value_into_nodata(r, v) ==
    [r EXCEPT !.data = [i \in Cells(r) |-> IF @[i] = v THEN InBand(r) ELSE @[i]]]

\* std::replace with operator==, which no NaN satisfies
replace(r, old, new) ==
    [r EXCEPT !.data = [i \in Cells(r) |-> IF @[i] = old /\ old # NaN THEN new ELSE @[i]]]

add_to_cell(r, i, v) ==
    [r EXCEPT !.data[i] = IF is_nodata(r, i) THEN v ELSE Compute(r.type, "plus", @, v)]

collapse_data(r) ==
    IF has_nan(r.type) /\ r.nod \notin {None, NaN}
    THEN [r EXCEPT !.data = [i \in Cells(r) |-> IF @[i] = NaN THEN r.nod ELSE @[i]]]
    ELSE r

\* write_raster collapses a copy, read_dense_raster starts from its numbers
Stored(r) == collapse_data(r).data
Reread(r) == FromData(r.type, r.nod, Stored(r))

equal_to(r, s) ==
    \A i \in Cells(r) : /\ is_nodata(r, i) = is_nodata(s, i)
                        /\ is_nodata(r, i) \/ Holds("equal_to", r.data[i], s.data[i])

-----------------------------------------------------------------------------
(* Arithmetic *)

assign_nodata_value(nodResult, type, nod1, nod2) ==
    IF nodResult # None \/ (nod1 = None /\ nod2 = None) THEN nodResult
    ELSE find_best_nodata_value(type, nodResult, IF nod1 = None THEN nod2 ELSE nod1)

\* Two rasters of float: a NaN is contagious, metadata are not looked at.
FloatElement(op, x, y) ==
    IF op = "divides" /\ y = 0 THEN NaN ELSE Compute("float", op, x, y)

\* Two rasters of integers that both have a nodata number: a zero divisor is
\* replaced by 1 before the comparisons.
IntElement(type, op, nod, nod1, nod2, x, y) ==
    LET byZero == op = "divides" /\ y = 0
        w == IF byZero THEN 1 ELSE y
    IN  IF x = nod1 \/ w = nod2 \/ byZero THEN nod ELSE Compute(type, op, x, w)

\* Everything else, element by element.
FallbackElement(r, s, i, type, op, nod) ==
    LET missing == is_nodata(r, i) \/ is_nodata(s, i)
        byZero == op = "divides" /\ s.data[i] = 0
    IN  IF nod # None /\ (missing \/ byZero)
        THEN IF has_nan(type) THEN NaN ELSE nod
        ELSE Compute(type, op, r.data[i], s.data[i])

raster_operation(r, s, type, op, nod) ==
    Raster(type, nod,
           [i \in Cells(r) |->
               CASE has_nan(r.type) /\ has_nan(s.type)
                       -> FloatElement(op, r.data[i], s.data[i])
                 [] ~has_nan(r.type) /\ ~has_nan(s.type) /\ r.nod # None /\ s.nod # None
                       -> IntElement(type, op, IF has_nan(type) THEN NaN ELSE nod,
                                     r.nod, s.nod, r.data[i], s.data[i])
                 [] OTHER -> FallbackElement(r, s, i, type, op, nod)])

\* +=, -=, *=, /= with a raster: this raster takes the nodata number first
InPlace(r, s, op) ==
    LET taken == assign_nodata_value(r.nod, r.type, r.nod, s.nod)
        nod == IF op = "divides" /\ taken = None THEN nodata_for_type(r.type) ELSE taken
    IN  raster_operation(set_nodata(r, nod), s, r.type, op, nod)

\* +, -, *, / with a raster
perform_raster_operation(r, s, op) ==
    LET type == IF op = "divides" THEN "float" ELSE Widest(r.type, s.type)
        nod == IF op = "divides" THEN NaN
               ELSE assign_nodata_value(r.nod, type, r.nod, s.nod)
    IN  raster_operation(r, s, type, op, nod)

\* +, -, *, / and +=, -=, *=, /= with a scalar of the type of the raster
perform_scalar_operation(r, op, v) ==
    [r EXCEPT !.data =
        [i \in Cells(r) |->
            IF ~has_nan(r.type) /\ r.nod # None /\ @[i] = r.nod THEN r.nod
            ELSE Compute(r.type, op, @[i], v)]]

\* A scalar minus a raster, and divided by one (which throws on a zero if the
\* raster has no nodata, and does not ask whether a cell is nodata)
ScalarMinus(v, r) ==
    Raster(r.type, r.nod, [i \in Cells(r) |-> minus_scalar_first(r.type, r.nod, v, r.data[i])])
MayDivideScalar(r) == r.nod # None \/ \A i \in Cells(r) : r.data[i] # 0
ScalarDivided(v, r) ==
    Raster("float", r.nod, [i \in Cells(r) |-> FloatElement("divides", v, r.data[i])])

\* The elements are copied by the constructor that looks for the number.
Minus(r) ==
    LET copy == FromData(r.type, r.nod, r.data)
    IN  [copy EXCEPT !.data = [i \in Cells(r) |-> negate(r.type, r.nod, @[i])]]

\* add_or_assign with a raster: nodata of the other raster is skipped
add_or_assign(r, s) ==
    LET missing(x, i) == IF has_nan(r.type) /\ has_nan(s.type)
                         THEN x.data[i] = NaN ELSE is_nodata(x, i)
    IN  [r EXCEPT !.data =
            [i \in Cells(r) |->
                IF missing(s, i) THEN @[i]
                ELSE Compute(r.type, "plus", IF missing(r, i) THEN 0 ELSE @[i], s.data[i])]]

\* add_or_assign with a scalar.  The vector instructions for float assign first
\* and compute their second mask from the raster, not from what they assigned.
add_or_assign_scalar(r, v) ==
    [r EXCEPT !.data =
        [i \in Cells(r) |->
            IF IF has_nan(r.type) THEN @[i] = NaN ELSE is_nodata(r, i)
            THEN v ELSE Compute(r.type, "plus", @[i], v)]]

-----------------------------------------------------------------------------
(* Comparisons: rasters of uint8_t with 255 for nodata *)

ByteRaster(r, nod2, elements) ==
    Raster("byte", IF r.nod # None \/ nod2 # None THEN ByteMax ELSE None, elements)

perform_binary_operation(r, s, pred) ==
    ByteRaster(r, s.nod,
        [i \in Cells(r) |-> binary_result(Widest(r.type, s.type), pred, r.nod, s.nod,
                                          r.data[i], s.data[i])])

perform_unary_operation(r, pred, v) ==
    ByteRaster(r, None,
        [i \in Cells(r) |-> binary_result(r.type, pred, r.nod, None, r.data[i], v)])

Not(r) == ByteRaster(r, None, [i \in Cells(r) |-> logical_not(r.type, r.nod, r.data[i])])

is_nodata_value(r, x) ==
    IF has_nan(r.type) THEN x = NaN ELSE r.nod # None /\ x = r.nod

\* equals (rastercompare.h)
equals(r, s) ==
    ByteRaster(r, s.nod,
        [i \in Cells(r) |->
            IF is_nodata_value(r, r.data[i]) \/ is_nodata_value(s, s.data[i]) THEN ByteMax
            ELSE Bool(Holds("equal_to", r.data[i], s.data[i]))])
=============================================================================
