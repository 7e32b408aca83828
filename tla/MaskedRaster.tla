---------------------------- MODULE MaskedRaster ----------------------------
(***************************************************************************)
(* MaskedRaster<T> (core/include/gdx/maskedraster.h), the storage that     *)
(* Raster and both bindings use: nodata is out of band, in a mask beside   *)
(* the elements.  The mask is allocated when it is first needed, mask =    *)
(* <<>> until then, and the number of the metadata plays a part only when  *)
(* data come in or go out.  The names are those of DenseRaster.tla.        *)
(***************************************************************************)
EXTENDS Elements

Cells(r) == DOMAIN r.data
size(r) == Len(r.data)
NoMask == <<>>
All(r, b) == [i \in Cells(r) |-> b]

Raster(type, nod, data, mask) ==
    [storage |-> "masked", type |-> type, nod |-> nod, data |-> data, mask |-> mask]

has_nodata(r) == r.mask # NoMask        \* of a mask without a cell in it, too
is_nodata(r, i) == has_nodata(r) /\ r.mask[i]

\* Mutant: of two masks the first is taken.
first_mask(mask1, mask2) == IF mask1 = NoMask THEN mask2 ELSE mask1

combine_mask(mask1, mask2) ==
    CASE mask2 = NoMask -> mask1
      [] mask1 = NoMask -> mask2
      [] OTHER -> [i \in DOMAIN mask1 |-> mask1[i] \/ mask2[i]]

init_nodata_values(r) ==
    IF r.nod = None THEN r
    ELSE LET missing(x) == x = r.nod \/ (has_nan(r.type) /\ x = NaN)
         IN  [r EXCEPT !.mask = [i \in Cells(r) |-> missing(r.data[i])],
                       !.data = [i \in Cells(r) |->
                                    IF has_nan(r.type) /\ @[i] = r.nod THEN NaN ELSE @[i]]]

FromData(type, nod, data) == init_nodata_values(Raster(type, nod, data, NoMask))

\* A fill with the number marks every cell, a fill with another value drops the
\* mask; but a mask that has no number stays as it is.
fill(r, v) ==
    [r EXCEPT !.data = All(r, v),
              !.mask = CASE r.nod = None -> @
                         [] r.nod # None /\ v = r.nod -> All(r, TRUE)
                         [] OTHER -> NoMask]

Filled(type, nod, n, v) == fill(Raster(type, nod, [i \in 1..n |-> v], NoMask), v)

\* Elements and mask are those of before if the size is, and not initialised
\* otherwise.
resize_and_fill(r, n, v) ==
    { fill([r EXCEPT !.data = [i \in 1..n |-> v], !.mask = mask], v) :
        mask \in IF r.mask = NoMask \/ n = size(r) THEN {r.mask} ELSE [1..n -> BOOLEAN] }

fill_values(r, v) == [r EXCEPT !.data = All(r, v)]
fill_with_nodata(r) == [r EXCEPT !.mask = All(r, TRUE)]

Allocated(r) == IF has_nodata(r) THEN r.mask ELSE All(r, FALSE)
mark_as_nodata(r, i) == [r EXCEPT !.mask = [Allocated(r) EXCEPT ![i] = TRUE]]
mark_as_data(r, i) == IF has_nodata(r) THEN [r EXCEPT !.mask[i] = FALSE] ELSE r

\* Raster::setValue: the element, then the mask
assign(r, i, v) == mark_as_data([r EXCEPT !.data[i] = v], i)

MaySetNodata(r, v) == has_nan(r.type) \/ v # NaN
set_nodata(r, v) == [r EXCEPT !.nod = v]

\* Cells without a value in the mask are marked, those that have it stay marked.
MarkedWhere(r, marks(_)) ==
    IF \E i \in Cells(r) : marks(i)
    THEN [r EXCEPT !.mask = [i \in Cells(r) |-> is_nodata(r, i) \/ marks(i)]]
    ELSE r

turn_value_into_nodata(r, v) == MarkedWhere(r, LAMBDA i : Holds("equal_to", r.data[i], v))

replace(r, old, new) ==
    [r EXCEPT !.data = [i \in Cells(r) |-> IF @[i] = old /\ old # NaN THEN new ELSE @[i]]]

\* A cell that is nodata gets the value under its mask: nodata it stays.
add_to_cell(r, i, v) ==
    [r EXCEPT !.data[i] = IF is_nodata(r, i) THEN v ELSE Compute(r.type, "plus", @, v)]

\* write_raster collapses the raster itself: it throws on a mask without number
MayCollapse(r) == ~has_nodata(r) \/ r.nod # None
collapse_data(r) ==
    [r EXCEPT !.data = [i \in Cells(r) |-> IF is_nodata(r, i) THEN r.nod ELSE @[i]]]
Stored(r) == collapse_data(r).data
Reread(r) == FromData(r.type, r.nod, Stored(r))

equal_to(r, s) ==
    \A i \in Cells(r) : /\ is_nodata(r, i) = is_nodata(s, i)
                        /\ is_nodata(r, i) \/ Holds("equal_to", r.data[i], s.data[i])

-----------------------------------------------------------------------------
(* Arithmetic goes over every element, also those under the mask *)

\* An element under the mask may be divided by 0: it stands for itself.
Element(type, op, x, y) ==
    IF op = "divides" /\ y = 0 THEN x ELSE Compute(type, op, x, y)

perform_raster_operation(r, s, op) ==
    IF op = "divides"
    THEN MarkedWhere(
            Raster("float", NaN,
                   [i \in Cells(r) |-> Element("float", op, r.data[i], s.data[i])],
                   combine_mask(r.mask, s.mask)),
            LAMBDA i : s.data[i] = 0 /\ ~is_nodata(s, i))
    ELSE LET type == Widest(r.type, s.type)
         IN  Raster(type, IF r.nod # None THEN r.nod ELSE s.nod,
                    [i \in Cells(r) |-> Element(type, op, r.data[i], s.data[i])],
                    combine_mask(r.mask, s.mask))

\* +=, *= and /= with a raster, which takes over its number; there is no -=
Highest(type, nod) ==
    IF type = "uint" /\ nod \notin {None, NaN} /\ nod >= Modulus THEN Modulus - 1 ELSE nod

InPlace(r, s, op) ==
    LET taken == IF r.nod # None THEN r.nod ELSE Highest(r.type, s.nod)
        nod == IF op = "divides" /\ taken = None
               THEN IF has_nan(r.type) THEN NaN ELSE Modulus - 1 ELSE taken
        skips(i) == \/ is_nodata(r, i) \/ is_nodata(s, i)
                    \/ op = "divides" /\ s.data[i] = 0
    IN  MarkedWhere(
            [r EXCEPT !.nod = nod,
                      !.data = [i \in Cells(r) |->
                                   IF skips(i) THEN @[i] ELSE Compute(r.type, op, @[i], s.data[i])]],
            skips)

\* +, -, *, / and +=, -=, *=, /= with a scalar of the type of the raster
perform_scalar_operation(r, op, v) ==
    [r EXCEPT !.data = [i \in Cells(r) |-> Element(r.type, op, @[i], v)]]

ScalarMinus(v, r) ==
    [r EXCEPT !.data = [i \in Cells(r) |-> Element(r.type, "minus", v, @[i])]]
MayDivideScalar(r) == r.nod # None \/ \A i \in Cells(r) : r.data[i] # 0
ScalarDivided(v, r) ==
    MarkedWhere([r EXCEPT !.type = "float",
                          !.data = [i \in Cells(r) |-> Element("float", "divides", v, @[i])]],
                LAMBDA i : r.data[i] = 0)

Minus(r) == [r EXCEPT !.data = [i \in Cells(r) |-> Negated(r.type, @[i])]]

-----------------------------------------------------------------------------
(* Comparisons: the bytes are computed under the mask too *)

ByteRaster(r, nod2, mask, elements) ==
    Raster("byte", IF r.nod # None \/ nod2 # None THEN ByteMax ELSE None, elements, mask)

perform_binary_operation(r, s, pred) ==
    ByteRaster(r, s.nod, combine_mask(r.mask, s.mask),
               [i \in Cells(r) |-> Bool(Holds(pred, r.data[i], s.data[i]))])

perform_unary_operation(r, pred, v) ==
    ByteRaster(r, None, r.mask, [i \in Cells(r) |-> Bool(Holds(pred, r.data[i], v))])

Not(r) == ByteRaster(r, None, r.mask, [i \in Cells(r) |-> Bool(r.data[i] = 0)])

equals(r, s) == perform_binary_operation(r, s, "equal_to")
=============================================================================
