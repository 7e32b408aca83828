--------------------------- MODULE CellAlgorithms ---------------------------
(***************************************************************************)
(* The algorithms whose results depend on the cells of one place only:     *)
(* masking.h, conditionals.h, nodata.h, algorithm.h, mathoperations.h,     *)
(* conversion.h, minimum.h, maximum.h, weightedsum.h, weightedproduct.h    *)
(* and reclass.h.  They are templates over the storages and look for       *)
(* nodata in three ways: is_nodata of the raster, the proxies of its       *)
(* iterators, which do not ask for a number in a raster of float, or not   *)
(* at all.  Where one may throw or writes to a mask that is not there, a   *)
(* condition stands beside it.                                             *)
(***************************************************************************)
EXTENDS RasterOperations, FiniteSetsExt

CONSTANTS FloatMax      \* std::numeric_limits<float>::max()

ASSUME FloatMaxAssumption == FloatMax \in Int

Largest(type) == IF type = "float" THEN FloatMax ELSE Modulus - 1

\* What an iterator over optional values, or one over values, takes for nodata.
Missing(r, i) == IF Masked(r) THEN M!is_nodata(r, i) ELSE D!is_nodata_value(r, r.data[i])
Optional(r) == [i \in DOMAIN r.data |-> IF Missing(r, i) THEN None ELSE r.data[i]]

\* A raster made of metadata only: zeros, or elements not initialised.
Made(r, type, nod) ==
    LET zeros == [i \in DOMAIN r.data |-> 0]
    IN  IF Masked(r) THEN M!Raster(type, nod, zeros, IF nod = None THEN M!NoMask ELSE M!All(r, FALSE))
        ELSE D!FromData(type, nod, zeros)

\* Optional values are assigned through the proxies: nodata needs a mask, or a
\* value in band.
MayPut(t, out) ==
    \/ \A i \in DOMAIN out : out[i] # None
    \/ IF Masked(t) THEN M!has_nodata(t) ELSE has_nan(t.type) \/ t.nod # None

Put(t, out) ==
    IF Masked(t)
    THEN [t EXCEPT !.data = [i \in DOMAIN out |-> IF out[i] = None THEN @[i] ELSE out[i]],
                   !.mask = IF M!has_nodata(t) THEN [i \in DOMAIN out |-> out[i] = None] ELSE @]
    ELSE [t EXCEPT !.data = [i \in DOMAIN out |-> IF out[i] = None THEN D!InBand(t) ELSE out[i]]]

\* mark_as_nodata for some cells
MayMark(r, cells) == cells = {} \/ Masked(r) \/ D!MayMark(r)
Marked(r, cells) ==
    CASE cells = {} -> r
      [] cells # {} /\ Masked(r) ->
            [r EXCEPT !.mask = [i \in DOMAIN r.data |-> i \in cells \/ M!is_nodata(r, i)]]
      [] OTHER -> [r EXCEPT !.data = [i \in DOMAIN @ |-> IF i \in cells THEN D!InBand(r) ELSE @[i]]]

\* mark_as_data for some cells
MarkedAsData(r, cells) ==
    IF Masked(r) /\ M!has_nodata(r)
    THEN [r EXCEPT !.mask = [i \in DOMAIN r.data |-> @[i] /\ i \notin cells]] ELSE r

-----------------------------------------------------------------------------
(* masking.h: s is the mask *)

apply_mask(r, s) == Put(r, [i \in DOMAIN r.data |-> IF Missing(s, i) THEN None ELSE Optional(r)[i]])

erase_outside_mask(r, s) ==
    LET erased == {i \in DOMAIN r.data : s.data[i] = 0 \/ IsNodata(s, i)}
        zero == IF r.nod = None THEN 0 ELSE nodata_for_type(r.type)
        t == [r EXCEPT !.data = [i \in DOMAIN @ |-> IF i \in erased THEN zero ELSE @[i]]]
    IN  IF r.nod = None THEN t ELSE Marked(t, erased)

\* The function of the user is asked for the number where the mask is nodata.
maskFunction(v) == v # 0
SkippedByMask(r, s) ==
    {i \in DOMAIN r.data : ~maskFunction(IF Missing(s, i) THEN s.nod ELSE s.data[i])}
MayMask(r, s) ==
    /\ \A i \in DOMAIN r.data : Missing(s, i) => s.nod # None
    /\ MayMark(r, SkippedByMask(r, s))
mask(r, s) == Marked(r, SkippedByMask(r, s))

Covered(s) == {i \in DOMAIN s.data : ~Missing(s, i)}
inside_mask(r, s) == Marked(r, DOMAIN r.data \ Covered(s))
outside_mask(r, s) == Marked(r, Covered(s))

Positive(s) == {i \in Covered(s) : Holds("greater", s.data[i], 0)}
include_mask(s, r) ==
    LET t == [r EXCEPT !.data = [i \in DOMAIN @ |-> IF i \in Positive(s) THEN 1 ELSE @[i]]]
    IN  IF Masked(r) /\ M!has_nodata(r)
        THEN [t EXCEPT !.mask = [i \in DOMAIN @ |-> @[i] /\ i \notin Positive(s)]] ELSE t
exclude_mask(s, r) == Marked(r, Positive(s))

-----------------------------------------------------------------------------
(* conditionals.h *)

\* Without nodata the result gets the largest value of its type for a number.
WithNumber(r) == IF r.nod = None THEN [r EXCEPT !.nod = Largest(r.type)] ELSE r

\* The condition is read as it is, under a mask, too.
if_then(condition, r) ==
    Marked(WithNumber(r), {i \in DOMAIN r.data : condition.data[i] = 0})

if_then_else(condition, r, s) ==
    LET type == Widest(r.type, s.type)
        nod == CASE r.nod # None -> r.nod
                 [] r.nod = None /\ s.nod # None -> s.nod
                 [] OTHER -> Largest(type)
        from(i) == IF condition.data[i] # 0 THEN r ELSE s
        missing == {i \in DOMAIN r.data : IsNodata(condition, i) \/ IsNodata(from(i), i)}
        made == Made(r, type, nod)
    IN  Marked([made EXCEPT !.data = [i \in DOMAIN @ |-> IF i \in missing THEN @[i] ELSE from(i).data[i]]],
               missing)

-----------------------------------------------------------------------------
(* nodata.h and conversion.h *)

\* is_nodata of a raster: the modules of the storages have an is_nodata of a cell
is_nodata_raster(r) == Put(Made(r, "byte", None), [i \in DOMAIN r.data |-> Bool(Missing(r, i))])
is_data(r) == Put(Made(r, "byte", None), [i \in DOMAIN r.data |-> Bool(~Missing(r, i))])

make_nodata(r) == Put(r, Constant(r, None))
replace_nodata(r, v) == Put(r, [i \in DOMAIN r.data |-> IF Missing(r, i) THEN v ELSE r.data[i]])

has_nodata(r) == IF Masked(r) THEN M!has_nodata(r) ELSE D!has_nodata(r)
turn_value_into_nodata(r, v) ==
    Put(r, [i \in DOMAIN r.data |-> IF r.data[i] = v THEN None ELSE Optional(r)[i]])

\* The elements are copied into a raster made of the metadata: without the mask.
replace_value(r, old, new) ==
    LET made == Made(r, r.type, r.nod)
    IN  [made EXCEPT !.data = [i \in DOMAIN @ |-> IF r.data[i] = old THEN new ELSE r.data[i]]]

-----------------------------------------------------------------------------
(* algorithm.h and mathoperations.h *)

\* perform_operation: out is computed from the optional values
Performed(r, type, out) == Put(Made(r, type, r.nod), out)

clip_low(r, low) ==
    Performed(r, r.type, [i \in DOMAIN r.data |->
        IF ~Missing(r, i) /\ Holds("less", r.data[i], low) THEN low ELSE Optional(r)[i]])
clip_high(r, high) ==
    Performed(r, r.type, [i \in DOMAIN r.data |->
        IF ~Missing(r, i) /\ Holds("greater", r.data[i], high) THEN high ELSE Optional(r)[i]])

clip(r, low, high) ==
    Performed(r, r.type, [i \in DOMAIN r.data |->
        CASE Missing(r, i) -> None
          [] ~Missing(r, i) /\ Holds("less", r.data[i], low) -> low
          [] ~Missing(r, i) /\ Holds("greater", r.data[i], high) -> high
          [] OTHER -> r.data[i]])

\* std::pow, which is 1 for some NaN.  The first powers are written as products.
Power(x, y) == CASE y = 0 \/ x = 1 -> 1
                 [] ~(y = 0 \/ x = 1) /\ NaN \in {x, y} -> NaN
                 [] OTHER -> CASE y = 1 -> x [] y = 2 -> x * x [] OTHER -> x ^ y

pow(r, s) ==
    Performed(r, "float", [i \in DOMAIN r.data |->
        IF Missing(r, i) \/ Missing(s, i) THEN None ELSE Power(r.data[i], s.data[i])])

-----------------------------------------------------------------------------
(* minimum.h, maximum.h, weightedsum.h and weightedproduct.h, of two rasters *)

\* std::min_element and std::max_element of two
Lesser(x, y) == IF Holds("less", y, x) THEN y ELSE x
Greater(x, y) == IF Holds("less", x, y) THEN y ELSE x

\* Mutant: nodata of the second raster is overlooked.
NodataInFirst(r, s) == {i \in DOMAIN r.data : IsNodata(r, i)}

NodataInEither(r, s) == {i \in DOMAIN r.data : IsNodata(r, i) \/ IsNodata(s, i)}

minimum(r, s) ==
    Marked([Made(r, r.type, r.nod) EXCEPT !.data = [i \in DOMAIN @ |-> Lesser(r.data[i], s.data[i])]],
           NodataInEither(r, s))
maximum(r, s) ==
    Marked([Made(r, r.type, r.nod) EXCEPT !.data = [i \in DOMAIN @ |-> Greater(r.data[i], s.data[i])]],
           NodataInEither(r, s))

\* Nodata is skipped, and a sum of zero is nodata.
weighted_sum(r, s, w1, w2) ==
    LET term(x, i, w) == IF IsNodata(x, i) THEN 0 ELSE Compute("float", "multiplies", x.data[i], w)
        sums == [i \in DOMAIN r.data |-> Compute("float", "plus", term(r, i, w1), term(s, i, w2))]
        t == [Filled(r.storage, "float", NaN, Len(r.data), 0) EXCEPT !.data = sums]
    IN  WithScalar(Marked(t, {i \in DOMAIN sums : sums[i] = 0}), "divides", w1 + w2)

\* Elements are read as they are; a NaN is marked as nodata.  The maximum of
\* no data throws.
Products(r, s, w1, w2) ==
    [i \in DOMAIN r.data |-> Compute("float", "multiplies", Power(r.data[i], w1), Power(s.data[i], w2))]
MayMultiply(r, s, w1, w2) == \E i \in DOMAIN r.data : Products(r, s, w1, w2)[i] # NaN

weighted_product(r, s, w1, w2) ==
    LET products == Products(r, s, w1, w2)
        data == {products[i] : i \in DOMAIN products} \ {NaN}
        t == Marked([Filled(r.storage, "float", NaN, Len(r.data), 1) EXCEPT !.data = products],
                    {i \in DOMAIN products : products[i] = NaN})
    IN  IF Max(data) > 0 THEN WithScalar(t, "divides", Max(data)) ELSE t

-----------------------------------------------------------------------------
(* minimum.h, maximum.h, sum.h, logical.h and statistics.h, of one raster; and *)
(* normalise.h, which maps the range of its elements to another.               *)

\* What value_begin iterates over; without any the minimum throws.
ValueCells(r) == {i \in DOMAIN r.data : ~Missing(r, i)}
DataValues(r) == {r.data[i] : i \in ValueCells(r)}
MayMinMax(r) == DataValues(r) # {} /\ NaN \notin DataValues(r)
minmax(r) == <<Min(DataValues(r)), Max(DataValues(r))>>

sum(r) == MapThenSumSet(LAMBDA i : r.data[i], {i \in DOMAIN r.data : ~IsNodata(r, i)})
all_of(r) == \A v \in DataValues(r) : v # 0
any_of(r) == \E v \in DataValues(r) : v # 0

\* The counts of statistics; its histogram has maxValue + 1 places.
statistics(r, maxValue) ==
    LET present == {i \in DOMAIN r.data : ~IsNodata(r, i)}
        numbers == {i \in present : r.data[i] # NaN}
        small == {i \in numbers : r.data[i] \in 0..maxValue}
    IN  [noDataValues |-> Cardinality(DOMAIN r.data \ present),
         nanValues |-> Cardinality(present \ numbers),
         zeroValues |-> Cardinality({i \in numbers : r.data[i] = 0}),
         nonZeroValues |-> Cardinality({i \in numbers : r.data[i] # 0}),
         negativeValues |-> Cardinality({i \in numbers : r.data[i] < 0}),
         countHigh |-> Cardinality({i \in numbers : r.data[i] > maxValue}),
         sum |-> MapThenSumSet(LAMBDA i : r.data[i], numbers),
         histogram |-> [v \in 0..maxValue |-> Cardinality({i \in small : r.data[i] = v})]]

unique_raster_values(r) == {r.data[i] : i \in {j \in DOMAIN r.data : ~IsNodata(r, j)}}

nodata_cast(type, nod) ==
    CASE nod = None -> None
      [] nod # None /\ fits_in_type(type, nod) -> nod
      [] OTHER -> ByteMax

\* std::round of a position in the range; a range of one value divides 0 by 0.
remap_to_byte(v, start, end, mapStart, mapEnd) ==
    CASE v < start \/ v > end -> 0
      [] v \in start..end /\ mapStart = mapEnd -> mapStart
      [] OTHER -> mapStart + (2 * (mapEnd - mapStart) * (v - start) + (end - start)) \div (2 * (end - start))

MayNormalise(r) == NaN \notin DataValues(r) /\ Cardinality(DataValues(r)) # 1
normalise_min_max(r, mapStart, mapEnd) ==
    LET result == Made(r, "byte", nodata_cast("byte", r.nod))
        mapped(v) == remap_to_byte(v, minmax(r)[1], minmax(r)[2], mapStart, mapEnd)
    IN  IF DataValues(r) = {} THEN Put(result, Constant(r, None))
        ELSE Put(result, [i \in DOMAIN r.data |-> IF Missing(r, i) THEN None ELSE mapped(r.data[i])])

-----------------------------------------------------------------------------
(* reclass.h *)

NoKey == -9999      \* in a table: a key, or a result, that is nodata

\* The first row with these keys: a row is a sequence of keys and a result.
reclass_value(values, mapping) ==
    LET matches(row) == \A k \in DOMAIN values : row[k] = IF values[k] = None THEN NoKey ELSE values[k]
        rows == {j \in DOMAIN mapping : matches(mapping[j])}
        result == mapping[Min(rows)][Len(values) + 1]
    IN  IF rows = {} \/ result = NoKey THEN None ELSE result

\* A raster of the result type, from one to three rasters.
reclass_to(mapping, rasters, type) ==
    LET nodata == IF has_nan(type) THEN NaN ELSE NoKey
        r == rasters[1]
        out == [i \in DOMAIN r.data |-> reclass_value([k \in DOMAIN rasters |-> Contents(rasters[k])[i]], mapping)]
        made == [Made(r, type, r.nod) EXCEPT !.nod = nodata]
    IN  Marked([made EXCEPT !.data = [i \in DOMAIN @ |-> IF out[i] = None THEN nodata ELSE out[i]]],
               {i \in DOMAIN out : out[i] = None})

\* throw_on_mapping_issue, for the elements of a table of ranges
MayReclass(mapping, type) ==
    has_nan(type) \/ \A j \in DOMAIN mapping, k \in 1..3 :
                        mapping[j][k] = NaN \/ fits_in_type(type, mapping[j][k])

\* Each row is low < key <= high and a result; the first that fits is taken.
nreclass(mapping, r) ==
    LET nod == CASE r.nod # None -> r.nod
                 [] r.nod = None /\ has_nan(r.type) -> NaN
                 [] OTHER -> Modulus - 1
        rows(i) == {j \in DOMAIN mapping : /\ Holds("less", mapping[j][1], r.data[i])
                                           /\ Holds("less_equal", r.data[i], mapping[j][2])}
        found == {i \in DOMAIN r.data : /\ ~IsNodata(r, i) /\ rows(i) # {}
                                        /\ mapping[Min(rows(i))][3] # NaN}
        t == Filled(r.storage, r.type, nod, Len(r.data), nod)
        u == [t EXCEPT !.data = [i \in DOMAIN @ |-> IF i \in found THEN mapping[Min(rows(i))][3] ELSE @[i]]]
    IN  IF Masked(r) THEN [u EXCEPT !.mask = [i \in DOMAIN @ |-> i \notin found]] ELSE u

-----------------------------------------------------------------------------
(* Properties *)

\* t holds what is wanted of the contents of r and s.
Agrees(t, r, s, wanted(_, _)) ==
    LET numbers == NumbersIn(r, s, t)
    IN  \A i \in DOMAIN r.data :
            \E x \in Promise!AsRead(Contents(r)[i], numbers),
               y \in Promise!AsRead(Contents(s)[i], numbers) :
                  Optional(t)[i] \in Promise!AsRead(wanted(x, y), numbers)

\* Nodata of the mask covers nothing, whatever its raw element is, and only
\* what is masked out of r becomes nodata (0 in a raster without a number).
MasksAgree(r, s) ==
    LET optional == [i \in DOMAIN r.data |-> IF Missing(s, i) THEN None ELSE Optional(r)[i]]
        erased(x) == IF r.nod # None \/ x = None THEN None ELSE 0
        counts(y) == y \notin {None, NaN} /\ y > 0
    IN  /\ MayPut(r, optional) =>
               Agrees(apply_mask(r, s), r, s, LAMBDA x, y : IF y = None THEN None ELSE x)
        /\ Agrees(erase_outside_mask(r, s), r, s,
                  LAMBDA x, y : IF y \in {0, None} THEN erased(x) ELSE x)
        /\ MayMask(r, s) =>
               Agrees(mask(r, s), r, s, LAMBDA x, y :
                  IF maskFunction(IF y = None THEN s.nod ELSE y) THEN x ELSE None)
        /\ MayMark(r, DOMAIN r.data) =>
               /\ Agrees(inside_mask(r, s), r, s, LAMBDA x, y : IF y = None THEN None ELSE x)
               /\ Agrees(outside_mask(r, s), r, s, LAMBDA x, y : IF y = None THEN x ELSE None)
               /\ Agrees(exclude_mask(s, r), r, s, LAMBDA x, y : IF counts(y) THEN None ELSE x)
        /\ Agrees(include_mask(s, r), r, s, LAMBDA x, y : IF counts(y) THEN 1 ELSE x)

\* if_then does not ask whether its condition is nodata, if_then_else does.
Conditions == {FromData(raster.storage, "uint", 2, [i \in DOMAIN raster.data |-> (i + k) % 3]) : k \in 0..2}
ConditionsAgree(r, s) ==
    /\ (\A i \in DOMAIN s.data : ~IsNodata(s, i)) =>
           Agrees(if_then(s, r), r, s, LAMBDA x, y : IF y = 0 THEN None ELSE x)
    /\ \A c \in Conditions :
           LET t == if_then_else(c, r, s)
               from(z, x, y) == CASE z = None -> None [] z = 0 -> y [] OTHER -> x
           IN  \A i \in DOMAIN r.data :
                  \E x \in Promise!AsRead(Contents(r)[i], NumbersIn(r, s, t)),
                     y \in Promise!AsRead(Contents(s)[i], NumbersIn(r, s, t)) :
                        Optional(t)[i] \in
                            Promise!AsRead(from(Contents(c)[i], x, y), NumbersIn(r, s, t))

\* replace_value is left out for rasters with a mask: they lose it; and for the
\* number of a raster of integers, since it replaces nodata then.
ReplacementsAgree(r) ==
    /\ Agrees(is_nodata_raster(r), r, r, LAMBDA x, y : Bool(x = None))
    /\ Agrees(is_data(r), r, r, LAMBDA x, y : Bool(x # None))
    /\ MayPut(r, Constant(r, None)) => Agrees(make_nodata(r), r, r, LAMBDA x, y : None)
    /\ \A v \in ElementsOf(r.type) \ {NaN} :
          /\ Agrees(replace_nodata(r, v), r, r, LAMBDA x, y : IF x = None THEN v ELSE x)
          /\ has_nodata(r) =>
                Agrees(turn_value_into_nodata(r, v), r, r, LAMBDA x, y : IF x = v THEN None ELSE x)
          /\ (IF Masked(r) THEN r.mask = <<>> ELSE v # r.nod) =>
                Agrees(replace_value(r, v, 1), r, r, LAMBDA x, y : IF x = v THEN 1 ELSE x)
          /\ MayPut(Made(r, r.type, r.nod), Optional(r)) =>
                /\ Agrees(clip_low(r, v), r, r,
                          LAMBDA x, y : IF x \in {None, NaN} THEN x ELSE Max({x, v}))
                /\ Agrees(clip_high(r, v), r, r,
                          LAMBDA x, y : IF x \in {None, NaN} THEN x ELSE Min({x, v}))
                /\ v > 0 => Agrees(clip(r, 1, v), r, r, LAMBDA x, y :
                          IF x \in {None, NaN} THEN x ELSE Min({Max({x, 1}), v}))

\* Nodata of one raster is nodata of the result, but in weighted_sum.
CombinationsAgree(r, s) ==
    LET powered == [i \in DOMAIN r.data |-> IF Missing(r, i) \/ Missing(s, i) THEN None
                                             ELSE Power(r.data[i], s.data[i])]
        best == Max({Products(r, s, 1, 2)[i] : i \in DOMAIN r.data} \ {NaN})
        either(x, y, z) == IF None \in {x, y} THEN None ELSE z
        summed(x, y) == Compute("float", "plus", IF x = None THEN 0 ELSE x,
                                                 Compute("float", "multiplies", IF y = None THEN 0 ELSE y, 2))
    IN  /\ r.type = s.type /\ MayPut(Made(r, "float", r.nod), powered) =>
               Agrees(pow(r, s), r, s, LAMBDA x, y : either(x, y, Power(x, y)))
        /\ r.type = s.type /\ (NodataInEither(r, s) = {} \/ r.nod # None) =>
               /\ Agrees(minimum(r, s), r, s, LAMBDA x, y :
                         either(x, y, IF NaN \in {x, y} THEN x ELSE Min({x, y})))
               /\ Agrees(maximum(r, s), r, s, LAMBDA x, y :
                         either(x, y, IF NaN \in {x, y} THEN x ELSE Max({x, y})))
        /\ Agrees(weighted_sum(r, s, 1, 2), r, s, LAMBDA x, y :
                  IF summed(x, y) = 0 THEN None ELSE Compute("float", "divides", summed(x, y), 3))
        /\ r.type = "float" /\ s.type = "float" /\ ~Masked(r) /\ MayMultiply(r, s, 1, 2) =>
               Agrees(weighted_product(r, s, 1, 2), r, s, LAMBDA x, y :
                  either(x, y, IF NaN \in {x, y} THEN NaN
                               ELSE IF best > 0 THEN Compute("float", "divides", x * (y * y), best)
                               ELSE x * (y * y)))

\* statistics puts every cell into one class, and every number into one place
\* of the histogram or beside it; normalise_min_max of several values reaches
\* both ends of the range, never turns their order round, keeps values apart
\* that are in a range of no more than 254, and moves no nodata.
SummariesAgree(r) ==
    LET stats == statistics(r, 2)
        places == {i \in DOMAIN r.data : Contents(r)[i] \in 0..2}
        t == normalise_min_max(r, 0, 254)
        z == Optional(t)
    IN  /\ stats.noDataValues + stats.nanValues + stats.zeroValues + stats.nonZeroValues = Len(r.data)
        /\ stats.negativeValues + stats.countHigh + Cardinality(places) = stats.zeroValues + stats.nonZeroValues
        /\ \A v \in 0..2 : stats.histogram[v] = Quantify(places, LAMBDA i : Contents(r)[i] = v)
        /\ stats.nanValues = 0 => stats.sum = sum(r)
        /\ any_of(r) <=> stats.nonZeroValues > 0 \/ NaN \in DataValues(r)
        /\ all_of(r) <=> stats.zeroValues = 0
        /\ MayNormalise(r) /\ MayPut(Made(r, "byte", r.nod), Optional(r)) =>
              \A i, j \in DOMAIN r.data :
                 /\ Missing(r, i) => Missing(t, i)
                 /\ {i, j} \subseteq ValueCells(r) /\ ~Missing(t, i) /\ ~Missing(t, j) =>
                       /\ r.data[i] = minmax(r)[1] => z[i] = 0
                       /\ r.data[i] = minmax(r)[2] => z[i] = 254
                       /\ r.data[i] < r.data[j] =>
                             z[i] <= z[j] /\ (minmax(r)[2] - minmax(r)[1] <= 254 => z[i] # z[j])
                 /\ Missing(t, i) => Missing(r, i) \/ t.data[i] = t.nod

\* Nodata as a key, nodata as a result, the first of two rows that fit, a key
\* that is in no row.  An element equal to the key of nodata is found as nodata.
OfOne == <<<<NoKey, 7>>, <<1, NoKey>>, <<2, 5>>, <<2, 6>>>>
OfTwo == <<<<NoKey, NoKey, 7>>, <<1, NoKey, 5>>, <<0, 2, NoKey>>, <<2, 1, 6>>>>
OfThree == <<<<1, 0, 2, 7>>, <<NoKey, 1, NoKey, 5>>>>
Ranges == <<<<0, 1, NaN>>, <<1, 2, 0>>, <<1, 2, 1>>>>
TablesAgree(r, s) ==
    LET absent(x) == x \in {None, NoKey}
    IN  /\ \A type \in {"int", "float"} :
              /\ Agrees(reclass_to(OfOne, <<r>>, type), r, r,
                        LAMBDA x, y : CASE absent(x) -> 7 [] x = 2 -> 5 [] OTHER -> None)
              /\ Agrees(reclass_to(OfTwo, <<r, s>>, type), r, s,
                        LAMBDA x, y : CASE absent(x) /\ absent(y) -> 7
                                        [] x = 1 /\ absent(y) -> 5
                                        [] x = 2 /\ y = 1 -> 6
                                        [] OTHER -> None)
              /\ Agrees(reclass_to(OfThree, <<r, s, r>>, type), r, s,
                        LAMBDA x, y : IF absent(x) /\ y = 1 THEN 5 ELSE None)
        /\ MayReclass(Ranges, r.type) =>
              Agrees(nreclass(Ranges, r), r, r, LAMBDA x, y : IF x = 2 THEN 0 ELSE None)

\* An algorithm on dense rasters, on masked ones and on rasters of any history
\* tells the same of the same contents, in the three ways it looks for nodata.
AlgorithmsAgree ==
    /\ ReplacementsAgree(raster)
    /\ SummariesAgree(raster)
    /\ \A s \in Others :
          /\ MasksAgree(raster, s)
          /\ ConditionsAgree(raster, s)
          /\ CombinationsAgree(raster, s)
          /\ TablesAgree(raster, s)
=============================================================================
