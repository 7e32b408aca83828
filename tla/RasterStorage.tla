---------------------------- MODULE RasterStorage ----------------------------
(***************************************************************************)
(* A raster and the calls that change it, whatever its storage: DenseRaster *)
(* or MaskedRaster.  The storages answer to the same names and ought to     *)
(* keep the same promises (OptionalRaster.tla); the algorithms are          *)
(* templates over both.                                                     *)
(***************************************************************************)
EXTENDS Elements, TLC

CONSTANTS
    MaxCells,       \* the cells of the largest raster
    FloatElements,  \* the elements of the rasters of float
    Numbers         \* the numbers of the metadata

VARIABLES
    raster,
    call            \* the last call, for the promise it should keep

storageVars == <<raster, call>>

\* The elements of the other rasters of a call are 0 to 2.
ASSUME StorageAssumption == /\ MaxCells \in Nat \ {0}
                            /\ Modulus > 2
                            /\ FloatElements \subseteq Int \cup {NaN}
                            /\ Numbers \subseteq Int \cup {NaN, None}

D == INSTANCE DenseRaster
M == INSTANCE MaskedRaster

Masked(r) == r.storage = "masked"
IsNodata(r, i) == IF Masked(r) THEN M!is_nodata(r, i) ELSE D!is_nodata(r, i)
Contents(r) == [i \in DOMAIN r.data |-> IF IsNodata(r, i) THEN None ELSE r.data[i]]

Promise == INSTANCE OptionalRaster WITH cells <- Contents(raster)

-----------------------------------------------------------------------------
(* Rasters in use *)

ElementsOf(type) == IF type = "uint" THEN 0..(Modulus - 1) ELSE FloatElements
NumbersOf(type) ==
    IF type = "uint" THEN {nod \in Numbers : nod = None \/ fits_in_type(type, nod)} ELSE Numbers

FromData(storage, type, nod, data) ==
    IF storage = "masked" THEN M!FromData(type, nod, data) ELSE D!FromData(type, nod, data)

Bounded(r) == \A i \in DOMAIN r.data : r.data[i] \in ElementsOf(r.type)

\* In band are the number of a dense raster and the NaN of one of float.
InBandNumbers(r) ==
    IF Masked(r) THEN {}
    ELSE (IF has_nan(r.type) THEN {r.nod, NaN} ELSE {r.nod}) \ {None}

\* The operation that the code carries out where it is not the one of the name:
\* these are the deviations of the storages from their promises.
DoneAs(r, c) ==
    CASE c.op = "add_to_cell" /\ Masked(r) /\ IsNodata(r, c.i) -> "keep"
      [] c.op = "fill" /\ Masked(r) /\ r.nod = None /\ M!has_nodata(r) -> "fill_values"
      [] c.op = "fill_values" /\ ~Masked(r) /\ has_nan(r.type) -> "fill_others"
      [] c.op = "fill_with_nodata" /\ ~Masked(r) /\ r.nod = None -> "keep"
      [] c.op = "replace" /\ ~Masked(r) /\ ~has_nan(r.type) /\ c.v = r.nod -> "replace_nodata"
      [] OTHER -> c.op

\* A call c makes raster r of the raster.
Makes(c, r) ==
    LET others == IF "s" \in DOMAIN c THEN {c.s} ELSE {}
        done == DoneAs(raster, c)
    IN  /\ Bounded(r)
        /\ raster' = r
        /\ call' = [op |-> done, type |-> r.type,
                    i |-> IF "i" \in DOMAIN c THEN c.i ELSE 0,
                    v |-> IF done = "replace_nodata" /\ c.op = "replace" THEN c.w
                          ELSE IF "v" \in DOMAIN c THEN c.v ELSE 0,
                    w |-> IF done = "fill_others" THEN raster.nod
                          ELSE IF "w" \in DOMAIN c THEN c.w ELSE 0,
                    other |-> CASE "s" \in DOMAIN c -> Contents(c.s)
                                [] "y" \in DOMAIN c -> [j \in DOMAIN r.data |-> c.y]
                                [] OTHER -> [j \in DOMAIN r.data |-> None],
                    numbers |-> (UNION {InBandNumbers(s) : s \in {raster, r} \cup others})
                                \cup IF c.op \in {"fill", "reread"} THEN {r.nod, NaN} \ {None}
                                     ELSE {}]

\* The other rasters of the calls: of every number, with as many cells.
Others ==
    UNION { { FromData(raster.storage, type, nod, [i \in DOMAIN raster.data |-> (i + k) % 3]) :
                nod \in NumbersOf(type), k \in 0..2 } : type \in {"uint", "float"} }

\* Those whose elements and number can be cast to the type of the raster.
CastOthers == { s \in Others : has_nan(raster.type) \/ s.nod # NaN }

\* A NaN that becomes the number of integers is undefined: any of them.
CastNumbers(r, type) ==
    IF has_nan(type) \/ r.nod = None \/ fits_in_type(type, r.nod) THEN {r.nod}
    ELSE IF r.nod = NaN THEN 0..(Modulus - 1) ELSE {Modulus - 1}

\* raster_cast copies the cells through iterators over optional values.
raster_cast(r, type, nod) ==
    LET elements == [i \in DOMAIN r.data |->
                        IF ~IsNodata(r, i) THEN r.data[i]
                        ELSE IF Masked(r) THEN 0 ELSE IF has_nan(type) THEN NaN ELSE nod]
        mask == [i \in DOMAIN r.data |-> IsNodata(r, i)]
    IN  IF Masked(r) THEN M!Raster(type, nod, elements, IF nod = None THEN <<>> ELSE mask)
        ELSE D!Raster(type, nod, elements)

Values == ElementsOf(raster.type)
Scalars == Values \ {NaN}
Arithmetics == {"plus", "minus", "multiplies", "divides"}

-----------------------------------------------------------------------------
(* The calls *)

Filled(storage, type, nod, n, v) ==
    IF storage = "masked" THEN M!Filled(type, nod, n, v) ELSE D!Filled(type, nod, n, v)

Init == /\ \E storage \in {"dense", "masked"}, type \in {"uint", "float"}, n \in 1..MaxCells :
              \E nod \in NumbersOf(type) :
                 \/ \E data \in [1..n -> ElementsOf(type)] :
                       raster = FromData(storage, type, nod, data)
                 \/ \E v \in ElementsOf(type) : raster = Filled(storage, type, nod, n, v)
        /\ call = [op |-> "made"]

Fill == \E v \in Values :
    Makes([op |-> "fill", v |-> v], IF Masked(raster) THEN M!fill(raster, v) ELSE D!fill(raster, v))

ResizeAndFill == \E v \in Values, n \in 1..MaxCells :
    \E r \in IF Masked(raster) THEN M!resize_and_fill(raster, n, v)
             ELSE {D!resize_and_fill(raster, n, v)} :
        Makes([op |-> "fill", v |-> v], r)

FillValues == \E v \in Values :
    Makes([op |-> "fill_values", v |-> v],
          IF Masked(raster) THEN M!fill_values(raster, v) ELSE D!fill_values(raster, v))

FillWithNodata ==
    Makes([op |-> "fill_with_nodata"],
          IF Masked(raster) THEN M!fill_with_nodata(raster) ELSE D!fill_with_nodata(raster))

MarkAsNodata == \E i \in DOMAIN raster.data :
    /\ Masked(raster) \/ D!MayMark(raster)
    /\ Makes([op |-> "mark_as_nodata", i |-> i],
             IF Masked(raster) THEN M!mark_as_nodata(raster, i) ELSE D!mark_as_nodata(raster, i))

SetValue == \E i \in DOMAIN raster.data, v \in Values :
    Makes([op |-> "assign", i |-> i, v |-> v],
          IF Masked(raster) THEN M!assign(raster, i, v) ELSE D!assign(raster, i, v))

AddToCell == \E i \in DOMAIN raster.data, v \in Values :
    Makes([op |-> "add_to_cell", i |-> i, v |-> v],
          IF Masked(raster) THEN M!add_to_cell(raster, i, v) ELSE D!add_to_cell(raster, i, v))

\* A dense raster of integers reads its cells by the new number from now on.
SetNodata == \E v \in NumbersOf(raster.type) \ {None} :
    LET old == raster.nod
        reread == ~Masked(raster) /\ ~has_nan(raster.type) /\ old # None
    IN  Makes(IF reread THEN [op |-> "replace_nodata", v |-> old] ELSE [op |-> "keep"],
              IF Masked(raster) THEN M!set_nodata(raster, v) ELSE D!set_nodata(raster, v))

ReplaceNodata == \E v \in Values :
    /\ ~Masked(raster)
    /\ Makes([op |-> "replace_nodata", v |-> v], D!replace_nodata(raster, v))

TurnValueIntoNodata == \E v \in Scalars :
    /\ Masked(raster) \/ D!MayMark(raster)
    /\ Makes([op |-> "turn_value_into_nodata", v |-> v],
             IF Masked(raster) THEN M!turn_value_into_nodata(raster, v)
             ELSE D!turn_value_into_nodata(raster, v))

Replace == \E v \in Scalars, w \in Values :
    Makes([op |-> "replace", v |-> v, w |-> w],
          IF Masked(raster) THEN M!replace(raster, v, w) ELSE D!replace(raster, v, w))

AddOrAssign == \E s \in CastOthers :
    /\ ~Masked(raster)
    /\ Makes([op |-> "add_or_assign", s |-> s], D!add_or_assign(raster, s))

AddOrAssignScalar == \E v \in Scalars :
    /\ ~Masked(raster)
    /\ Makes([op |-> "add_or_assign", y |-> v], D!add_or_assign_scalar(raster, v))

\* A masked raster has no -= with a raster.
RasterInPlace == \E s \in CastOthers, op \in Arithmetics :
    /\ Masked(raster) => op # "minus"
    /\ Makes([op |-> op, s |-> s],
             IF Masked(raster) THEN M!InPlace(raster, s, op) ELSE D!InPlace(raster, s, op))

ScalarInPlace == \E v \in Scalars, op \in Arithmetics :
    /\ op = "divides" => v # 0
    /\ Makes([op |-> op, y |-> v],
             IF Masked(raster) THEN M!perform_scalar_operation(raster, op, v)
             ELSE D!perform_scalar_operation(raster, op, v))

\* Written and read again
Reread ==
    /\ Masked(raster) => M!MayCollapse(raster)
    /\ Makes([op |-> "reread"], IF Masked(raster) THEN M!Reread(raster) ELSE D!Reread(raster))

\* A masked raster without a number has no mask in the copy to write nodata to;
\* a NaN that is data cannot become an integer.
Cast == \E type \in {"uint", "float"} \ {raster.type} :
    /\ Masked(raster) /\ raster.nod = None => \A i \in DOMAIN raster.data : ~IsNodata(raster, i)
    /\ ~has_nan(type) => \A i \in DOMAIN raster.data : Contents(raster)[i] # NaN
    /\ \E nod \in CastNumbers(raster, type) :
          Makes([op |-> "keep"], raster_cast(raster, type, nod))

Next ==
    \/ Fill \/ ResizeAndFill \/ FillValues \/ FillWithNodata
    \/ MarkAsNodata \/ SetValue \/ AddToCell
    \/ SetNodata \/ ReplaceNodata \/ TurnValueIntoNodata \/ Replace
    \/ AddOrAssign \/ AddOrAssignScalar \/ RasterInPlace \/ ScalarInPlace
    \/ Reread \/ Cast

Spec == Init /\ [][Next]_storageVars

-----------------------------------------------------------------------------
(* Properties *)

\* Every call does to every cell what it promises, and to no other cell
\* anything: no nodata comes or goes but by the in-band numbers of a dense
\* raster and by the operations that DoneAs names.  It refines OptionalRaster.
KeepsPromise == Promise!Spec
=============================================================================
