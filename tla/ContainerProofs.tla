-------------------------- MODULE ContainerProofs --------------------------
(***************************************************************************)
(* The containers that the algorithms are written with, for every size.    *)
(*                                                                         *)
(* Rasters: dense and masked rasters keep the promise of OptionalRaster,   *)
(* whatever their size, their elements and their numbers: every call does  *)
(* to every cell what its name says, but for the in-band numbers and what  *)
(* DoneAs names.  Operators and comparisons treat nodata alike on every    *)
(* raster that the calls can make.                                         *)
(*                                                                         *)
(* The FiLo: its indices stay inside its vector, and the ring buffer       *)
(* implements the bounded first-in first-out queue the searches rely on.   *)
(*                                                                         *)
(* The algorithms on one cell at a time tell the same of the same          *)
(* contents.  The argument: a raster of the state has as many elements as  *)
(* those it is combined with; a result is made of metadata, of elements    *)
(* and of marks, and what each of the three steps leaves a cell with is    *)
(* said once, of both storages.                                            *)
(***************************************************************************)
EXTENDS CellAlgorithms, FiLo, GridProofs, SequenceTheorems

Types == {"uint", "float"}
Number == Int \cup {NaN}

DenseType == [storage : {"dense"}, type : Types, nod : Number \cup {None}, data : Seq(Number)]
MaskedType == [storage : {"masked"}, type : Types, nod : Number \cup {None}, data : Seq(Number),
               mask : Seq(BOOLEAN)]

\* What every raster is: the mask, if there is one, is as long as the data, and
\* only a float is a NaN.
RasterOK(r) ==
    /\ r \in DenseType \cup MaskedType
    /\ Len(r.data) > 0
    /\ r.type = "uint" => r.data \in Seq(Int)
    /\ Masked(r) => r.mask = <<>> \/ Len(r.mask) = Len(r.data)

\* The storages use the same functions of elements.
LEMMA SameElements ==
    /\ \A type : D!has_nan(type) = has_nan(type) /\ M!has_nan(type) = has_nan(type)
    /\ \A type, op, x, y : /\ D!Compute(type, op, x, y) = Compute(type, op, x, y)
                           /\ M!Compute(type, op, x, y) = Compute(type, op, x, y)
                           /\ Promise!Compute(type, op, x, y) = Compute(type, op, x, y)
BY DEF D!has_nan, M!has_nan, has_nan, Promise!has_nan, D!Compute, M!Compute, Promise!Compute, Compute,
       D!Quotient, M!Quotient, Promise!Quotient, Quotient, D!Fraction, M!Fraction, Promise!Fraction, Fraction

\* What a call leaves behind for the promise.
LEMMA MakesCall ==
    ASSUME NEW c, NEW r, Makes(c, r)
    PROVE  /\ raster' = r /\ Bounded(r)
           /\ call'.op = DoneAs(raster, c) /\ call'.type = r.type
           /\ InBandNumbers(raster) \cup InBandNumbers(r) \subseteq call'.numbers
           /\ c.op \in {"fill", "reread"} => {r.nod, NaN} \ {None} \subseteq call'.numbers
           /\ Contents(raster)' = Contents(r)
<1>1. raster' = r /\ Bounded(r)
  BY DEF Makes
<1>2. /\ call'.op = DoneAs(raster, c) /\ call'.type = r.type
  BY DEF Makes
<1> DEFINE others == IF "s" \in DOMAIN c THEN {c.s} ELSE {}
           inBand == UNION {InBandNumbers(s) : s \in {raster, r} \cup others}
           own == {r.nod, NaN} \ {None}
<1>3. call'.numbers = inBand \cup IF c.op \in {"fill", "reread"} THEN own ELSE {}
  BY DEF Makes
<1>4. ASSUME NEW x \in {raster, r} PROVE InBandNumbers(x) \subseteq inBand
  OBVIOUS
<1>5. /\ InBandNumbers(raster) \cup InBandNumbers(r) \subseteq call'.numbers
      /\ c.op \in {"fill", "reread"} => own \subseteq call'.numbers
  <2> HIDE DEF inBand, own
  <2> QED BY <1>3, <1>4
<1>6. Contents(raster)' = Contents(r)
  BY <1>1
<1> QED BY <1>1, <1>2, <1>5, <1>6

\* The next state is that of a raster, and the call has kept its promise.
Step == RasterOK(raster') /\ Promise!Next

LEMMA ElementsTyped ==
    ASSUME NEW type \in Types
    PROVE  ElementsOf(type) \subseteq Number /\ (type = "uint" => ElementsOf(type) \subseteq Int)
<1>1. FloatElements \subseteq Number /\ 0 .. Modulus - 1 \subseteq Int
  BY StorageAssumption, ElementsAssumption DEF Number
<1> QED BY <1>1 DEF ElementsOf, Number

\* A raster is what its elements and its mask make it.
LEMMA BoundedDenseOK ==
    ASSUME NEW r, NEW n \in Nat \ {0}, NEW type \in Types, NEW nod \in Number \cup {None},
           NEW data, data \in [1 .. n -> ElementsOf(type)],
           r = [storage |-> "dense", type |-> type, nod |-> nod, data |-> data]
    PROVE  RasterOK(r) /\ r \in DenseType /\ Len(r.data) = n /\ DOMAIN r.data = 1 .. n
<1>1. /\ ElementsOf(type) \subseteq Number /\ (type = "uint" => ElementsOf(type) \subseteq Int)
  BY ElementsTyped
<1>2. data \in Seq(Number) /\ Len(data) = n /\ (type = "uint" => data \in Seq(Int))
  BY <1>1
<1>3. r \in DenseType
  BY <1>2 DEF DenseType
<1> QED BY <1>2, <1>3 DEF RasterOK, Masked

LEMMA BoundedMaskedOK ==
    ASSUME NEW r, NEW n \in Nat \ {0}, NEW type \in Types, NEW nod \in Number \cup {None},
           NEW data, data \in [1 .. n -> ElementsOf(type)],
           NEW bits \in {<<>>} \cup [1 .. n -> BOOLEAN],
           r = [storage |-> "masked", type |-> type, nod |-> nod, data |-> data, mask |-> bits]
    PROVE  RasterOK(r) /\ r \in MaskedType /\ Len(r.data) = n /\ DOMAIN r.data = 1 .. n
<1>1. /\ ElementsOf(type) \subseteq Number /\ (type = "uint" => ElementsOf(type) \subseteq Int)
  BY ElementsTyped
<1>2. data \in Seq(Number) /\ Len(data) = n /\ (type = "uint" => data \in Seq(Int))
  BY <1>1
<1>3. bits \in Seq(BOOLEAN) /\ (bits = <<>> \/ Len(bits) = n)
  <2>1. CASE bits = <<>>
    BY <2>1
  <2>2. CASE bits \in [1 .. n -> BOOLEAN]
    BY <2>2
  <2> QED BY <2>1, <2>2
<1>4. r \in MaskedType
  BY <1>2, <1>3 DEF MaskedType
<1> QED BY <1>2, <1>3, <1>4 DEF RasterOK

\* A call that keeps the size of the raster.
LEMMA CallKept ==
    ASSUME NEW c, NEW r, Makes(c, r), RasterOK(raster), RasterOK(r), Len(r.data) = Len(raster.data),
           \A i \in 1 .. Len(raster.data) :
              Promise!Kept(call', i, Contents(raster)[i], Contents(r)[i])
    PROVE  Step
<1>1. raster' = r /\ Contents(raster)' = Contents(r)
  BY MakesCall
<1>2. /\ DOMAIN raster.data = 1 .. Len(raster.data) /\ DOMAIN r.data = 1 .. Len(r.data)
      /\ Len(raster.data) \in Nat
  BY DEF RasterOK, DenseType, MaskedType
<1>3. /\ DOMAIN Contents(raster) = 1 .. Len(raster.data)
      /\ Len(Contents(raster)) = Len(raster.data) /\ Len(Contents(r)) = Len(raster.data)
  BY <1>2 DEF Contents
<1>4. Promise!Call
  BY <1>1, <1>3 DEF Promise!Call
<1> QED BY <1>1, <1>4 DEF Step, Promise!Next

-----------------------------------------------------------------------------
(* Dense rasters *)

LEMMA DenseShape ==
    ASSUME NEW r, RasterOK(r), ~Masked(r)
    PROVE  /\ r = [storage |-> "dense", type |-> r.type, nod |-> r.nod, data |-> r.data]
           /\ r.type \in Types /\ r.nod \in Number \cup {None}
           /\ Len(r.data) \in Nat \ {0} /\ DOMAIN r.data = 1 .. Len(r.data)
           /\ \A i \in 1 .. Len(r.data) :
                 /\ r.data[i] \in Number /\ r.data[i] # None
                 /\ r.type = "uint" => r.data[i] # NaN
                 /\ D!is_nodata(r, i) => r.data[i] \in InBandNumbers(r)
                 /\ Contents(r)[i] = IF D!is_nodata(r, i) THEN None ELSE r.data[i]
<1>1. r \in DenseType
  BY DEF RasterOK, Masked, MaskedType
<1>2. /\ r = [storage |-> "dense", type |-> r.type, nod |-> r.nod, data |-> r.data]
      /\ r.type \in Types /\ r.nod \in Number \cup {None} /\ r.data \in Seq(Number)
  BY <1>1 DEF DenseType
<1>3. Len(r.data) \in Nat \ {0} /\ DOMAIN r.data = 1 .. Len(r.data)
  BY <1>2 DEF RasterOK
<1>4. ASSUME NEW i \in 1 .. Len(r.data)
      PROVE  /\ r.data[i] \in Number /\ r.data[i] # None
             /\ r.type = "uint" => r.data[i] # NaN
  BY <1>2, ElementsAssumption DEF RasterOK, Number
<1>5. ASSUME NEW i \in 1 .. Len(r.data), D!is_nodata(r, i) PROVE r.data[i] \in InBandNumbers(r)
  BY <1>4, <1>5 DEF InBandNumbers, D!is_nodata, D!has_nan, has_nan
<1>6. ASSUME NEW i \in 1 .. Len(r.data)
      PROVE  Contents(r)[i] = IF D!is_nodata(r, i) THEN None ELSE r.data[i]
  BY <1>3 DEF Contents, IsNodata
<1> QED BY <1>2, <1>3, <1>4, <1>5, <1>6

\* The wanted element is there, or nothing is wanted and the element is nodata:
\* however it is read, the promise is kept.
LEMMA DenseKept ==
    ASSUME NEW c, NEW r, RasterOK(r), ~Masked(r), InBandNumbers(r) \subseteq c.numbers,
           NEW i \in 1 .. Len(r.data), NEW x,
           NEW xRead \in Promise!AsRead(x, c.numbers),
           NEW yRead \in Promise!AsRead(c.other[i], c.numbers),
           NEW w, w = Promise!Wanted(c, i, xRead, yRead),
           w = r.data[i] \/ (w = None /\ D!is_nodata(r, i))
    PROVE  Promise!Kept(c, i, x, Contents(r)[i])
<1>1. Contents(r)[i] \in Promise!AsRead(w, c.numbers)
  BY DenseShape DEF Promise!AsRead
<1> QED BY <1>1 DEF Promise!Kept

\* How an element of the raster can be read: as nothing if it is nodata, as it
\* is if not, and as nothing as well if it equals a number that is in band.
LEMMA DenseRead ==
    ASSUME RasterOK(raster), ~Masked(raster), NEW c, NEW i \in 1 .. Len(raster.data)
    PROVE  /\ Contents(raster)[i] \in Promise!AsRead(Contents(raster)[i], c.numbers)
           /\ D!is_nodata(raster, i) => None \in Promise!AsRead(Contents(raster)[i], c.numbers)
           /\ ~D!is_nodata(raster, i) =>
                 raster.data[i] \in Promise!AsRead(Contents(raster)[i], c.numbers)
           /\ raster.data[i] \in c.numbers =>
                 None \in Promise!AsRead(Contents(raster)[i], c.numbers)
BY DenseShape DEF Promise!AsRead

LEMMA OtherRead ==
    ASSUME NEW c, NEW i
    PROVE  c.other[i] \in Promise!AsRead(c.other[i], c.numbers)
BY DEF Promise!AsRead

\* What remains to be shown of an element: what is wanted is there.
DenseElement(r, i) ==
    \E x \in Promise!AsRead(Contents(raster)[i], call'.numbers),
       y \in Promise!AsRead(call'.other[i], call'.numbers) :
          LET w == Promise!Wanted(call', i, x, y)
          IN  w = r.data[i] \/ (w = None /\ D!is_nodata(r, i))

\* The other raster plays no part.
LEMMA DenseAlone ==
    ASSUME NEW i, NEW r, NEW x, x \in Promise!AsRead(Contents(raster)[i], call'.numbers),
           \A y : LET w == Promise!Wanted(call', i, x, y)
                  IN  w = r.data[i] \/ (w = None /\ D!is_nodata(r, i))
    PROVE  DenseElement(r, i)
BY OtherRead DEF DenseElement

\* A dense raster as large as the present one.
DenseResult(r) ==
    /\ r = [storage |-> "dense", type |-> r.type, nod |-> r.nod, data |-> r.data]
    /\ r.type \in Types /\ r.nod \in Number \cup {None}
    /\ r.data = [i \in 1 .. Len(raster.data) |-> r.data[i]]

\* Of a call that keeps the size of a dense raster the elements remain to be
\* looked at.
LEMMA DenseCall ==
    ASSUME RasterOK(raster), ~Masked(raster), NEW c, NEW r, Makes(c, r), DenseResult(r),
           \A i \in 1 .. Len(raster.data) : DenseElement(r, i)
    PROVE  Step
<1> DEFINE n == Len(raster.data)
<1>1. Bounded(r) /\ InBandNumbers(r) \subseteq call'.numbers
  BY MakesCall
<1>2. r.data \in [1 .. n -> ElementsOf(r.type)]
  BY <1>1 DEF Bounded, DenseResult
<1>3. RasterOK(r) /\ Len(r.data) = n
  BY DenseShape, <1>2, BoundedDenseOK DEF DenseResult
<1>4. ~Masked(r)
  BY DEF Masked, DenseResult
<1>5. ASSUME NEW i \in 1 .. n PROVE Promise!Kept(call', i, Contents(raster)[i], Contents(r)[i])
  <2>1. PICK xRead \in Promise!AsRead(Contents(raster)[i], call'.numbers),
             yRead \in Promise!AsRead(call'.other[i], call'.numbers) :
                LET w == Promise!Wanted(call', i, xRead, yRead)
                IN  w = r.data[i] \/ (w = None /\ D!is_nodata(r, i))
    BY DEF DenseElement
  <2> QED BY <1>1, <1>3, <1>4, <2>1, DenseKept
<1> QED BY <1>3, <1>5, CallKept

\* An element that is left as it is.
LEMMA DenseSame ==
    ASSUME RasterOK(raster), ~Masked(raster), NEW i \in 1 .. Len(raster.data), NEW r,
           r.type = raster.type, r.nod = raster.nod, r.data[i] = raster.data[i]
    PROVE  Contents(raster)[i] = IF D!is_nodata(r, i) THEN None ELSE r.data[i]
BY DenseShape DEF D!is_nodata

LEMMA DenseFill ==
    ASSUME RasterOK(raster), ~Masked(raster), Fill
    PROVE  Step
<1>1. PICK v \in Values : Makes([op |-> "fill", v |-> v], D!fill(raster, v))
  BY DEF Fill
<1> DEFINE r == D!fill(raster, v)
<1>2. call'.op = "fill" /\ call'.v = v
  BY <1>1 DEF Makes, DoneAs
<1>3. r = [storage |-> "dense", type |-> raster.type, nod |-> raster.nod,
           data |-> [i \in 1 .. Len(raster.data) |-> v]]
  BY DenseShape DEF D!fill, D!Cells
<1>4. Makes([op |-> "fill", v |-> v], r)
  BY <1>1
<1> HIDE DEF r
<1>5. DenseResult(r)
  BY <1>3, DenseShape DEF DenseResult
<1>6. ASSUME NEW i \in 1 .. Len(raster.data) PROVE DenseElement(r, i)
  <2>1. \A y : Promise!Wanted(call', i, Contents(raster)[i], y) = r.data[i]
    BY <1>2, <1>3 DEF Promise!Wanted
  <2> QED BY <2>1, DenseRead, DenseAlone
<1> QED BY <1>4, <1>5, <1>6, DenseCall

LEMMA DenseFillValues ==
    ASSUME RasterOK(raster), ~Masked(raster), FillValues
    PROVE  Step
<1>1. PICK v \in Values : Makes([op |-> "fill_values", v |-> v], D!fill_values(raster, v))
  BY DEF FillValues
<1> DEFINE r == D!fill_values(raster, v)
<1>2. /\ call'.op = IF has_nan(raster.type) THEN "fill_others" ELSE "fill_values"
      /\ call'.v = v /\ (has_nan(raster.type) => call'.w = raster.nod)
  BY <1>1 DEF Makes, DoneAs
<1>3. r = [storage |-> "dense", type |-> raster.type, nod |-> raster.nod, data |->
             [i \in 1 .. Len(raster.data) |->
                IF raster.nod = None \/ raster.data[i] # raster.nod \/ raster.data[i] = NaN
                THEN v ELSE raster.data[i]]]
  <2>1. CASE raster.nod = None
    BY <2>1, DenseShape DEF D!fill_values, D!fill, D!Cells
  <2>2. CASE raster.nod # None
    <3>1. \A x : D!Holds("not_equal_to", x, raster.nod) <=> x # raster.nod \/ x = NaN
      BY DEF D!Holds
    <3> QED BY <2>2, <3>1, DenseShape DEF D!fill_values, D!Cells
  <2> QED BY <2>1, <2>2
<1>4. Makes([op |-> "fill_values", v |-> v], r)
  BY <1>1
<1> HIDE DEF r
<1>5. DenseResult(r)
  BY <1>3, DenseShape DEF DenseResult
<1>6. ASSUME NEW i \in 1 .. Len(raster.data) PROVE DenseElement(r, i)
  <2> DEFINE x == Contents(raster)[i]
  <2>1. x = IF D!is_nodata(raster, i) THEN None ELSE raster.data[i]
    BY DenseShape
  <2>2. \A y : LET w == Promise!Wanted(call', i, x, y)
               IN  w = r.data[i] \/ (w = None /\ D!is_nodata(r, i))
    <3>1. CASE raster.type = "float"
      <4>1. \A y : Promise!Wanted(call', i, x, y) = IF x = raster.nod THEN x ELSE v
        BY <1>2, <3>1 DEF Promise!Wanted, has_nan
      <4>2. (IF x = raster.nod THEN x ELSE v) = r.data[i]
        BY <1>3, <2>1, <3>1, DenseShape DEF D!is_nodata, D!has_nan
      <4> QED BY <4>1, <4>2
    <3>2. CASE raster.type = "uint"
      <4>1. \A y : Promise!Wanted(call', i, x, y) = IF x = None THEN None ELSE v
        BY <1>2, <3>2 DEF Promise!Wanted, has_nan
      <4>2. IF x = None THEN D!is_nodata(r, i) ELSE r.data[i] = v
        BY <1>3, <2>1, <3>2, DenseShape DEF D!is_nodata, D!has_nan
      <4> QED BY <4>1, <4>2
    <3> QED BY <3>1, <3>2, DenseShape DEF Types
  <2> QED BY <2>2, DenseRead, DenseAlone
<1> QED BY <1>4, <1>5, <1>6, DenseCall

LEMMA DenseFillWithNodata ==
    ASSUME RasterOK(raster), ~Masked(raster), FillWithNodata
    PROVE  Step
<1> DEFINE r == D!fill_with_nodata(raster)
<1>1. Makes([op |-> "fill_with_nodata"], r)
  BY DEF FillWithNodata
<1>2. call'.op = IF raster.nod = None THEN "keep" ELSE "fill_with_nodata"
  BY <1>1 DEF Makes, DoneAs
<1>3. r = [storage |-> "dense", type |-> raster.type, nod |-> raster.nod,
           data |-> [i \in 1 .. Len(raster.data) |->
                        IF raster.nod = None THEN raster.data[i] ELSE D!InBand(raster)]]
  <2>1. CASE raster.nod = None
    <3>1. r = raster
      BY <2>1 DEF D!fill_with_nodata
    <3>2. raster.data = [i \in 1 .. Len(raster.data) |-> raster.data[i]]
      BY DEF RasterOK, DenseType, MaskedType
    <3> HIDE DEF r
    <3> QED BY <2>1, <3>1, <3>2, DenseShape
  <2>2. CASE raster.nod # None
    BY <2>2, DenseShape DEF D!fill_with_nodata, D!fill, D!Cells
  <2> QED BY <2>1, <2>2
<1> HIDE DEF r
<1>4. DenseResult(r)
  BY <1>3, DenseShape DEF DenseResult
<1>5. ASSUME NEW i \in 1 .. Len(raster.data) PROVE DenseElement(r, i)
  <2> DEFINE x == Contents(raster)[i]
  <2>1. \A y : LET w == Promise!Wanted(call', i, x, y)
               IN  w = r.data[i] \/ (w = None /\ D!is_nodata(r, i))
    <3>1. CASE raster.nod = None
      <4>1. \A y : Promise!Wanted(call', i, x, y) = x
        BY <1>2, <3>1 DEF Promise!Wanted
      <4>2. x = r.data[i]
        BY <1>3, <3>1, DenseShape DEF D!is_nodata
      <4> QED BY <4>1, <4>2
    <3>2. CASE raster.nod # None
      <4>1. \A y : Promise!Wanted(call', i, x, y) = None
        BY <1>2, <3>2 DEF Promise!Wanted
      <4>2. D!is_nodata(r, i)
        BY <1>3, <3>2 DEF D!is_nodata, D!InBand
      <4> QED BY <4>1, <4>2
    <3> QED BY <3>1, <3>2
  <2> QED BY <2>1, DenseRead, DenseAlone
<1> QED BY <1>1, <1>4, <1>5, DenseCall

LEMMA DenseMarkAsNodata ==
    ASSUME RasterOK(raster), ~Masked(raster), MarkAsNodata
    PROVE  Step
<1>1. PICK j \in DOMAIN raster.data :
         /\ D!MayMark(raster)
         /\ Makes([op |-> "mark_as_nodata", i |-> j], D!mark_as_nodata(raster, j))
  BY DEF MarkAsNodata
<1> DEFINE r == D!mark_as_nodata(raster, j)
<1>2. call'.op = "mark_as_nodata" /\ call'.i = j
  BY <1>1 DEF Makes, DoneAs
<1>3. r = [storage |-> "dense", type |-> raster.type, nod |-> raster.nod,
           data |-> [i \in 1 .. Len(raster.data) |->
                        IF i = j THEN D!InBand(raster) ELSE raster.data[i]]]
  BY DenseShape DEF D!mark_as_nodata
<1>4. Makes([op |-> "mark_as_nodata", i |-> j], r)
  BY <1>1
<1> HIDE DEF r
<1>5. DenseResult(r)
  BY <1>3, DenseShape DEF DenseResult
<1>6. ASSUME NEW i \in 1 .. Len(raster.data) PROVE DenseElement(r, i)
  <2> DEFINE x == Contents(raster)[i]
  <2>1. \A y : Promise!Wanted(call', i, x, y) = IF i = j THEN None ELSE x
    BY <1>2 DEF Promise!Wanted
  <2>2. CASE i = j
    <3>1. D!is_nodata(r, i)
      BY <1>1, <1>3, <2>2 DEF D!is_nodata, D!InBand, D!MayMark
    <3> QED BY <2>1, <2>2, <3>1, DenseRead, DenseAlone
  <2>3. CASE i # j
    <3>1. x = IF D!is_nodata(r, i) THEN None ELSE r.data[i]
      BY <1>3, <2>3, DenseSame
    <3> QED BY <2>1, <2>3, <3>1, DenseRead, DenseAlone
  <2> QED BY <2>2, <2>3
<1> QED BY <1>4, <1>5, <1>6, DenseCall

LEMMA DenseSetValue ==
    ASSUME RasterOK(raster), ~Masked(raster), SetValue
    PROVE  Step
<1>1. PICK j \in DOMAIN raster.data, v \in Values :
         Makes([op |-> "assign", i |-> j, v |-> v], D!assign(raster, j, v))
  BY DEF SetValue
<1> DEFINE r == D!assign(raster, j, v)
<1>2. call'.op = "assign" /\ call'.i = j /\ call'.v = v
  BY <1>1 DEF Makes, DoneAs
<1>3. r = [storage |-> "dense", type |-> raster.type, nod |-> raster.nod,
           data |-> [i \in 1 .. Len(raster.data) |-> IF i = j THEN v ELSE raster.data[i]]]
  BY DenseShape DEF D!assign
<1>4. Makes([op |-> "assign", i |-> j, v |-> v], r)
  BY <1>1
<1> HIDE DEF r
<1>5. DenseResult(r)
  BY <1>3, DenseShape DEF DenseResult
<1>6. ASSUME NEW i \in 1 .. Len(raster.data) PROVE DenseElement(r, i)
  <2> DEFINE x == Contents(raster)[i]
  <2>1. \A y : Promise!Wanted(call', i, x, y) = IF i = j THEN v ELSE x
    BY <1>2 DEF Promise!Wanted
  <2>2. IF i = j THEN v = r.data[i] ELSE x = IF D!is_nodata(r, i) THEN None ELSE r.data[i]
    BY <1>3, DenseSame
  <2> QED BY <2>1, <2>2, DenseRead, DenseAlone
<1> QED BY <1>4, <1>5, <1>6, DenseCall

LEMMA DenseAddToCell ==
    ASSUME RasterOK(raster), ~Masked(raster), AddToCell
    PROVE  Step
<1>1. PICK j \in DOMAIN raster.data, v \in Values :
         Makes([op |-> "add_to_cell", i |-> j, v |-> v], D!add_to_cell(raster, j, v))
  BY DEF AddToCell
<1> DEFINE r == D!add_to_cell(raster, j, v)
           added == IF D!is_nodata(raster, j) THEN v ELSE Compute(raster.type, "plus", raster.data[j], v)
<1>2. r = [storage |-> "dense", type |-> raster.type, nod |-> raster.nod,
           data |-> [i \in 1 .. Len(raster.data) |-> IF i = j THEN added ELSE raster.data[i]]]
  <2>1. r = [raster EXCEPT !.data[j] = IF D!is_nodata(raster, j) THEN v
                                        ELSE D!Compute(raster.type, "plus", raster.data[j], v)]
    BY DEF D!add_to_cell
  <2>2. D!Compute(raster.type, "plus", raster.data[j], v) = Compute(raster.type, "plus", raster.data[j], v)
    BY SameElements, Zenon
  <2>3. r = [raster EXCEPT !.data[j] = added]
    BY <2>1, <2>2
  <2>4. /\ raster = [storage |-> "dense", type |-> raster.type, nod |-> raster.nod, data |-> raster.data]
        /\ DOMAIN raster.data = 1 .. Len(raster.data)
    BY DenseShape
  <2> HIDE DEF r, added
  <2>5. [raster EXCEPT !.data[j] = added] =
            [storage |-> "dense", type |-> raster.type, nod |-> raster.nod,
             data |-> [raster.data EXCEPT ![j] = added]]
    BY <2>4
  <2>6. [raster.data EXCEPT ![j] = added] =
            [i \in 1 .. Len(raster.data) |-> IF i = j THEN added ELSE raster.data[i]]
    BY <2>4
  <2> QED BY <2>3, <2>5, <2>6
<1>3. call'.op = "add_to_cell" /\ call'.i = j /\ call'.v = v /\ call'.type = raster.type
  <2>1. DoneAs(raster, [op |-> "add_to_cell", i |-> j, v |-> v]) = "add_to_cell"
    BY DEF DoneAs
  <2>2. r.type = raster.type
    BY <1>2
  <2> HIDE DEF r
  <2>3. Makes([op |-> "add_to_cell", i |-> j, v |-> v], r)
    BY <1>1 DEF r
  <2> QED BY <2>1, <2>2, <2>3 DEF Makes
<1>4. Makes([op |-> "add_to_cell", i |-> j, v |-> v], r)
  BY <1>1
<1> HIDE DEF r
<1>5. DenseResult(r)
  BY <1>2, DenseShape DEF DenseResult
<1>6. ASSUME NEW i \in 1 .. Len(raster.data) PROVE DenseElement(r, i)
  <2> DEFINE x == Contents(raster)[i]
  <2>1. \A y : Promise!Wanted(call', i, x, y) =
                 IF i # j THEN x ELSE IF x = None THEN v ELSE Compute(raster.type, "plus", x, v)
    BY <1>3, SameElements DEF Promise!Wanted
  <2>2. CASE i # j
    <3>1. x = IF D!is_nodata(r, i) THEN None ELSE r.data[i]
      BY <1>2, <2>2, DenseSame
    <3> QED BY <2>1, <2>2, <3>1, DenseRead, DenseAlone
  <2>3. CASE i = j
    <3>1. (IF x = None THEN v ELSE Compute(raster.type, "plus", x, v)) = r.data[i]
      BY <1>2, <2>3, DenseShape
    <3> QED BY <2>1, <2>3, <3>1, DenseRead, DenseAlone
  <2> QED BY <2>2, <2>3
<1> QED BY <1>4, <1>5, <1>6, DenseCall

LEMMA NumbersTyped == \A type : NumbersOf(type) \subseteq Number \cup {None}
BY StorageAssumption DEF NumbersOf, Number

LEMMA ScalarsTyped ==
    ASSUME raster.type \in Types
    PROVE  \A v \in Scalars : v \in Int /\ v # NaN /\ v # None
BY ElementsTyped, ElementsAssumption DEF Scalars, Values, Number

LEMMA DenseSetNodata ==
    ASSUME RasterOK(raster), ~Masked(raster), SetNodata
    PROVE  Step
<1> DEFINE reread == ~has_nan(raster.type) /\ raster.nod # None
           call0 == IF reread THEN [op |-> "replace_nodata", v |-> raster.nod] ELSE [op |-> "keep"]
<1>1. PICK v \in NumbersOf(raster.type) \ {None} : Makes(call0, D!set_nodata(raster, v))
  BY DEF SetNodata
<1> DEFINE r == D!set_nodata(raster, v)
<1>2. r = [storage |-> "dense", type |-> raster.type, nod |-> v, data |-> raster.data]
  BY DenseShape DEF D!set_nodata
<1>3. Makes(call0, r)
  BY <1>1
<1>4. IF reread THEN call'.op = "replace_nodata" /\ call'.v = raster.nod ELSE call'.op = "keep"
  <2>1. CASE reread
    BY <1>3, <2>1 DEF Makes, DoneAs
  <2>2. CASE ~reread
    BY <1>3, <2>2 DEF Makes, DoneAs
  <2> QED BY <2>1, <2>2
<1> HIDE DEF r, call0
<1>5. DenseResult(r)
  <2>1. raster.data = [i \in 1 .. Len(raster.data) |-> raster.data[i]]
    BY DEF RasterOK, DenseType, MaskedType
  <2> QED BY <1>2, <2>1, DenseShape, NumbersTyped DEF DenseResult
<1>6. ASSUME NEW i \in 1 .. Len(raster.data) PROVE DenseElement(r, i)
  <2> DEFINE x == Contents(raster)[i]
  <2>1. x = IF D!is_nodata(raster, i) THEN None ELSE raster.data[i]
    BY DenseShape
  <2>2. CASE reread
    <3>1. \A y : Promise!Wanted(call', i, x, y) = IF x = None THEN raster.nod ELSE x
      BY <1>4, <2>2 DEF Promise!Wanted
    <3>2. (IF x = None THEN raster.nod ELSE x) = r.data[i]
      BY <1>2, <2>1, <2>2, DenseShape DEF D!is_nodata, D!has_nan, has_nan
    <3> QED BY <3>1, <3>2, DenseRead, DenseAlone
  <2>3. CASE ~reread
    <3>1. \A y : Promise!Wanted(call', i, x, y) = x
      BY <1>4, <2>3 DEF Promise!Wanted
    <3>2. x = r.data[i] \/ (x = None /\ D!is_nodata(r, i))
      BY <1>2, <2>1, <2>3 DEF D!is_nodata, D!has_nan, has_nan
    <3> QED BY <3>1, <3>2, DenseRead, DenseAlone
  <2> QED BY <2>2, <2>3
<1> QED BY <1>3, <1>5, <1>6, DenseCall

LEMMA DenseReplaceNodata ==
    ASSUME RasterOK(raster), ~Masked(raster), ReplaceNodata
    PROVE  Step
<1>1. PICK v \in Values : Makes([op |-> "replace_nodata", v |-> v], D!replace_nodata(raster, v))
  BY DEF ReplaceNodata
<1> DEFINE r == D!replace_nodata(raster, v)
<1>2. call'.op = "replace_nodata" /\ call'.v = v
  BY <1>1 DEF Makes, DoneAs
<1>3. r = [storage |-> "dense", type |-> raster.type, nod |-> None,
           data |-> [i \in 1 .. Len(raster.data) |->
                        IF D!is_nodata(raster, i) THEN v ELSE raster.data[i]]]
  <2> DEFINE data == [i \in 1 .. Len(raster.data) |->
                        IF D!is_nodata(raster, i) THEN v ELSE raster.data[i]]
  <2>1. r = [raster EXCEPT !.data = data, !.nod = None]
    BY DenseShape DEF D!replace_nodata, D!Cells
  <2> HIDE DEF r, data
  <2>2. r = [[raster EXCEPT !.data = data] EXCEPT !.nod = None]
    BY <2>1, Zenon
  <2>3. [raster EXCEPT !.data = data] =
           [storage |-> "dense", type |-> raster.type, nod |-> raster.nod, data |-> data]
    BY DenseShape
  <2>4. r = [storage |-> "dense", type |-> raster.type, nod |-> None, data |-> data]
    BY <2>2, <2>3
  <2> QED BY <2>4 DEF data
<1>4. Makes([op |-> "replace_nodata", v |-> v], r)
  BY <1>1
<1> HIDE DEF r
<1>5. DenseResult(r)
  BY <1>3, DenseShape DEF DenseResult
<1>6. ASSUME NEW i \in 1 .. Len(raster.data) PROVE DenseElement(r, i)
  <2>1. \A y : Promise!Wanted(call', i, Contents(raster)[i], y) = r.data[i]
    BY <1>2, <1>3, DenseShape DEF Promise!Wanted
  <2> QED BY <2>1, DenseRead, DenseAlone
<1> QED BY <1>4, <1>5, <1>6, DenseCall

LEMMA DenseTurnValueIntoNodata ==
    ASSUME RasterOK(raster), ~Masked(raster), TurnValueIntoNodata
    PROVE  Step
<1>1. PICK v \in Scalars :
         /\ D!MayMark(raster)
         /\ Makes([op |-> "turn_value_into_nodata", v |-> v], D!turn_value_into_nodata(raster, v))
  BY DEF TurnValueIntoNodata
<1> DEFINE r == D!turn_value_into_nodata(raster, v)
<1>2. call'.op = "turn_value_into_nodata" /\ call'.v = v
  BY <1>1 DEF Makes, DoneAs
<1>3. r = [storage |-> "dense", type |-> raster.type, nod |-> raster.nod,
           data |-> [i \in 1 .. Len(raster.data) |->
                        IF raster.data[i] = v THEN D!InBand(raster) ELSE raster.data[i]]]
  BY DenseShape DEF D!turn_value_into_nodata, D!Cells
<1>4. Makes([op |-> "turn_value_into_nodata", v |-> v], r)
  BY <1>1
<1> HIDE DEF r
<1>5. DenseResult(r)
  BY <1>3, DenseShape DEF DenseResult
<1>6. ASSUME NEW i \in 1 .. Len(raster.data) PROVE DenseElement(r, i)
  <2> DEFINE x == Contents(raster)[i]
  <2>1. \A y : Promise!Wanted(call', i, x, y) = IF x = v THEN None ELSE x
    BY <1>2 DEF Promise!Wanted
  <2>2. CASE raster.data[i] = v
    <3>1. D!is_nodata(r, i)
      BY <1>1, <1>3, <2>2 DEF D!is_nodata, D!InBand, D!MayMark
    <3>2. (IF x = v THEN None ELSE x) = None
      BY <2>2, DenseShape
    <3> QED BY <2>1, <3>1, <3>2, DenseRead, DenseAlone
  <2>3. CASE raster.data[i] # v
    <3>1. x = IF D!is_nodata(r, i) THEN None ELSE r.data[i]
      BY <1>3, <2>3, DenseSame
    <3>2. v # None
      BY ScalarsTyped, DenseShape
    <3>3. x # v
      BY <1>3, <2>3, <3>1, <3>2
    <3> QED BY <2>1, <3>1, <3>3, DenseRead, DenseAlone
  <2> QED BY <2>2, <2>3
<1> QED BY <1>4, <1>5, <1>6, DenseCall

LEMMA DenseReplace ==
    ASSUME RasterOK(raster), ~Masked(raster), Replace
    PROVE  Step
<1>1. PICK v \in Scalars, w \in Values :
         Makes([op |-> "replace", v |-> v, w |-> w], D!replace(raster, v, w))
  BY DEF Replace
<1> DEFINE r == D!replace(raster, v, w)
           inBand == ~has_nan(raster.type) /\ v = raster.nod
<1>2. IF inBand THEN call'.op = "replace_nodata" /\ call'.v = w
      ELSE call'.op = "replace" /\ call'.v = v /\ call'.w = w
  BY <1>1 DEF Makes, DoneAs
<1>3. v \in Int /\ v # NaN /\ v # None
  BY ScalarsTyped, DenseShape
<1>4. r = [storage |-> "dense", type |-> raster.type, nod |-> raster.nod,
           data |-> [i \in 1 .. Len(raster.data) |->
                        IF raster.data[i] = v THEN w ELSE raster.data[i]]]
  <2> DEFINE data == [i \in 1 .. Len(raster.data) |->
                        IF raster.data[i] = v /\ v # NaN THEN w ELSE raster.data[i]]
  <2>1. r = [raster EXCEPT !.data = data]
    BY DenseShape DEF D!replace, D!Cells
  <2>2. data = [i \in 1 .. Len(raster.data) |-> IF raster.data[i] = v THEN w ELSE raster.data[i]]
    BY <1>3
  <2> HIDE DEF r, data
  <2>3. r = [storage |-> "dense", type |-> raster.type, nod |-> raster.nod, data |-> data]
    BY <2>1, DenseShape
  <2> QED BY <2>2, <2>3
<1>5. Makes([op |-> "replace", v |-> v, w |-> w], r)
  BY <1>1
<1> HIDE DEF r
<1>6. DenseResult(r)
  BY <1>4, DenseShape DEF DenseResult
<1>7. ASSUME NEW i \in 1 .. Len(raster.data) PROVE DenseElement(r, i)
  <2> DEFINE x == Contents(raster)[i]
  <2>1. x = IF D!is_nodata(raster, i) THEN None ELSE raster.data[i]
    BY DenseShape
  <2>2. CASE inBand
    <3>1. \A y : Promise!Wanted(call', i, x, y) = IF x = None THEN w ELSE x
      BY <1>2, <2>2 DEF Promise!Wanted
    <3>2. (IF x = None THEN w ELSE x) = r.data[i]
      BY <1>3, <1>4, <2>1, <2>2, DenseShape DEF D!is_nodata, D!has_nan, has_nan
    <3> QED BY <3>1, <3>2, DenseRead, DenseAlone
  <2>3. CASE ~inBand
    <3>1. \A y : Promise!Wanted(call', i, x, y) = IF x = v THEN w ELSE x
      BY <1>2, <2>3 DEF Promise!Wanted
    <3>2. CASE raster.data[i] = v
      <4>1. x = v
        BY <1>3, <2>1, <2>3, <3>2 DEF D!is_nodata, D!has_nan, has_nan
      <4> QED BY <1>4, <3>1, <3>2, <4>1, DenseRead, DenseAlone
    <3>3. CASE raster.data[i] # v
      <4>1. x = IF D!is_nodata(r, i) THEN None ELSE r.data[i]
        BY <1>4, <3>3, DenseSame
      <4>2. x # v
        BY <1>3, <2>1, <3>3
      <4> QED BY <3>1, <4>1, <4>2, DenseRead, DenseAlone
    <3> QED BY <3>2, <3>3
  <2> QED BY <2>2, <2>3
<1> QED BY <1>5, <1>6, <1>7, DenseCall

\* A call with a scalar: the other raster is the scalar everywhere.
LEMMA ScalarCall ==
    ASSUME RasterOK(raster), NEW op, NEW v, NEW r, Makes([op |-> op, y |-> v], r),
           op \in {"add_or_assign"} \cup Arithmetics, NEW i \in DOMAIN r.data
    PROVE  call'.op = op /\ call'.type = r.type /\ call'.other[i] = v
BY DEF Makes, DoneAs, Arithmetics

LEMMA DenseAddOrAssignScalar ==
    ASSUME RasterOK(raster), ~Masked(raster), AddOrAssignScalar
    PROVE  Step
<1>1. PICK v \in Scalars :
         Makes([op |-> "add_or_assign", y |-> v], D!add_or_assign_scalar(raster, v))
  BY DEF AddOrAssignScalar
<1> DEFINE r == D!add_or_assign_scalar(raster, v)
           missing(i) == IF has_nan(raster.type) THEN raster.data[i] = NaN ELSE D!is_nodata(raster, i)
<1>2. r = [storage |-> "dense", type |-> raster.type, nod |-> raster.nod,
           data |-> [i \in 1 .. Len(raster.data) |->
                        IF missing(i) THEN v ELSE Compute(raster.type, "plus", raster.data[i], v)]]
  BY DenseShape, SameElements DEF D!add_or_assign_scalar, D!Cells
<1>3. Makes([op |-> "add_or_assign", y |-> v], r)
  BY <1>1
<1>4. v \in Int /\ v # NaN /\ v # None
  BY ScalarsTyped, DenseShape
<1> HIDE DEF r
<1>5. DenseResult(r)
  BY <1>2, DenseShape DEF DenseResult
<1>6. ASSUME NEW i \in 1 .. Len(raster.data) PROVE DenseElement(r, i)
  <2> DEFINE x == IF missing(i) THEN None ELSE raster.data[i]
  <2>1. x \in Promise!AsRead(Contents(raster)[i], call'.numbers)
    <3>1. CASE missing(i)
      <4>1. D!is_nodata(raster, i) \/ raster.data[i] \in call'.numbers
        BY <1>3, <3>1, MakesCall, ElementsAssumption DEF InBandNumbers
      <4> QED BY <3>1, <4>1, DenseRead
    <3>2. CASE ~missing(i)
      <4>1. ~D!is_nodata(raster, i)
        BY <3>2 DEF D!is_nodata, D!has_nan, has_nan
      <4> QED BY <3>2, <4>1, DenseRead
    <3> QED BY <3>1, <3>2
  <2>2. call'.op = "add_or_assign" /\ call'.type = raster.type /\ call'.other[i] = v
    BY <1>2, <1>3, ScalarCall
  <2>3. Promise!Wanted(call', i, x, v) = IF x = None THEN v ELSE Compute(raster.type, "plus", x, v)
    BY <1>4, <2>2, SameElements DEF Promise!Wanted
  <2>4. Promise!Wanted(call', i, x, v) = r.data[i]
    BY <1>2, <2>3, DenseShape
  <2>5. v \in Promise!AsRead(call'.other[i], call'.numbers)
    BY <2>2, OtherRead
  <2> QED BY <2>1, <2>4, <2>5 DEF DenseElement
<1> QED BY <1>3, <1>5, <1>6, DenseCall

LEMMA DenseScalarInPlace ==
    ASSUME RasterOK(raster), ~Masked(raster), ScalarInPlace
    PROVE  Step
<1>1. PICK v \in Scalars, op \in Arithmetics :
         /\ op = "divides" => v # 0
         /\ Makes([op |-> op, y |-> v], D!perform_scalar_operation(raster, op, v))
  BY DEF ScalarInPlace
<1> DEFINE r == D!perform_scalar_operation(raster, op, v)
           inBand(i) == ~has_nan(raster.type) /\ raster.nod # None /\ raster.data[i] = raster.nod
<1>2. r = [storage |-> "dense", type |-> raster.type, nod |-> raster.nod,
           data |-> [i \in 1 .. Len(raster.data) |->
                        IF inBand(i) THEN raster.nod
                        ELSE Compute(raster.type, op, raster.data[i], v)]]
  BY DenseShape, SameElements DEF D!perform_scalar_operation, D!Cells, D!has_nan, has_nan
<1>3. Makes([op |-> op, y |-> v], r)
  BY <1>1
<1>4. v \in Int /\ v # NaN /\ v # None
  BY ScalarsTyped, DenseShape
<1> HIDE DEF r
<1>5. DenseResult(r)
  BY <1>2, DenseShape DEF DenseResult
<1>6. ASSUME NEW i \in 1 .. Len(raster.data) PROVE DenseElement(r, i)
  <2> DEFINE x == Contents(raster)[i]
  <2>1. x = IF D!is_nodata(raster, i) THEN None ELSE raster.data[i]
    BY DenseShape
  <2>2. call'.op = op /\ call'.type = raster.type /\ call'.other[i] = v
    BY <1>2, <1>3, ScalarCall
  <2>3. Promise!Wanted(call', i, x, v) = Promise!Arithmetic(raster.type, op, x, v)
    BY <2>2 DEF Promise!Wanted, Arithmetics
  <2>4. Promise!Arithmetic(raster.type, op, x, v) =
           IF x = None THEN None ELSE Compute(raster.type, op, x, v)
    BY <1>1, <1>4, SameElements DEF Promise!Arithmetic
  <2>5. r.data[i] = IF inBand(i) THEN raster.nod ELSE Compute(raster.type, op, raster.data[i], v)
    BY <1>2
  <2>6. CASE D!is_nodata(raster, i)
    <3>1. ASSUME has_nan(raster.type) PROVE D!is_nodata(r, i)
      <4>1. raster.data[i] = NaN /\ raster.nod # None
        BY <2>6, <3>1 DEF D!is_nodata, D!has_nan, has_nan
      <4>2. r.data[i] = NaN
        BY <2>5, <3>1, <4>1 DEF Compute
      <4> QED BY <1>2, <3>1, <4>1, <4>2 DEF D!is_nodata, D!has_nan, has_nan
    <3>2. ASSUME ~has_nan(raster.type) PROVE D!is_nodata(r, i)
      <4>1. inBand(i)
        BY <2>6, <3>2 DEF D!is_nodata, D!has_nan, has_nan
      <4> QED BY <1>2, <2>5, <3>2, <4>1 DEF D!is_nodata, D!has_nan, has_nan
    <3>3. D!is_nodata(r, i)
      BY <3>1, <3>2
    <3> QED BY <2>1, <2>2, <2>3, <2>4, <2>6, <3>3, DenseRead, OtherRead DEF DenseElement
  <2>7. CASE ~D!is_nodata(raster, i)
    <3>1. ~inBand(i) /\ x # None
      BY <2>1, <2>7, DenseShape DEF D!is_nodata, D!has_nan, has_nan
    <3>2. Promise!Wanted(call', i, x, v) = r.data[i]
      BY <2>1, <2>3, <2>4, <2>5, <2>7, <3>1
    <3> QED BY <2>2, <3>2, DenseRead, OtherRead DEF DenseElement
  <2> QED BY <2>6, <2>7
<1> QED BY <1>3, <1>5, <1>6, DenseCall

LEMMA DenseReread ==
    ASSUME RasterOK(raster), ~Masked(raster), Reread
    PROVE  Step
<1> DEFINE r == D!Reread(raster)
           numbered == has_nan(raster.type) /\ raster.nod \notin {None, NaN}
<1>1. Makes([op |-> "reread"], r)
  BY DEF Reread
<1>2. call'.op = "reread"
  BY <1>1 DEF Makes, DoneAs
<1>3. r = [storage |-> "dense", type |-> raster.type, nod |-> raster.nod,
           data |-> [i \in 1 .. Len(raster.data) |->
                        IF numbered /\ raster.data[i] = raster.nod THEN NaN ELSE raster.data[i]]]
  <2> DEFINE stored == D!Stored(raster)
  <2>1. stored = [i \in 1 .. Len(raster.data) |->
                    IF numbered /\ raster.data[i] = NaN THEN raster.nod ELSE raster.data[i]]
    <3>1. CASE numbered
      BY <3>1, DenseShape DEF D!Stored, D!collapse_data, D!Cells, D!has_nan, has_nan
    <3>2. CASE ~numbered
      <4>1. stored = raster.data
        BY <3>2 DEF D!Stored, D!collapse_data, D!has_nan, has_nan
      <4>2. raster.data = [i \in 1 .. Len(raster.data) |-> raster.data[i]]
        BY DEF RasterOK, DenseType, MaskedType
      <4> HIDE DEF stored
      <4> QED BY <3>2, <4>1, <4>2
    <3> QED BY <3>1, <3>2
  <2> HIDE DEF stored
  <2>2. r = D!init_nodata_values(D!Raster(raster.type, raster.nod, stored))
    BY DEF D!Reread, D!FromData, stored
  <2>3. DOMAIN stored = 1 .. Len(raster.data)
    BY <2>1
  <2>4. r = [storage |-> "dense", type |-> raster.type, nod |-> raster.nod,
             data |-> [i \in 1 .. Len(raster.data) |->
                          IF numbered /\ stored[i] = raster.nod THEN NaN ELSE stored[i]]]
    <3>1. CASE numbered
      BY <2>2, <2>3, <3>1 DEF D!init_nodata_values, D!Raster, D!Cells, D!has_nan, has_nan
    <3>2. CASE ~numbered
      <4>1. r = [storage |-> "dense", type |-> raster.type, nod |-> raster.nod, data |-> stored]
        BY <2>2, <3>2 DEF D!init_nodata_values, D!Raster, D!has_nan, has_nan
      <4>2. stored = [i \in 1 .. Len(raster.data) |-> stored[i]]
        BY <2>1
      <4> HIDE DEF r
      <4> QED BY <3>2, <4>1, <4>2
    <3> QED BY <3>1, <3>2
  <2>5. ASSUME NEW i \in 1 .. Len(raster.data)
        PROVE  (IF numbered /\ stored[i] = raster.nod THEN NaN ELSE stored[i]) =
               (IF numbered /\ raster.data[i] = raster.nod THEN NaN ELSE raster.data[i])
    BY <2>1
  <2> HIDE DEF r, numbered
  <2> QED BY <2>4, <2>5
<1> HIDE DEF r
<1>4. DenseResult(r)
  BY <1>3, DenseShape DEF DenseResult
<1>5. ASSUME NEW i \in 1 .. Len(raster.data) PROVE DenseElement(r, i)
  <2> DEFINE x == Contents(raster)[i]
  <2>1. x = IF D!is_nodata(raster, i) THEN None ELSE raster.data[i]
    BY DenseShape
  <2>2. \A z, y : Promise!Wanted(call', i, z, y) = z
    BY <1>2 DEF Promise!Wanted
  <2>3. CASE numbered /\ raster.data[i] = raster.nod
    <3>1. ~D!is_nodata(raster, i)
      BY <2>3 DEF D!is_nodata, D!has_nan, has_nan
    <3>2. raster.nod \in call'.numbers
      <4>1. {r.nod, NaN} \ {None} \subseteq call'.numbers
        BY <1>1, MakesCall
      <4> QED BY <1>3, <2>3, <4>1
    <3>3. None \in Promise!AsRead(x, call'.numbers)
      BY <2>1, <2>3, <3>1, <3>2 DEF Promise!AsRead
    <3>4. D!is_nodata(r, i)
      BY <1>3, <2>3 DEF D!is_nodata, D!has_nan, has_nan
    <3> QED BY <2>2, <3>3, <3>4, DenseAlone
  <2>4. CASE ~(numbered /\ raster.data[i] = raster.nod)
    <3>1. x = IF D!is_nodata(r, i) THEN None ELSE r.data[i]
      BY <1>3, <2>4, DenseSame
    <3> QED BY <2>2, <3>1, DenseRead, DenseAlone
  <2> QED BY <2>3, <2>4
<1> QED BY <1>1, <1>4, <1>5, DenseCall

\* A cast takes the number along if it fits, and another if not.
LEMMA CastNumbersTyped ==
    ASSUME NEW r, r.nod \in Number \cup {None}, NEW type \in Types,
           NEW nod, nod \in CastNumbers(r, type)
    PROVE  nod \in Number \cup {None} /\ (nod = None <=> r.nod = None)
BY ElementsAssumption DEF CastNumbers, Number

LEMMA DenseCast ==
    ASSUME RasterOK(raster), ~Masked(raster), Cast
    PROVE  Step
<1>0. PICK type \in Types : \E nod \in CastNumbers(raster, type) :
         Makes([op |-> "keep"], raster_cast(raster, type, nod))
  BY DEF Cast, Types
<1>1. PICK nod \in CastNumbers(raster, type) : Makes([op |-> "keep"], raster_cast(raster, type, nod))
  BY <1>0
<1> DEFINE r == raster_cast(raster, type, nod)
<1>2. call'.op = "keep"
  BY <1>1 DEF Makes, DoneAs
<1>3. r = [storage |-> "dense", type |-> type, nod |-> nod,
           data |-> [i \in 1 .. Len(raster.data) |->
                        IF ~D!is_nodata(raster, i) THEN raster.data[i]
                        ELSE IF has_nan(type) THEN NaN ELSE nod]]
  BY DenseShape DEF raster_cast, D!Raster, IsNodata
<1>4. Makes([op |-> "keep"], r)
  BY <1>1
<1>5. nod \in Number \cup {None} /\ (nod = None <=> raster.nod = None)
  BY CastNumbersTyped, DenseShape
<1> HIDE DEF r
<1>6. DenseResult(r)
  BY <1>3, <1>5 DEF DenseResult
<1>7. ASSUME NEW i \in 1 .. Len(raster.data) PROVE DenseElement(r, i)
  <2> DEFINE x == Contents(raster)[i]
  <2>1. x = IF D!is_nodata(raster, i) THEN None ELSE raster.data[i]
    BY DenseShape
  <2>2. \A y : Promise!Wanted(call', i, x, y) = x
    BY <1>2 DEF Promise!Wanted
  <2>3. D!is_nodata(raster, i) => D!is_nodata(r, i)
    BY <1>3, <1>5 DEF D!is_nodata, D!has_nan, has_nan
  <2>4. x = r.data[i] \/ (x = None /\ D!is_nodata(r, i))
    BY <1>3, <2>1, <2>3
  <2> QED BY <2>2, <2>4, DenseRead, DenseAlone
<1> QED BY <1>4, <1>6, <1>7, DenseCall

\* A fill that changes the size.
LEMMA Resized ==
    ASSUME NEW c, NEW r, Makes(c, r), RasterOK(raster), RasterOK(r), Len(r.data) # Len(raster.data),
           call'.op \in {"fill", "fill_values"},
           \A i \in 1 .. Len(r.data) : \/ Contents(r)[i] \in Promise!AsRead(call'.v, call'.numbers)
                                       \/ Contents(r)[i] = None /\ call'.op = "fill_values"
    PROVE  Step
<1>1. raster' = r /\ Contents(raster)' = Contents(r)
  BY MakesCall
<1>2. /\ DOMAIN raster.data = 1 .. Len(raster.data) /\ DOMAIN r.data = 1 .. Len(r.data)
      /\ Len(raster.data) \in Nat /\ Len(r.data) \in Nat
  BY DEF RasterOK, DenseType, MaskedType
<1>3. /\ DOMAIN Contents(r) = 1 .. Len(r.data)
      /\ Len(Contents(raster)) = Len(raster.data) /\ Len(Contents(r)) = Len(r.data)
  BY <1>2 DEF Contents
<1>4. Promise!Resize
  BY <1>1, <1>3 DEF Promise!Resize
<1> QED BY <1>1, <1>4 DEF Step, Promise!Next

LEMMA DenseResizeAndFill ==
    ASSUME RasterOK(raster), ~Masked(raster), ResizeAndFill
    PROVE  Step
<1>1. PICK v \in Values, n \in 1 .. MaxCells :
         Makes([op |-> "fill", v |-> v], D!resize_and_fill(raster, n, v))
  BY DEF ResizeAndFill
<1> DEFINE r == D!resize_and_fill(raster, n, v)
           data == [i \in 1 .. n |-> v]
<1>2. call'.op = "fill" /\ call'.v = v
  BY <1>1 DEF Makes, DoneAs
<1>3. r = [storage |-> "dense", type |-> raster.type, nod |-> raster.nod, data |-> data]
  <2> DEFINE grown == [i \in 1 .. n |-> IF i <= D!size(raster) THEN raster.data[i] ELSE 0]
  <2>1. r = D!fill([raster EXCEPT !.data = grown], v)
    BY DEF D!resize_and_fill, D!resize
  <2>2. DOMAIN grown = 1 .. n
    OBVIOUS
  <2> HIDE DEF r, grown
  <2>3. [raster EXCEPT !.data = grown] =
           [storage |-> "dense", type |-> raster.type, nod |-> raster.nod, data |-> grown]
    BY DenseShape
  <2> QED BY <2>1, <2>2, <2>3 DEF D!fill, D!Cells
<1>4. Makes([op |-> "fill", v |-> v], r)
  BY <1>1
<1>5. n \in Nat \ {0} /\ data \in [1 .. n -> ElementsOf(raster.type)]
  BY StorageAssumption DEF Values
<1>6. raster.type \in Types /\ raster.nod \in Number \cup {None}
  BY DenseShape
<1> HIDE DEF r, data
<1>7. RasterOK(r) /\ Len(r.data) = n /\ r.data = data /\ ~Masked(r)
  <2>1. RasterOK(r) /\ Len(r.data) = n
    BY <1>3, <1>5, <1>6, BoundedDenseOK
  <2> QED BY <1>3, <2>1 DEF Masked
<1>8. ASSUME NEW i \in 1 .. n PROVE Contents(r)[i] \in Promise!AsRead(v, call'.numbers)
  <2>1. r.data[i] = v /\ (D!is_nodata(r, i) => v \in call'.numbers)
    <3>1. r.data[i] = v
      BY <1>7 DEF data
    <3>2. InBandNumbers(r) \subseteq call'.numbers
      BY <1>4, MakesCall
    <3> QED BY <1>7, <3>1, <3>2, DenseShape
  <2> QED BY <1>7, <2>1, DenseShape DEF Promise!AsRead
<1>9. CASE n # Len(raster.data)
  BY <1>2, <1>4, <1>7, <1>8, <1>9, Resized
<1>10. CASE n = Len(raster.data)
  <2>1. DenseResult(r)
    <3>1. r.data = [i \in 1 .. Len(raster.data) |-> r.data[i]]
      BY <1>7, <1>10 DEF data
    <3> QED BY <1>3, <1>6, <3>1 DEF DenseResult
  <2>2. ASSUME NEW i \in 1 .. Len(raster.data) PROVE DenseElement(r, i)
    <3>1. \A y : Promise!Wanted(call', i, Contents(raster)[i], y) = v
      BY <1>2 DEF Promise!Wanted
    <3>2. r.data[i] = v
      BY <1>7, <1>10 DEF data
    <3> QED BY <3>1, <3>2, DenseRead, DenseAlone
  <2> QED BY <1>4, <2>1, <2>2, DenseCall
<1> QED BY <1>9, <1>10

\* A call with another raster.
LEMMA RasterCall ==
    ASSUME NEW op, NEW s, NEW r, Makes([op |-> op, s |-> s], r),
           op \in {"add_or_assign"} \cup Arithmetics
    PROVE  /\ call'.op = op /\ call'.type = r.type /\ call'.other = Contents(s)
           /\ InBandNumbers(s) \subseteq call'.numbers
<1>1. call'.op = op /\ call'.type = r.type /\ call'.other = Contents(s)
  BY DEF Makes, DoneAs, Arithmetics
<1> DEFINE inBand == UNION {InBandNumbers(x) : x \in {raster, r} \cup {s}}
<1>2. call'.numbers = inBand \cup {}
  BY DEF Makes, Arithmetics
<1>3. InBandNumbers(s) \subseteq inBand
  OBVIOUS
<1> HIDE DEF inBand
<1> QED BY <1>1, <1>2, <1>3

\* The elements that a raster is constructed with.
Given(n, type, nod, elements) ==
    /\ n \in Nat \ {0} /\ type \in Types /\ nod \in Number \cup {None}
    /\ elements = [i \in 1 .. n |-> elements[i]]
    /\ \A i \in 1 .. n : elements[i] \in Number /\ (type = "uint" => elements[i] \in Int)

\* A raster with these elements: a NaN stands for the number among them.
DenseHolds(s, n, elements) ==
    /\ RasterOK(s) /\ ~Masked(s) /\ Len(s.data) = n
    /\ \A i \in 1 .. n : s.data[i] = elements[i] \/ (s.data[i] = NaN /\ D!is_nodata(s, i))

LEMMA DenseFromData ==
    ASSUME NEW n, NEW type, NEW nod, NEW elements, Given(n, type, nod, elements)
    PROVE  DenseHolds(D!FromData(type, nod, elements), n, elements)
<1> DEFINE s == D!FromData(type, nod, elements)
           numbered == has_nan(type) /\ nod \notin {None, NaN}
           data == [i \in 1 .. n |-> IF numbered /\ elements[i] = nod THEN NaN ELSE elements[i]]
           t == D!Raster(type, nod, elements)
<1>1. s = D!init_nodata_values(t)
  BY DEF D!FromData
<1>2. t = [storage |-> "dense", type |-> type, nod |-> nod, data |-> elements]
  BY DEF D!Raster
<1>3. DOMAIN elements = 1 .. n
  BY DEF Given
<1> HIDE DEF t
<1>4. t.type = type /\ t.nod = nod /\ t.data = elements /\ D!Cells(t) = 1 .. n
  BY <1>2, <1>3 DEF D!Cells
<1> HIDE DEF s
<1>5. s = [storage |-> "dense", type |-> type, nod |-> nod, data |-> data]
  <2>1. CASE numbered
    <3>1. s = [t EXCEPT !.data = data]
      BY <1>1, <1>4, <2>1 DEF D!init_nodata_values, D!has_nan, has_nan
    <3> HIDE DEF data
    <3> QED BY <1>2, <3>1
  <2>2. CASE ~numbered
    <3>1. s = t
      BY <1>1, <1>4, <2>2 DEF D!init_nodata_values, D!has_nan, has_nan
    <3>2. elements = data
      BY <2>2 DEF Given
    <3> QED BY <1>2, <3>1, <3>2
  <2> QED BY <2>1, <2>2
<1>6. \A i \in 1 .. n : elements[i] \in Number /\ (type = "uint" => elements[i] \in Int)
  BY DEF Given
<1>7. ASSUME NEW i \in 1 .. n
      PROVE  /\ data[i] \in Number /\ (type = "uint" => data[i] \in Int)
             /\ data[i] = elements[i] \/ (data[i] = NaN /\ has_nan(type) /\ nod # None)
  BY <1>6 DEF Number, has_nan
<1>8. data = [i \in 1 .. n |-> data[i]]
  OBVIOUS
<1> HIDE DEF data
<1>9. data \in [1 .. n -> Number] /\ (type = "uint" => data \in [1 .. n -> Int])
  <2>1. \A i \in 1 .. n : data[i] \in Number /\ (type = "uint" => data[i] \in Int)
    BY <1>7
  <2> QED BY <1>8, <2>1
<1>10. n \in Nat \ {0} /\ type \in Types /\ nod \in Number \cup {None}
  BY DEF Given
<1>11. data \in Seq(Number) /\ Len(data) = n /\ (type = "uint" => data \in Seq(Int))
  BY <1>9, <1>10
<1>12. s.storage = "dense" /\ s.type = type /\ s.nod = nod /\ s.data = data
  BY <1>5
<1>13. RasterOK(s) /\ ~Masked(s)
  <2>1. s \in DenseType
    BY <1>5, <1>10, <1>11 DEF DenseType
  <2> QED BY <1>10, <1>11, <1>12, <2>1 DEF RasterOK, Masked
<1>14. ASSUME NEW i \in 1 .. n PROVE s.data[i] = elements[i] \/ (s.data[i] = NaN /\ D!is_nodata(s, i))
  BY <1>7, <1>12 DEF D!is_nodata, D!has_nan, has_nan
<1>15. DenseHolds(s, n, elements)
  BY <1>11, <1>12, <1>13, <1>14 DEF DenseHolds
<1> QED BY <1>15 DEF s

LEMMA DenseOther ==
    ASSUME RasterOK(raster), ~Masked(raster), NEW s \in Others
    PROVE  /\ RasterOK(s) /\ ~Masked(s) /\ Len(s.data) = Len(raster.data)
           /\ \A i \in 1 .. Len(raster.data) :
                 s.data[i] \in 0 .. 2 \/ (s.data[i] = NaN /\ D!is_nodata(s, i))
<1>0. PICK type \in Types : \E nod \in NumbersOf(type), k \in 0 .. 2 :
         s = FromData(raster.storage, type, nod, [i \in DOMAIN raster.data |-> (i + k) % 3])
  BY DEF Others, Types
<1>1. PICK nod \in NumbersOf(type), k \in 0 .. 2 :
         s = FromData(raster.storage, type, nod, [i \in DOMAIN raster.data |-> (i + k) % 3])
  BY <1>0
<1> DEFINE n == Len(raster.data)
           elements == [i \in 1 .. n |-> (i + k) % 3]
<1>2. n \in Nat \ {0} /\ DOMAIN raster.data = 1 .. n /\ nod \in Number \cup {None}
  BY DenseShape, NumbersTyped
<1>3. s = D!FromData(type, nod, elements)
  BY <1>1, <1>2 DEF FromData, Masked
<1>4. \A i \in 1 .. n : elements[i] \in 0 .. 2
  BY <1>2
<1>5. elements = [i \in 1 .. n |-> elements[i]]
  OBVIOUS
<1> HIDE DEF elements
<1>6. \A i \in 1 .. n : elements[i] \in Number /\ (type = "uint" => elements[i] \in Int)
  BY <1>4 DEF Number
<1>7. DenseHolds(s, n, elements)
  <2>1. Given(n, type, nod, elements)
    BY <1>2, <1>5, <1>6 DEF Given
  <2> HIDE DEF n
  <2> QED BY <1>3, <2>1, DenseFromData
<1> QED BY <1>4, <1>7 DEF DenseHolds

LEMMA DenseAddOrAssign ==
    ASSUME RasterOK(raster), ~Masked(raster), AddOrAssign
    PROVE  Step
<1>1. PICK s \in CastOthers : Makes([op |-> "add_or_assign", s |-> s], D!add_or_assign(raster, s))
  BY DEF AddOrAssign
<1> DEFINE r == D!add_or_assign(raster, s)
           floats == has_nan(raster.type) /\ has_nan(s.type)
           missing(t, i) == IF floats THEN t.data[i] = NaN ELSE D!is_nodata(t, i)
<1>2. r = [storage |-> "dense", type |-> raster.type, nod |-> raster.nod,
           data |-> [i \in 1 .. Len(raster.data) |->
                        IF missing(s, i) THEN raster.data[i]
                        ELSE Compute(raster.type, "plus",
                                     IF missing(raster, i) THEN 0 ELSE raster.data[i], s.data[i])]]
  BY DenseShape, SameElements DEF D!add_or_assign, D!Cells
<1>3. Makes([op |-> "add_or_assign", s |-> s], r)
  BY <1>1
<1>4. /\ RasterOK(s) /\ ~Masked(s) /\ Len(s.data) = Len(raster.data)
      /\ \A i \in 1 .. Len(raster.data) :
            s.data[i] \in 0 .. 2 \/ (s.data[i] = NaN /\ D!is_nodata(s, i))
  BY DenseOther DEF CastOthers
<1> HIDE DEF r
<1>5. DenseResult(r)
  BY <1>2, DenseShape DEF DenseResult
<1>6. /\ call'.op = "add_or_assign" /\ call'.type = raster.type /\ call'.other = Contents(s)
      /\ InBandNumbers(raster) \cup InBandNumbers(s) \subseteq call'.numbers
  BY <1>2, <1>3, RasterCall, MakesCall
<1>7. ASSUME NEW t \in {raster, s}, NEW i \in 1 .. Len(raster.data)
      PROVE  IF missing(t, i) THEN None \in Promise!AsRead(Contents(t)[i], call'.numbers)
             ELSE Contents(t)[i] = t.data[i]
  <2>1. RasterOK(t) /\ ~Masked(t) /\ i \in 1 .. Len(t.data)
    BY <1>4
  <2>2. Contents(t)[i] = IF D!is_nodata(t, i) THEN None ELSE t.data[i]
    BY <2>1, DenseShape
  <2>3. CASE missing(t, i)
    <3>1. D!is_nodata(t, i) \/ (t.data[i] = NaN /\ NaN \in InBandNumbers(t))
      BY <2>1, <2>3, ElementsAssumption DEF InBandNumbers
    <3> QED BY <1>6, <2>2, <2>3, <3>1 DEF Promise!AsRead
  <2>4. CASE ~missing(t, i)
    <3>1. ~D!is_nodata(t, i)
      BY <2>4 DEF D!is_nodata, D!has_nan, has_nan
    <3> QED BY <2>2, <2>4, <3>1
  <2> QED BY <2>3, <2>4
<1> HIDE DEF missing, floats
<1>8. ASSUME NEW i \in 1 .. Len(raster.data) PROVE DenseElement(r, i)
  <2> DEFINE x == IF missing(raster, i) THEN None ELSE raster.data[i]
             y == IF missing(s, i) THEN None ELSE s.data[i]
  <2>1. /\ x \in Promise!AsRead(Contents(raster)[i], call'.numbers)
        /\ y \in Promise!AsRead(call'.other[i], call'.numbers)
    BY <1>6, <1>7 DEF Promise!AsRead
  <2>2. raster.data[i] # None /\ s.data[i] # None
    BY <1>4, DenseShape
  <2>3. \A z : Promise!Wanted(call', i, z, y) =
                 IF y = None THEN z
                 ELSE IF z = None THEN y ELSE Compute(raster.type, "plus", z, y)
    BY <1>6, SameElements DEF Promise!Wanted
  <2>4. CASE missing(s, i)
    <3>1. Promise!Wanted(call', i, Contents(raster)[i], y) = Contents(raster)[i]
      BY <2>3, <2>4
    <3>2. Contents(raster)[i] = IF D!is_nodata(r, i) THEN None ELSE r.data[i]
      BY <1>2, <2>4, DenseSame
    <3> QED BY <2>1, <3>1, <3>2, DenseRead DEF DenseElement
  <2>5. CASE ~missing(s, i)
    <3>1. s.data[i] \in 0 .. 2 \/ missing(s, i)
      BY <1>4 DEF missing
    <3>2. Compute(raster.type, "plus", 0, s.data[i]) = s.data[i]
      BY <2>5, <3>1, StorageAssumption, ElementsAssumption DEF Compute
    <3>3. Promise!Wanted(call', i, x, y) = r.data[i]
      BY <1>2, <2>2, <2>3, <2>5, <3>2
    <3> QED BY <2>1, <3>3 DEF DenseElement
  <2> QED BY <2>4, <2>5
<1> QED BY <1>3, <1>5, <1>8, DenseCall

\* The number that a raster takes before it is changed by another one.
DenseNumber(s, op) ==
    LET taken == D!assign_nodata_value(raster.nod, raster.type, raster.nod, s.nod)
    IN  IF op = "divides" /\ taken = None THEN nodata_for_type(raster.type) ELSE taken

LEMMA DenseNumberTaken ==
    ASSUME RasterOK(raster), ~Masked(raster), NEW s, RasterOK(s), ~Masked(s), NEW op
    PROVE  /\ DenseNumber(s, op) \in Number \cup {None}
           /\ raster.nod # None => DenseNumber(s, op) = raster.nod
           /\ DenseNumber(s, op) = None => raster.nod = None /\ s.nod = None /\ op # "divides"
<1>1. nodata_for_type(raster.type) \in Number /\ nodata_for_type(raster.type) # None
  BY ElementsAssumption DEF nodata_for_type, Number
<1>2. D!nodata_for_type(raster.type) = nodata_for_type(raster.type)
  BY DEF D!nodata_for_type, nodata_for_type, D!has_nan, has_nan
<1>3. raster.nod \in Number \cup {None} /\ s.nod \in Number \cup {None}
  BY DenseShape
<1> DEFINE taken == D!assign_nodata_value(raster.nod, raster.type, raster.nod, s.nod)
<1>4. /\ taken \in Number \cup {None}
      /\ raster.nod # None => taken = raster.nod
      /\ taken = None => raster.nod = None /\ s.nod = None
  BY <1>1, <1>2, <1>3 DEF D!assign_nodata_value, D!find_best_nodata_value
<1> HIDE DEF taken
<1> QED BY <1>1, <1>4 DEF DenseNumber, taken

LEMMA DenseRasterInPlace ==
    ASSUME RasterOK(raster), ~Masked(raster), RasterInPlace
    PROVE  Step
<1>0. PICK s \in CastOthers, op \in Arithmetics : Makes([op |-> op, s |-> s], D!InPlace(raster, s, op))
  BY DEF RasterInPlace
<1> DEFINE r == D!InPlace(raster, s, op)
           n == Len(raster.data)
           nod == DenseNumber(s, op)
           t == D!set_nodata(raster, nod)
           floats == has_nan(raster.type) /\ has_nan(s.type)
           numbered == ~has_nan(raster.type) /\ ~has_nan(s.type) /\ nod # None /\ s.nod # None
           element(i) == IF floats THEN D!FloatElement(op, raster.data[i], s.data[i])
                         ELSE IF numbered
                              THEN D!IntElement(raster.type, op, nod, nod, s.nod, raster.data[i], s.data[i])
                              ELSE D!FallbackElement(t, s, i, raster.type, op, nod)
<1>1. /\ RasterOK(s) /\ ~Masked(s) /\ Len(s.data) = n
      /\ \A i \in 1 .. n : s.data[i] \in 0 .. 2 \/ (s.data[i] = NaN /\ D!is_nodata(s, i))
  BY DenseOther DEF CastOthers
<1>2. /\ nod \in Number \cup {None}
      /\ raster.nod # None => nod = raster.nod
      /\ nod = None => raster.nod = None /\ s.nod = None /\ op # "divides"
  BY <1>1, DenseNumberTaken
<1>3. t = [storage |-> "dense", type |-> raster.type, nod |-> nod, data |-> raster.data]
  BY DenseShape DEF D!set_nodata
<1>4. r = D!raster_operation(t, s, raster.type, op, nod)
  BY DEF D!InPlace, DenseNumber, D!nodata_for_type, nodata_for_type, D!has_nan, has_nan
<1> HIDE DEF t, nod
<1>5. r = [storage |-> "dense", type |-> raster.type, nod |-> nod,
           data |-> [i \in 1 .. n |-> element(i)]]
  <2> DEFINE data == [i \in 1 .. n |-> element(i)]
             made == [i \in D!Cells(t) |->
                        CASE D!has_nan(t.type) /\ D!has_nan(s.type)
                                -> D!FloatElement(op, t.data[i], s.data[i])
                          [] ~D!has_nan(t.type) /\ ~D!has_nan(s.type) /\ t.nod # None /\ s.nod # None
                                -> D!IntElement(raster.type, op,
                                                IF D!has_nan(raster.type) THEN NaN ELSE nod,
                                                t.nod, s.nod, t.data[i], s.data[i])
                          [] OTHER -> D!FallbackElement(t, s, i, raster.type, op, nod)]
  <2>1. r = [storage |-> "dense", type |-> raster.type, nod |-> nod, data |-> made]
    BY <1>4 DEF D!raster_operation, D!Raster
  <2>2. D!Cells(t) = 1 .. n
    BY <1>3, DenseShape DEF D!Cells
  <2>3. ASSUME NEW i \in 1 .. n PROVE made[i] = element(i)
    <3>1. t.type = raster.type /\ t.nod = nod /\ t.data[i] = raster.data[i]
      BY <1>3
    <3>2. CASE floats
      BY <2>2, <3>1, <3>2 DEF D!has_nan, has_nan
    <3>3. CASE numbered
      BY <2>2, <3>1, <3>3 DEF D!has_nan, has_nan
    <3>4. CASE ~floats /\ ~numbered
      BY <2>2, <3>1, <3>4 DEF D!has_nan, has_nan
    <3> QED BY <3>2, <3>3, <3>4
  <2> HIDE DEF r, element
  <2>4. made = data
    BY <2>2, <2>3
  <2> QED BY <2>1, <2>4
<1>6. Makes([op |-> op, s |-> s], r)
  BY <1>0
<1> HIDE DEF r
<1>7. DenseResult(r)
  <2> HIDE DEF element
  <2> QED BY <1>2, <1>5, DenseShape DEF DenseResult
<1>8. /\ call'.op = op /\ call'.type = raster.type /\ call'.other = Contents(s)
      /\ InBandNumbers(raster) \cup InBandNumbers(r) \cup InBandNumbers(s) \subseteq call'.numbers
  <2>1. r.type = raster.type
    BY <1>5
  <2> QED BY <1>6, <2>1, RasterCall, MakesCall
<1>9. ASSUME NEW i \in 1 .. n PROVE DenseElement(r, i)
  <2> DEFINE x == raster.data[i]
             y == s.data[i]
             byZero == op = "divides" /\ y = 0
  <2>1. \A a, b : Promise!Wanted(call', i, a, b) =
                    IF a = None \/ b = None \/ (op = "divides" /\ b = 0) THEN None
                    ELSE Compute(raster.type, op, a, b)
    BY <1>8, SameElements DEF Promise!Wanted, Promise!Arithmetic, Arithmetics
  <2>2. /\ Contents(raster)[i] = IF D!is_nodata(raster, i) THEN None ELSE x
        /\ call'.other[i] = IF D!is_nodata(s, i) THEN None ELSE y
        /\ x # None /\ y # None /\ (raster.type = "uint" => x # NaN) /\ (s.type = "uint" => y # NaN)
    BY <1>1, <1>8, DenseShape
  <2>3. ASSUME D!is_nodata(r, i),
               \/ D!is_nodata(raster, i) \/ x \in call'.numbers
               \/ D!is_nodata(s, i) \/ y \in call'.numbers
               \/ byZero
        PROVE  DenseElement(r, i)
    <3>1. CASE D!is_nodata(raster, i) \/ x \in call'.numbers
      <4>1. None \in Promise!AsRead(Contents(raster)[i], call'.numbers)
        BY <2>2, <3>1 DEF Promise!AsRead
      <4> QED BY <2>1, <2>3, <4>1, OtherRead DEF DenseElement
    <3>2. CASE D!is_nodata(s, i) \/ y \in call'.numbers
      <4>1. None \in Promise!AsRead(call'.other[i], call'.numbers)
        BY <2>2, <3>2 DEF Promise!AsRead
      <4> QED BY <2>1, <2>3, <4>1, DenseRead DEF DenseElement
    <3>3. CASE byZero
      BY <2>1, <2>2, <2>3, <3>3, DenseRead, OtherRead DEF DenseElement
    <3> QED BY <2>3, <3>1, <3>2, <3>3
  <2>4. ASSUME ~D!is_nodata(raster, i), ~D!is_nodata(s, i), ~byZero,
               r.data[i] = Compute(raster.type, op, x, y)
        PROVE  DenseElement(r, i)
    BY <2>1, <2>2, <2>4, DenseRead, OtherRead DEF DenseElement
  <2>5. r.data[i] = element(i) /\ r.type = raster.type /\ r.nod = nod
    <3> HIDE DEF element
    <3> QED BY <1>5
  <2>6. CASE floats
    <3>1. r.data[i] = IF byZero THEN NaN ELSE Compute(raster.type, op, x, y)
      BY <2>5, <2>6, SameElements DEF D!FloatElement, has_nan
    <3>2. CASE nod # None /\ (NaN \in {x, y} \/ byZero)
      <4>1. r.data[i] = NaN
        BY <3>1, <3>2 DEF Compute
      <4>2. D!is_nodata(r, i)
        BY <2>5, <2>6, <3>2, <4>1 DEF D!is_nodata, D!has_nan, has_nan
      <4>3. NaN \in call'.numbers
        BY <1>8, <2>6, ElementsAssumption DEF InBandNumbers
      <4> QED BY <2>3, <3>2, <4>2, <4>3
    <3>3. CASE ~(nod # None /\ (NaN \in {x, y} \/ byZero))
      <4>1. ~D!is_nodata(raster, i) /\ ~D!is_nodata(s, i) /\ ~byZero
        BY <1>2, <2>6, <3>3 DEF D!is_nodata, D!has_nan, has_nan
      <4> QED BY <2>4, <3>1, <4>1
    <3> QED BY <3>2, <3>3
  <2>7. CASE numbered
    <3>1. r.data[i] = IF x = nod \/ y = s.nod \/ byZero THEN nod ELSE Compute(raster.type, op, x, y)
      BY <2>5, <2>7, SameElements DEF D!IntElement
    <3>2. CASE x = nod \/ y = s.nod \/ byZero
      <4>1. D!is_nodata(r, i)
        BY <2>5, <2>7, <3>1, <3>2 DEF D!is_nodata, D!has_nan, has_nan
      <4>2. x = nod => x \in call'.numbers
        BY <1>7, <1>8, <2>5, <2>7 DEF InBandNumbers, DenseResult, Masked
      <4>3. y = s.nod => D!is_nodata(s, i)
        BY <2>7 DEF D!is_nodata, D!has_nan, has_nan
      <4> QED BY <2>3, <3>2, <4>1, <4>2, <4>3
    <3>3. CASE ~(x = nod \/ y = s.nod \/ byZero)
      <4>1. ~D!is_nodata(raster, i) /\ ~D!is_nodata(s, i) /\ ~byZero
        BY <1>2, <2>7, <3>3 DEF D!is_nodata, D!has_nan, has_nan
      <4> QED BY <2>4, <3>1, <3>3, <4>1
    <3> QED BY <3>2, <3>3
  <2>8. CASE ~floats /\ ~numbered
    <3> DEFINE skips == nod # None /\ (D!is_nodata(t, i) \/ D!is_nodata(s, i) \/ byZero)
    <3>1. r.data[i] = IF skips THEN IF has_nan(raster.type) THEN NaN ELSE nod
                      ELSE Compute(raster.type, op, x, y)
      BY <1>3, <2>5, <2>8, SameElements DEF D!FallbackElement, D!has_nan, has_nan
    <3>2. D!is_nodata(t, i) <=> nod # None /\ x = IF has_nan(raster.type) THEN NaN ELSE nod
      BY <1>3 DEF D!is_nodata, D!has_nan, has_nan
    <3>3. CASE skips
      <4>1. D!is_nodata(r, i)
        BY <2>5, <3>1, <3>3 DEF D!is_nodata, D!has_nan, has_nan
      <4>2. D!is_nodata(t, i) => x \in call'.numbers
        BY <1>7, <1>8, <2>5, <3>2, ElementsAssumption DEF InBandNumbers, DenseResult, Masked
      <4> QED BY <2>3, <3>3, <4>1, <4>2
    <3>4. CASE ~skips
      <4>1. ~D!is_nodata(raster, i) /\ ~D!is_nodata(s, i) /\ ~byZero
        BY <1>2, <3>2, <3>4 DEF D!is_nodata, D!has_nan, has_nan
      <4> QED BY <2>4, <3>1, <3>4, <4>1
    <3> QED BY <3>3, <3>4
  <2> QED BY <2>6, <2>7, <2>8
<1> QED BY <1>6, <1>7, <1>9, DenseCall

-----------------------------------------------------------------------------
(* Masked rasters *)

LEMMA MaskedShape ==
    ASSUME NEW r, RasterOK(r), Masked(r)
    PROVE  /\ r = [storage |-> "masked", type |-> r.type, nod |-> r.nod, data |-> r.data,
                   mask |-> r.mask]
           /\ r.type \in Types /\ r.nod \in Number \cup {None}
           /\ Len(r.data) \in Nat \ {0} /\ DOMAIN r.data = 1 .. Len(r.data)
           /\ r.data = [i \in 1 .. Len(r.data) |-> r.data[i]]
           /\ r.mask \in {<<>>} \cup [1 .. Len(r.data) -> BOOLEAN]
           /\ \A i \in 1 .. Len(r.data) :
                 /\ r.data[i] \in Number /\ r.data[i] # None
                 /\ r.type = "uint" => r.data[i] # NaN
                 /\ Contents(r)[i] = IF M!is_nodata(r, i) THEN None ELSE r.data[i]
<1>1. r \in MaskedType
  BY DEF RasterOK, Masked, DenseType
<1>2. /\ r = [storage |-> "masked", type |-> r.type, nod |-> r.nod, data |-> r.data,
              mask |-> r.mask]
      /\ r.type \in Types /\ r.nod \in Number \cup {None} /\ r.data \in Seq(Number)
      /\ r.mask \in Seq(BOOLEAN)
  BY <1>1 DEF MaskedType
<1>3. /\ Len(r.data) \in Nat \ {0} /\ DOMAIN r.data = 1 .. Len(r.data)
      /\ r.data = [i \in 1 .. Len(r.data) |-> r.data[i]]
  BY <1>2 DEF RasterOK
<1>4. r.mask \in {<<>>} \cup [1 .. Len(r.data) -> BOOLEAN]
  BY <1>2 DEF RasterOK
<1>5. ASSUME NEW i \in 1 .. Len(r.data)
      PROVE  /\ r.data[i] \in Number /\ r.data[i] # None
             /\ r.type = "uint" => r.data[i] # NaN
  BY <1>2, ElementsAssumption DEF RasterOK, Number
<1>6. ASSUME NEW i \in 1 .. Len(r.data)
      PROVE  Contents(r)[i] = IF M!is_nodata(r, i) THEN None ELSE r.data[i]
  BY <1>3 DEF Contents, IsNodata
<1> QED BY <1>2, <1>3, <1>4, <1>5, <1>6

\* No mask is not the mask of a raster with cells.
LEMMA MaskOrNone ==
    ASSUME NEW n \in Nat \ {0}, NEW bits \in [1 .. n -> BOOLEAN]
    PROVE  bits # <<>>
BY DOMAIN bits = 1 .. n, 1 \in 1 .. n, DOMAIN <<>> = {}

\* What remains to be shown of an element: what is wanted is there.
MaskedElement(r, i) ==
    \E y \in Promise!AsRead(call'.other[i], call'.numbers) :
       Contents(r)[i] \in Promise!AsRead(Promise!Wanted(call', i, Contents(raster)[i], y),
                                         call'.numbers)

\* The other raster plays no part.
LEMMA MaskedAlone ==
    ASSUME NEW i, NEW r,
           \A y : Contents(r)[i] \in
                     Promise!AsRead(Promise!Wanted(call', i, Contents(raster)[i], y), call'.numbers)
    PROVE  MaskedElement(r, i)
BY OtherRead DEF MaskedElement

\* Most calls leave what is wanted, not what may be read for it.
LEMMA MaskedExact ==
    ASSUME NEW i, NEW r, \A y : Promise!Wanted(call', i, Contents(raster)[i], y) = Contents(r)[i]
    PROVE  MaskedElement(r, i)
BY MaskedAlone DEF Promise!AsRead

\* A masked raster of n cells.
MaskedOf(r, n) ==
    /\ r = [storage |-> "masked", type |-> r.type, nod |-> r.nod, data |-> r.data,
            mask |-> r.mask]
    /\ r.type \in Types /\ r.nod \in Number \cup {None}
    /\ r.data = [i \in 1 .. n |-> r.data[i]]
    /\ r.mask \in {<<>>} \cup [1 .. n -> BOOLEAN]

LEMMA MaskedContents ==
    ASSUME NEW n, NEW r, MaskedOf(r, n), NEW i \in 1 .. n
    PROVE  Contents(r)[i] = IF r.mask # <<>> /\ r.mask[i] THEN None ELSE r.data[i]
<1>1. Masked(r) /\ DOMAIN r.data = 1 .. n
  BY DEF MaskedOf, Masked
<1> QED BY <1>1 DEF Contents, IsNodata, M!is_nodata, M!has_nodata, M!NoMask

LEMMA MaskedMade ==
    ASSUME NEW c, NEW r, Makes(c, r), NEW n \in Nat \ {0}, MaskedOf(r, n)
    PROVE  RasterOK(r) /\ Len(r.data) = n
<1>1. Bounded(r)
  BY MakesCall
<1>2. r.data \in [1 .. n -> ElementsOf(r.type)]
  BY <1>1 DEF Bounded, MaskedOf
<1> QED BY <1>2, BoundedMaskedOK DEF MaskedOf

\* Of a call that keeps the size of a masked raster the elements remain to be
\* looked at.
LEMMA MaskedCall ==
    ASSUME RasterOK(raster), Masked(raster), NEW c, NEW r, Makes(c, r),
           MaskedOf(r, Len(raster.data)),
           \A i \in 1 .. Len(raster.data) : MaskedElement(r, i)
    PROVE  Step
<1>1. Len(raster.data) \in Nat \ {0}
  BY MaskedShape
<1>2. RasterOK(r) /\ Len(r.data) = Len(raster.data)
  BY <1>1, MaskedMade
<1>3. ASSUME NEW i \in 1 .. Len(raster.data)
      PROVE  Promise!Kept(call', i, Contents(raster)[i], Contents(r)[i])
  <2>1. Contents(raster)[i] \in Promise!AsRead(Contents(raster)[i], call'.numbers)
    BY DEF Promise!AsRead
  <2> QED BY <2>1 DEF MaskedElement, Promise!Kept
<1> QED BY <1>2, <1>3, CallKept

LEMMA PresentMasked ==
    ASSUME RasterOK(raster), Masked(raster)
    PROVE  MaskedOf(raster, Len(raster.data)) /\ Len(raster.data) \in Nat \ {0}
BY MaskedShape DEF MaskedOf

\* A raster made from another one by other elements, number and mask.
LEMMA MaskedOther ==
    ASSUME NEW n, NEW t, MaskedOf(t, n), NEW data
    PROVE  [t EXCEPT !.data = data] =
              [storage |-> "masked", type |-> t.type, nod |-> t.nod, data |-> data, mask |-> t.mask]
BY DEF MaskedOf

LEMMA MaskedMarked ==
    ASSUME NEW n, NEW t, MaskedOf(t, n), NEW bits
    PROVE  [t EXCEPT !.mask = bits] =
              [storage |-> "masked", type |-> t.type, nod |-> t.nod, data |-> t.data, mask |-> bits]
<1>1. t = [storage |-> "masked", type |-> t.type, nod |-> t.nod, data |-> t.data, mask |-> t.mask]
  BY DEF MaskedOf
<1> QED BY <1>1

LEMMA MaskedUpdated ==
    ASSUME NEW n, NEW t, MaskedOf(t, n), NEW data, NEW bits
    PROVE  /\ [t EXCEPT !.data = data, !.mask = bits] =
                 [storage |-> "masked", type |-> t.type, nod |-> t.nod, data |-> data,
                  mask |-> bits]
           /\ [t EXCEPT !.mask = bits, !.data = data] =
                 [storage |-> "masked", type |-> t.type, nod |-> t.nod, data |-> data,
                  mask |-> bits]
<1> DEFINE u == [t EXCEPT !.data = data]
           w == [t EXCEPT !.mask = bits]
<1>1. /\ [t EXCEPT !.data = data, !.mask = bits] = [u EXCEPT !.mask = bits]
      /\ [t EXCEPT !.mask = bits, !.data = data] = [w EXCEPT !.data = data]
  BY Zenon
<1>2. u = [storage |-> "masked", type |-> t.type, nod |-> t.nod, data |-> data, mask |-> t.mask]
  BY MaskedOther
<1>3. w = [storage |-> "masked", type |-> t.type, nod |-> t.nod, data |-> t.data, mask |-> bits]
  BY MaskedMarked
<1> HIDE DEF u, w
<1>4. [u EXCEPT !.mask = bits] =
         [storage |-> "masked", type |-> t.type, nod |-> t.nod, data |-> data, mask |-> bits]
  BY <1>2
<1>5. [w EXCEPT !.data = data] =
         [storage |-> "masked", type |-> t.type, nod |-> t.nod, data |-> data, mask |-> bits]
  BY <1>3
<1> QED BY <1>1, <1>4, <1>5, Zenon

LEMMA MaskedRenumbered ==
    ASSUME NEW n, NEW t, MaskedOf(t, n), NEW data, NEW nod
    PROVE  /\ [t EXCEPT !.nod = nod] =
                 [storage |-> "masked", type |-> t.type, nod |-> nod, data |-> t.data,
                  mask |-> t.mask]
           /\ [t EXCEPT !.nod = nod, !.data = data] =
                 [storage |-> "masked", type |-> t.type, nod |-> nod, data |-> data,
                  mask |-> t.mask]
<1> DEFINE u == [t EXCEPT !.nod = nod]
<1>1. [t EXCEPT !.nod = nod, !.data = data] = [u EXCEPT !.data = data]
  BY Zenon
<1>2. u = [storage |-> "masked", type |-> t.type, nod |-> nod, data |-> t.data, mask |-> t.mask]
  <2>1. t = [storage |-> "masked", type |-> t.type, nod |-> t.nod, data |-> t.data, mask |-> t.mask]
    BY DEF MaskedOf
  <2> QED BY <2>1
<1> HIDE DEF u
<1>3. [u EXCEPT !.data = data] =
         [storage |-> "masked", type |-> t.type, nod |-> nod, data |-> data, mask |-> t.mask]
  BY <1>2
<1>4. [t EXCEPT !.nod = nod, !.data = data] =
         [storage |-> "masked", type |-> t.type, nod |-> nod, data |-> data, mask |-> t.mask]
  BY <1>1, <1>3, Zenon
<1> QED BY <1>2, <1>4 DEF u

LEMMA MaskedFilled ==
    ASSUME NEW n, NEW t, MaskedOf(t, n), NEW v
    PROVE  M!fill(t, v) =
              [storage |-> "masked", type |-> t.type, nod |-> t.nod, data |-> [i \in 1 .. n |-> v],
               mask |-> IF t.nod = None THEN t.mask
                        ELSE IF v = t.nod THEN [i \in 1 .. n |-> TRUE] ELSE <<>>]
<1> DEFINE data == M!All(t, v)
           bits == IF t.nod = None THEN t.mask ELSE IF v = t.nod THEN M!All(t, TRUE) ELSE <<>>
<1>1. M!fill(t, v) = [t EXCEPT !.data = data, !.mask = bits]
  <2>1. CASE t.nod = None
    BY <2>1 DEF M!fill, M!NoMask
  <2>2. CASE t.nod # None /\ v = t.nod
    BY <2>2 DEF M!fill, M!NoMask
  <2>3. CASE t.nod # None /\ v # t.nod
    BY <2>3 DEF M!fill, M!NoMask
  <2> QED BY <2>1, <2>2, <2>3
<1>2. M!fill(t, v) =
         [storage |-> "masked", type |-> t.type, nod |-> t.nod, data |-> data, mask |-> bits]
  <2> HIDE DEF data, bits
  <2> QED BY <1>1, MaskedUpdated
<1>3. DOMAIN t.data = 1 .. n
  BY DEF MaskedOf
<1> QED BY <1>2, <1>3 DEF M!All, M!Cells

\* What a fill leaves in a cell: its value, or nothing where the value is the
\* number of the raster or a mask has no number.
LEMMA MaskedFillKept ==
    ASSUME NEW n \in Nat \ {0}, NEW t, MaskedOf(t, n), NEW v, v \in Number, NEW r, r = M!fill(t, v),
           {r.nod} \ {None} \subseteq call'.numbers
    PROVE  /\ MaskedOf(r, n)
           /\ \A i \in 1 .. n :
                 IF t.nod = None
                 THEN Contents(r)[i] = IF t.mask # <<>> /\ t.mask[i] THEN None ELSE v
                 ELSE Contents(r)[i] \in Promise!AsRead(v, call'.numbers)
<1> DEFINE bits == IF t.nod = None THEN t.mask
                   ELSE IF v = t.nod THEN [i \in 1 .. n |-> TRUE] ELSE <<>>
           data == [i \in 1 .. n |-> v]
<1>1. r = [storage |-> "masked", type |-> t.type, nod |-> t.nod, data |-> data, mask |-> bits]
  BY MaskedFilled
<1>2. bits \in {<<>>} \cup [1 .. n -> BOOLEAN]
  BY DEF MaskedOf
<1>3. data = [i \in 1 .. n |-> data[i]]
  OBVIOUS
<1> HIDE DEF bits, data
<1>4. MaskedOf(r, n)
  BY <1>1, <1>2, <1>3 DEF MaskedOf
<1>5. ASSUME NEW i \in 1 .. n
      PROVE  IF t.nod = None
             THEN Contents(r)[i] = IF t.mask # <<>> /\ t.mask[i] THEN None ELSE v
             ELSE Contents(r)[i] \in Promise!AsRead(v, call'.numbers)
  <2>1. Contents(r)[i] = IF bits # <<>> /\ bits[i] THEN None ELSE v
    <3>1. r.mask = bits /\ r.data[i] = v
      BY <1>1 DEF data
    <3> QED BY <1>4, <3>1, MaskedContents
  <2>2. CASE t.nod = None
    BY <2>1, <2>2 DEF bits
  <2>3. CASE t.nod # None /\ v = t.nod
    <3>1. v \in call'.numbers
      BY <1>1, <2>3
    <3> QED BY <2>1, <2>3, <3>1 DEF Promise!AsRead
  <2>4. CASE t.nod # None /\ v # t.nod
    BY <2>1, <2>4 DEF bits, Promise!AsRead
  <2> QED BY <2>2, <2>3, <2>4
<1> QED BY <1>4, <1>5

LEMMA MaskedFillCall ==
    ASSUME Masked(raster), NEW v, NEW r, Makes([op |-> "fill", v |-> v], r)
    PROVE  /\ call'.op = IF raster.nod = None /\ raster.mask # <<>> THEN "fill_values" ELSE "fill"
           /\ call'.v = v /\ {r.nod} \ {None} \subseteq call'.numbers
<1>1. call'.v = v
  BY DEF Makes, DoneAs
<1>2. {r.nod, NaN} \ {None} \subseteq call'.numbers
  BY MakesCall
<1>3. call'.op = DoneAs(raster, [op |-> "fill", v |-> v])
  BY DEF Makes
<1>4. call'.op = IF raster.nod = None /\ raster.mask # <<>> THEN "fill_values" ELSE "fill"
  BY <1>3 DEF DoneAs, M!has_nodata, M!NoMask
<1> QED BY <1>1, <1>2, <1>4

LEMMA ValuesTyped ==
    ASSUME raster.type \in Types
    PROVE  \A v \in Values : v \in Number /\ v # None
BY ElementsTyped, ElementsAssumption DEF Values, Number

LEMMA MaskedFill ==
    ASSUME RasterOK(raster), Masked(raster), Fill
    PROVE  Step
<1>1. PICK v \in Values : Makes([op |-> "fill", v |-> v], M!fill(raster, v))
  BY DEF Fill
<1> DEFINE r == M!fill(raster, v)
           n == Len(raster.data)
<1>2. Makes([op |-> "fill", v |-> v], r)
  BY <1>1
<1>3. v \in Number
  BY ValuesTyped, MaskedShape
<1>4. /\ call'.op = IF raster.nod = None /\ raster.mask # <<>> THEN "fill_values" ELSE "fill"
      /\ call'.v = v /\ {r.nod} \ {None} \subseteq call'.numbers
  BY <1>2, MaskedFillCall
<1>5. /\ MaskedOf(r, n)
      /\ \A i \in 1 .. n :
            IF raster.nod = None
            THEN Contents(r)[i] = IF raster.mask # <<>> /\ raster.mask[i] THEN None ELSE v
            ELSE Contents(r)[i] \in Promise!AsRead(v, call'.numbers)
  BY <1>3, <1>4, PresentMasked, MaskedFillKept
<1> HIDE DEF r
<1>6. ASSUME NEW i \in 1 .. n PROVE MaskedElement(r, i)
  <2> DEFINE x == Contents(raster)[i]
  <2>1. x = IF raster.mask # <<>> /\ raster.mask[i] THEN None ELSE raster.data[i]
    BY PresentMasked, MaskedContents
  <2>2. \A y : Promise!Wanted(call', i, x, y) =
                 IF raster.nod = None /\ raster.mask # <<>>
                 THEN IF x = None THEN None ELSE v ELSE v
    BY <1>4 DEF Promise!Wanted
  <2>3. CASE raster.nod = None
    <3>1. raster.data[i] # None
      BY MaskedShape
    <3>2. Contents(r)[i] = IF raster.mask # <<>> /\ x = None THEN None ELSE v
      BY <1>5, <2>1, <2>3, <3>1
    <3> QED BY <2>2, <2>3, <3>2, MaskedExact
  <2>4. CASE raster.nod # None
    BY <1>5, <2>2, <2>4, MaskedAlone
  <2> QED BY <2>3, <2>4
<1> QED BY <1>2, <1>5, <1>6, MaskedCall

LEMMA MaskedResizeAndFill ==
    ASSUME RasterOK(raster), Masked(raster), ResizeAndFill
    PROVE  Step
<1> DEFINE before == Len(raster.data)
<1>1. PICK v \in Values, n \in 1 .. MaxCells : \E r0 \in M!resize_and_fill(raster, n, v) :
         Makes([op |-> "fill", v |-> v], r0)
  BY DEF ResizeAndFill
<1>2. PICK bits \in IF raster.mask = <<>> \/ n = before THEN {raster.mask} ELSE [1 .. n -> BOOLEAN] :
         Makes([op |-> "fill", v |-> v],
               M!fill([raster EXCEPT !.data = [i \in 1 .. n |-> v], !.mask = bits], v))
  BY <1>1 DEF M!resize_and_fill, M!size, M!NoMask
<1> DEFINE t == [raster EXCEPT !.data = [i \in 1 .. n |-> v], !.mask = bits]
           r == M!fill(t, v)
<1>3. n \in Nat \ {0} /\ v \in Number
  <2>1. n \in Nat \ {0}
    BY StorageAssumption
  <2>2. v \in Number
    BY ValuesTyped, MaskedShape
  <2> QED BY <2>1, <2>2
<1>4. t = [storage |-> "masked", type |-> raster.type, nod |-> raster.nod,
           data |-> [i \in 1 .. n |-> v], mask |-> bits]
  <2> DEFINE data == [i \in 1 .. n |-> v]
  <2> HIDE DEF data
  <2>1. [raster EXCEPT !.data = data, !.mask = bits] =
           [storage |-> "masked", type |-> raster.type, nod |-> raster.nod, data |-> data,
            mask |-> bits]
    BY PresentMasked, MaskedUpdated
  <2> QED BY <2>1 DEF data
<1>5. bits \in {<<>>} \cup [1 .. n -> BOOLEAN]
  BY MaskedShape
<1>6. Makes([op |-> "fill", v |-> v], r)
  BY <1>2
<1> HIDE DEF t
<1>7. MaskedOf(t, n)
  <2>1. raster.type \in Types /\ raster.nod \in Number \cup {None}
    BY MaskedShape
  <2> QED BY <1>4, <1>5, <2>1 DEF MaskedOf
<1>8. /\ call'.op = IF raster.nod = None /\ raster.mask # <<>> THEN "fill_values" ELSE "fill"
      /\ call'.v = v /\ {r.nod} \ {None} \subseteq call'.numbers
  <2> HIDE DEF r
  <2> QED BY <1>6, MaskedFillCall
<1>9. t.nod = raster.nod /\ t.mask = bits
  BY <1>4
<1>10. /\ MaskedOf(r, n)
       /\ \A i \in 1 .. n :
             IF raster.nod = None
             THEN Contents(r)[i] = IF bits # <<>> /\ bits[i] THEN None ELSE v
             ELSE Contents(r)[i] \in Promise!AsRead(v, call'.numbers)
  BY <1>3, <1>7, <1>8, <1>9, MaskedFillKept
<1> HIDE DEF r
<1>11. RasterOK(r) /\ Len(r.data) = n
  BY <1>3, <1>6, <1>10, MaskedMade
<1>12. CASE n # before
  <2>1. ASSUME NEW i \in 1 .. Len(r.data)
        PROVE  \/ Contents(r)[i] \in Promise!AsRead(call'.v, call'.numbers)
               \/ Contents(r)[i] = None /\ call'.op = "fill_values"
    <3>1. CASE raster.nod = None
      BY <1>2, <1>8, <1>10, <1>11, <1>12, <3>1 DEF Promise!AsRead
    <3>2. CASE raster.nod # None
      BY <1>8, <1>10, <1>11, <3>2
    <3> QED BY <3>1, <3>2
  <2>2. call'.op \in {"fill", "fill_values"}
    BY <1>8
  <2> QED BY <1>6, <1>11, <1>12, <2>1, <2>2, Resized
<1>13. CASE n = before
  <2>1. ASSUME NEW i \in 1 .. before PROVE MaskedElement(r, i)
    <3> DEFINE x == Contents(raster)[i]
    <3>1. x = IF raster.mask # <<>> /\ raster.mask[i] THEN None ELSE raster.data[i]
      BY PresentMasked, MaskedContents
    <3>2. \A y : Promise!Wanted(call', i, x, y) =
                   IF raster.nod = None /\ raster.mask # <<>>
                   THEN IF x = None THEN None ELSE v ELSE v
      BY <1>8 DEF Promise!Wanted
    <3>3. bits = raster.mask
      BY <1>2, <1>13
    <3>4. CASE raster.nod = None
      <4>1. raster.data[i] # None
        BY MaskedShape
      <4>2. Contents(r)[i] = IF raster.mask # <<>> /\ x = None THEN None ELSE v
        BY <1>10, <1>13, <3>1, <3>3, <3>4, <4>1
      <4> QED BY <3>2, <3>4, <4>2, MaskedExact
    <3>5. CASE raster.nod # None
      BY <1>10, <1>13, <3>2, <3>5, MaskedAlone
    <3> QED BY <3>4, <3>5
  <2> QED BY <1>6, <1>10, <1>13, <2>1, MaskedCall
<1> QED BY <1>12, <1>13

\* A masked raster as large as the present one, by its parts.
Parts(r, nod, data, bits) ==
    /\ r = [storage |-> "masked", type |-> r.type, nod |-> r.nod, data |-> r.data, mask |-> r.mask]
    /\ r.type \in Types /\ r.nod = nod /\ r.data = data /\ r.mask = bits
    /\ nod \in Number \cup {None}
    /\ data = [i \in 1 .. Len(raster.data) |-> data[i]]
    /\ bits \in {<<>>} \cup [1 .. Len(raster.data) -> BOOLEAN]

LEMMA MaskedParts ==
    ASSUME NEW r, NEW nod, NEW data, NEW bits, Parts(r, nod, data, bits)
    PROVE  /\ MaskedOf(r, Len(raster.data))
           /\ \A i \in 1 .. Len(raster.data) :
                 Contents(r)[i] = IF bits # <<>> /\ bits[i] THEN None ELSE data[i]
<1>1. MaskedOf(r, Len(raster.data))
  BY DEF MaskedOf, Parts
<1>2. \A i \in 1 .. Len(raster.data) :
         Contents(r)[i] = IF r.mask # <<>> /\ r.mask[i] THEN None ELSE r.data[i]
  BY <1>1, MaskedContents
<1>3. r.data = data /\ r.mask = bits
  BY DEF Parts
<1> QED BY <1>1, <1>2, <1>3

\* The present raster, by its parts.
LEMMA PresentParts ==
    ASSUME RasterOK(raster), Masked(raster)
    PROVE  /\ raster.type \in Types /\ raster.nod \in Number \cup {None}
           /\ Len(raster.data) \in Nat \ {0} /\ DOMAIN raster.data = 1 .. Len(raster.data)
           /\ raster.data = [i \in 1 .. Len(raster.data) |-> raster.data[i]]
           /\ raster.mask \in {<<>>} \cup [1 .. Len(raster.data) -> BOOLEAN]
           /\ M!Cells(raster) = 1 .. Len(raster.data)
           /\ M!has_nodata(raster) <=> raster.mask # <<>>
           /\ \A i \in 1 .. Len(raster.data) :
                 /\ raster.data[i] # None /\ (raster.type = "uint" => raster.data[i] # NaN)
                 /\ M!is_nodata(raster, i) <=> raster.mask # <<>> /\ raster.mask[i]
                 /\ Contents(raster)[i] = IF M!is_nodata(raster, i) THEN None ELSE raster.data[i]
BY MaskedShape DEF M!Cells, M!has_nodata, M!is_nodata, M!NoMask

LEMMA MaskedFillValues ==
    ASSUME RasterOK(raster), Masked(raster), FillValues
    PROVE  Step
<1>1. PICK v \in Values : Makes([op |-> "fill_values", v |-> v], M!fill_values(raster, v))
  BY DEF FillValues
<1> DEFINE r == M!fill_values(raster, v)
           data == [i \in 1 .. Len(raster.data) |-> v]
<1>2. call'.op = "fill_values" /\ call'.v = v
  BY <1>1 DEF Makes, DoneAs
<1>3. Makes([op |-> "fill_values", v |-> v], r)
  BY <1>1
<1>4. M!All(raster, v) = data
  BY PresentParts DEF M!All
<1> HIDE DEF data
<1>5. r = [storage |-> "masked", type |-> raster.type, nod |-> raster.nod, data |-> data,
           mask |-> raster.mask]
  BY <1>4, PresentMasked, MaskedOther DEF M!fill_values
<1> HIDE DEF r
<1>6. data = [i \in 1 .. Len(raster.data) |-> data[i]]
  BY DEF data
<1>7. /\ MaskedOf(r, Len(raster.data))
      /\ \A i \in 1 .. Len(raster.data) :
            Contents(r)[i] = IF raster.mask # <<>> /\ raster.mask[i] THEN None ELSE data[i]
  <2>1. Parts(r, raster.nod, data, raster.mask)
    BY <1>5, <1>6, PresentParts DEF Parts
  <2> QED BY <2>1, MaskedParts
<1>8. ASSUME NEW i \in 1 .. Len(raster.data) PROVE MaskedElement(r, i)
  <2>1. \A y : Promise!Wanted(call', i, Contents(raster)[i], y) =
                 IF Contents(raster)[i] = None THEN None ELSE v
    BY <1>2 DEF Promise!Wanted
  <2>2. Contents(r)[i] = IF Contents(raster)[i] = None THEN None ELSE v
    BY <1>7, PresentParts DEF data
  <2> QED BY <2>1, <2>2, MaskedExact
<1> QED BY <1>3, <1>7, <1>8, MaskedCall

LEMMA MaskedFillWithNodata ==
    ASSUME RasterOK(raster), Masked(raster), FillWithNodata
    PROVE  Step
<1> DEFINE r == M!fill_with_nodata(raster)
           n == Len(raster.data)
           bits == [i \in 1 .. n |-> TRUE]
<1>1. Makes([op |-> "fill_with_nodata"], r)
  BY DEF FillWithNodata
<1>2. call'.op = "fill_with_nodata"
  BY <1>1 DEF Makes, DoneAs
<1>3. M!All(raster, TRUE) = bits
  BY PresentParts DEF M!All
<1>4. bits \in [1 .. n -> BOOLEAN] /\ bits # <<>>
  BY PresentParts, MaskOrNone
<1> HIDE DEF bits
<1>5. r = [storage |-> "masked", type |-> raster.type, nod |-> raster.nod, data |-> raster.data,
           mask |-> bits]
  BY <1>3, PresentMasked, MaskedMarked DEF M!fill_with_nodata
<1> HIDE DEF r
<1>6. /\ MaskedOf(r, n)
      /\ \A i \in 1 .. n : Contents(r)[i] = IF bits # <<>> /\ bits[i] THEN None ELSE raster.data[i]
  <2>1. Parts(r, raster.nod, raster.data, bits)
    BY <1>4, <1>5, PresentParts DEF Parts
  <2> QED BY <2>1, MaskedParts
<1>7. ASSUME NEW i \in 1 .. n PROVE MaskedElement(r, i)
  <2>1. \A y : Promise!Wanted(call', i, Contents(raster)[i], y) = None
    BY <1>2 DEF Promise!Wanted
  <2>2. Contents(r)[i] = None
    BY <1>4, <1>6 DEF bits
  <2> QED BY <2>1, <2>2, MaskedExact
<1> QED BY <1>1, <1>6, <1>7, MaskedCall

LEMMA MaskedMarkAsNodata ==
    ASSUME RasterOK(raster), Masked(raster), MarkAsNodata
    PROVE  Step
<1>1. PICK j \in DOMAIN raster.data :
         Makes([op |-> "mark_as_nodata", i |-> j], M!mark_as_nodata(raster, j))
  BY DEF MarkAsNodata
<1> DEFINE r == M!mark_as_nodata(raster, j)
           n == Len(raster.data)
           bits == [i \in 1 .. n |-> i = j \/ M!is_nodata(raster, i)]
<1>2. call'.op = "mark_as_nodata" /\ call'.i = j
  BY <1>1 DEF Makes, DoneAs
<1>3. Makes([op |-> "mark_as_nodata", i |-> j], r)
  BY <1>1
<1>4. [M!Allocated(raster) EXCEPT ![j] = TRUE] = bits
  <2> DEFINE allocated == M!Allocated(raster)
  <2>1. /\ allocated \in [1 .. n -> BOOLEAN]
        /\ \A i \in 1 .. n : allocated[i] = M!is_nodata(raster, i)
    <3>1. CASE raster.mask = <<>>
      <4>1. allocated = [i \in 1 .. n |-> FALSE]
        BY <3>1, PresentParts DEF M!Allocated, M!All
      <4>2. \A i \in 1 .. n : M!is_nodata(raster, i) = FALSE
        BY <3>1 DEF M!is_nodata, M!has_nodata, M!NoMask
      <4> HIDE DEF allocated
      <4> QED BY <4>1, <4>2
    <3>2. CASE raster.mask # <<>>
      <4>1. allocated = raster.mask
        BY <3>2 DEF M!Allocated, M!has_nodata, M!NoMask
      <4>2. raster.mask \in [1 .. n -> BOOLEAN]
        BY <3>2, PresentParts
      <4>3. \A i \in 1 .. n : M!is_nodata(raster, i) = raster.mask[i]
        BY <3>2, <4>2 DEF M!is_nodata, M!has_nodata, M!NoMask
      <4> HIDE DEF allocated
      <4> QED BY <4>1, <4>2, <4>3
    <3> QED BY <3>1, <3>2
  <2> HIDE DEF allocated
  <2>2. j \in 1 .. n
    BY PresentParts
  <2>3. [allocated EXCEPT ![j] = TRUE] = bits
    BY <2>1, <2>2
  <2> QED BY <2>3 DEF allocated
<1>5. bits \in [1 .. n -> BOOLEAN]
  BY PresentParts, ZenonT(30)
<1>6. bits # <<>>
  BY <1>5, PresentParts, MaskOrNone
<1>7. \A i \in 1 .. n : bits[i] <=> i = j \/ M!is_nodata(raster, i)
  OBVIOUS
<1> HIDE DEF bits
<1>8. r = [storage |-> "masked", type |-> raster.type, nod |-> raster.nod, data |-> raster.data,
           mask |-> bits]
  BY <1>4, PresentMasked, MaskedMarked DEF M!mark_as_nodata
<1> HIDE DEF r
<1>9. /\ MaskedOf(r, n)
      /\ \A i \in 1 .. n : Contents(r)[i] = IF bits # <<>> /\ bits[i] THEN None ELSE raster.data[i]
  <2>1. Parts(r, raster.nod, raster.data, bits)
    BY <1>5, <1>8, PresentParts DEF Parts
  <2> QED BY <2>1, MaskedParts
<1>10. ASSUME NEW i \in 1 .. n PROVE MaskedElement(r, i)
  <2>1. \A y : Promise!Wanted(call', i, Contents(raster)[i], y) =
                 IF i = j THEN None ELSE Contents(raster)[i]
    BY <1>2 DEF Promise!Wanted
  <2>2. Contents(r)[i] = IF i = j THEN None ELSE Contents(raster)[i]
    BY <1>6, <1>7, <1>9, PresentParts
  <2> QED BY <2>1, <2>2, MaskedExact
<1> QED BY <1>3, <1>9, <1>10, MaskedCall

LEMMA MaskedSetValue ==
    ASSUME RasterOK(raster), Masked(raster), SetValue
    PROVE  Step
<1>1. PICK j \in DOMAIN raster.data, v \in Values :
         Makes([op |-> "assign", i |-> j, v |-> v], M!assign(raster, j, v))
  BY DEF SetValue
<1> DEFINE r == M!assign(raster, j, v)
           n == Len(raster.data)
           data == [i \in 1 .. n |-> IF i = j THEN v ELSE raster.data[i]]
           bits == IF raster.mask = <<>> THEN <<>> ELSE [raster.mask EXCEPT ![j] = FALSE]
           u == [raster EXCEPT !.data[j] = v]
<1>2. call'.op = "assign" /\ call'.i = j /\ call'.v = v
  BY <1>1 DEF Makes, DoneAs
<1>3. Makes([op |-> "assign", i |-> j, v |-> v], r)
  BY <1>1
<1>4. u = [storage |-> "masked", type |-> raster.type, nod |-> raster.nod, data |-> data,
           mask |-> raster.mask]
  <2>1. [raster.data EXCEPT ![j] = v] = data
    BY PresentParts
  <2>2. u = [raster EXCEPT !.data = [raster.data EXCEPT ![j] = v]]
    BY MaskedShape
  <2> HIDE DEF data, u
  <2> QED BY <2>1, <2>2, PresentMasked, MaskedOther
<1>5. bits \in {<<>>} \cup [1 .. n -> BOOLEAN]
  BY PresentParts
<1>6. data = [i \in 1 .. n |-> data[i]]
  OBVIOUS
<1>7. r = [storage |-> "masked", type |-> raster.type, nod |-> raster.nod, data |-> data,
           mask |-> bits]
  <2>1. r = M!mark_as_data(u, j)
    BY DEF M!assign
  <2>2. CASE raster.mask = <<>>
    <3> HIDE DEF u, data, r
    <3> QED BY <1>4, <2>1, <2>2 DEF M!mark_as_data, M!has_nodata, M!NoMask
  <2>3. CASE raster.mask # <<>>
    <3> HIDE DEF u, data, r
    <3>1. r = [u EXCEPT !.mask[j] = FALSE]
      BY <1>4, <2>1, <2>3 DEF M!mark_as_data, M!has_nodata, M!NoMask
    <3> QED BY <1>4, <2>3, <3>1
  <2> QED BY <2>2, <2>3
<1>8. \A i \in 1 .. n :
         /\ data[i] = IF i = j THEN v ELSE raster.data[i]
         /\ bits # <<>> /\ bits[i] <=> i # j /\ M!is_nodata(raster, i)
  BY PresentParts
<1> HIDE DEF r, data, bits
<1>9. /\ MaskedOf(r, n)
      /\ \A i \in 1 .. n : Contents(r)[i] = IF bits # <<>> /\ bits[i] THEN None ELSE data[i]
  <2>1. Parts(r, raster.nod, data, bits)
    BY <1>5, <1>6, <1>7, PresentParts DEF Parts
  <2> QED BY <2>1, MaskedParts
<1>10. ASSUME NEW i \in 1 .. n PROVE MaskedElement(r, i)
  <2>1. \A y : Promise!Wanted(call', i, Contents(raster)[i], y) =
                 IF i = j THEN v ELSE Contents(raster)[i]
    BY <1>2 DEF Promise!Wanted
  <2>2. Contents(r)[i] = IF i = j THEN v ELSE Contents(raster)[i]
    BY <1>8, <1>9, PresentParts
  <2> QED BY <2>1, <2>2, MaskedExact
<1> QED BY <1>3, <1>9, <1>10, MaskedCall

LEMMA MaskedAddToCell ==
    ASSUME RasterOK(raster), Masked(raster), AddToCell
    PROVE  Step
<1>1. PICK j \in DOMAIN raster.data, v \in Values :
         Makes([op |-> "add_to_cell", i |-> j, v |-> v], M!add_to_cell(raster, j, v))
  BY DEF AddToCell
<1> DEFINE r == M!add_to_cell(raster, j, v)
           n == Len(raster.data)
           added == IF M!is_nodata(raster, j) THEN v ELSE Compute(raster.type, "plus", raster.data[j], v)
           data == [i \in 1 .. n |-> IF i = j THEN added ELSE raster.data[i]]
<1>2. Makes([op |-> "add_to_cell", i |-> j, v |-> v], r)
  BY <1>1
<1>3. call'.op = (IF M!is_nodata(raster, j) THEN "keep" ELSE "add_to_cell") /\ call'.i = j /\ call'.v = v
  BY <1>1 DEF Makes, DoneAs, IsNodata
<1>4. r = [storage |-> "masked", type |-> raster.type, nod |-> raster.nod, data |-> data,
           mask |-> raster.mask]
  <2>1. [raster.data EXCEPT ![j] = added] = data
    BY PresentParts
  <2> HIDE DEF data, added
  <2>2. r = [raster EXCEPT !.data = [raster.data EXCEPT ![j] = added]]
    BY MaskedShape, SameElements DEF M!add_to_cell, added
  <2> HIDE DEF r
  <2> QED BY <2>1, <2>2, PresentMasked, MaskedOther
<1>5. data = [i \in 1 .. n |-> data[i]] /\ \A i \in 1 .. n : data[i] = IF i = j THEN added ELSE raster.data[i]
  OBVIOUS
<1> HIDE DEF r, data
<1>6. call'.type = raster.type
  BY <1>2, <1>4 DEF Makes
<1>7. /\ MaskedOf(r, n)
      /\ \A i \in 1 .. n :
            Contents(r)[i] = IF raster.mask # <<>> /\ raster.mask[i] THEN None ELSE data[i]
  <2>1. Parts(r, raster.nod, data, raster.mask)
    BY <1>4, <1>5, PresentParts DEF Parts
  <2> QED BY <2>1, MaskedParts
<1>8. ASSUME NEW i \in 1 .. n PROVE MaskedElement(r, i)
  <2> DEFINE x == Contents(raster)[i]
  <2>1. CASE M!is_nodata(raster, j)
    <3>1. \A y : Promise!Wanted(call', i, x, y) = x
      BY <1>3, <2>1 DEF Promise!Wanted
    <3>2. Contents(r)[i] = x
      BY <1>5, <1>7, <2>1, PresentParts
    <3> QED BY <3>1, <3>2, MaskedExact
  <2>2. CASE ~M!is_nodata(raster, j)
    <3>1. \A y : Promise!Wanted(call', i, x, y) =
                   IF i # j THEN x ELSE IF x = None THEN v ELSE Compute(raster.type, "plus", x, v)
      BY <1>3, <1>6, <2>2, SameElements DEF Promise!Wanted
    <3>2. Contents(r)[i] =
             IF i # j THEN x ELSE IF x = None THEN v ELSE Compute(raster.type, "plus", x, v)
      BY <1>5, <1>7, <2>2, PresentParts
    <3> QED BY <3>1, <3>2, MaskedExact
  <2> QED BY <2>1, <2>2
<1> QED BY <1>2, <1>7, <1>8, MaskedCall

LEMMA MaskedSetNodata ==
    ASSUME RasterOK(raster), Masked(raster), SetNodata
    PROVE  Step
<1>1. PICK v \in NumbersOf(raster.type) \ {None} : Makes([op |-> "keep"], M!set_nodata(raster, v))
  BY DEF SetNodata
<1> DEFINE r == M!set_nodata(raster, v)
           n == Len(raster.data)
<1>2. Makes([op |-> "keep"], r)
  BY <1>1
<1>3. call'.op = "keep"
  BY <1>1 DEF Makes, DoneAs
<1>4. r = [storage |-> "masked", type |-> raster.type, nod |-> v, data |-> raster.data,
           mask |-> raster.mask]
  BY PresentMasked, MaskedRenumbered DEF M!set_nodata
<1>5. v \in Number \cup {None}
  BY NumbersTyped
<1> HIDE DEF r
<1>6. /\ MaskedOf(r, n)
      /\ \A i \in 1 .. n :
            Contents(r)[i] = IF raster.mask # <<>> /\ raster.mask[i] THEN None ELSE raster.data[i]
  <2>1. Parts(r, v, raster.data, raster.mask)
    BY <1>4, <1>5, PresentParts DEF Parts
  <2> QED BY <2>1, MaskedParts
<1>7. ASSUME NEW i \in 1 .. n PROVE MaskedElement(r, i)
  <2>1. \A y : Promise!Wanted(call', i, Contents(raster)[i], y) = Contents(raster)[i]
    BY <1>3 DEF Promise!Wanted
  <2>2. Contents(r)[i] = Contents(raster)[i]
    BY <1>6, PresentParts
  <2> QED BY <2>1, <2>2, MaskedExact
<1> QED BY <1>2, <1>6, <1>7, MaskedCall

LEMMA MaskedReplace ==
    ASSUME RasterOK(raster), Masked(raster), Replace
    PROVE  Step
<1>1. PICK v \in Scalars, w \in Values :
         Makes([op |-> "replace", v |-> v, w |-> w], M!replace(raster, v, w))
  BY DEF Replace
<1> DEFINE r == M!replace(raster, v, w)
           n == Len(raster.data)
           data == [i \in 1 .. n |-> IF raster.data[i] = v /\ v # NaN THEN w ELSE raster.data[i]]
<1>2. Makes([op |-> "replace", v |-> v, w |-> w], r)
  BY <1>1
<1>3. call'.op = "replace" /\ call'.v = v /\ call'.w = w
  BY <1>1 DEF Makes, DoneAs
<1>4. v # NaN /\ v # None
  BY ScalarsTyped, MaskedShape
<1>5. r = [raster EXCEPT !.data = data]
  BY PresentParts DEF M!replace
<1>6. data = [i \in 1 .. n |-> data[i]]
      /\ \A i \in 1 .. n : data[i] = IF raster.data[i] = v THEN w ELSE raster.data[i]
  BY <1>4
<1> HIDE DEF r, data
<1>7. r = [storage |-> "masked", type |-> raster.type, nod |-> raster.nod, data |-> data,
           mask |-> raster.mask]
  BY <1>5, PresentMasked, MaskedOther
<1>8. /\ MaskedOf(r, n)
      /\ \A i \in 1 .. n :
            Contents(r)[i] = IF raster.mask # <<>> /\ raster.mask[i] THEN None ELSE data[i]
  <2>1. Parts(r, raster.nod, data, raster.mask)
    BY <1>6, <1>7, PresentParts DEF Parts
  <2> QED BY <2>1, MaskedParts
<1>9. ASSUME NEW i \in 1 .. n PROVE MaskedElement(r, i)
  <2> DEFINE x == Contents(raster)[i]
  <2>1. \A y : Promise!Wanted(call', i, x, y) = IF x = v THEN w ELSE x
    BY <1>3 DEF Promise!Wanted
  <2>2. Contents(r)[i] = IF x = v THEN w ELSE x
    BY <1>4, <1>6, <1>8, PresentParts
  <2> QED BY <2>1, <2>2, MaskedExact
<1> QED BY <1>2, <1>8, <1>9, MaskedCall

\* MarkedWhere with the cells that it marks.
Marking(t, n, marked) ==
    IF marked # {} THEN [t EXCEPT !.mask = [i \in 1 .. n |-> M!is_nodata(t, i) \/ i \in marked]] ELSE t

LEMMA MarkingContents ==
    ASSUME NEW n \in Nat \ {0}, NEW t, MaskedOf(t, n), NEW marked \in SUBSET (1 .. n), NEW r,
           r = Marking(t, n, marked)
    PROVE  /\ MaskedOf(r, n) /\ r.type = t.type /\ r.nod = t.nod
           /\ \A i \in 1 .. n : Contents(r)[i] = IF i \in marked THEN None ELSE Contents(t)[i]
<1>1. ASSUME NEW i \in 1 .. n
      PROVE  Contents(t)[i] = IF M!is_nodata(t, i) THEN None ELSE t.data[i]
  BY MaskedContents DEF M!is_nodata, M!has_nodata, M!NoMask
<1>2. CASE marked = {}
  BY <1>2 DEF Marking
<1>3. CASE marked # {}
  <2> DEFINE bits == [i \in 1 .. n |-> M!is_nodata(t, i) \/ i \in marked]
  <2>1. bits \in [1 .. n -> BOOLEAN]
    <3>1. \A i \in 1 .. n : M!is_nodata(t, i) \in BOOLEAN
      BY DEF MaskedOf, M!is_nodata, M!has_nodata, M!NoMask
    <3> QED BY <3>1, Zenon
  <2>2. bits # <<>>
    BY <2>1, MaskOrNone
  <2>3. \A i \in 1 .. n : bits[i] <=> M!is_nodata(t, i) \/ i \in marked
    OBVIOUS
  <2>4. r = [t EXCEPT !.mask = bits]
    BY <1>3 DEF Marking
  <2> HIDE DEF bits
  <2>5. r = [storage |-> "masked", type |-> t.type, nod |-> t.nod, data |-> t.data, mask |-> bits]
    BY <2>4, MaskedMarked
  <2>6. r.type = t.type /\ r.nod = t.nod /\ r.data = t.data /\ r.mask = bits
    BY <2>5
  <2>7. MaskedOf(r, n)
    BY <2>1, <2>5, <2>6 DEF MaskedOf
  <2>8. ASSUME NEW i \in 1 .. n PROVE Contents(r)[i] = IF i \in marked THEN None ELSE Contents(t)[i]
    <3>1. Contents(r)[i] = IF bits[i] THEN None ELSE t.data[i]
      BY <2>2, <2>6, <2>7, MaskedContents
    <3> QED BY <1>1, <2>3, <3>1
  <2> QED BY <2>6, <2>7, <2>8
<1> QED BY <1>2, <1>3

LEMMA MaskedTurnValueIntoNodata ==
    ASSUME RasterOK(raster), Masked(raster), TurnValueIntoNodata
    PROVE  Step
<1>1. PICK v \in Scalars :
         Makes([op |-> "turn_value_into_nodata", v |-> v], M!turn_value_into_nodata(raster, v))
  BY DEF TurnValueIntoNodata
<1> DEFINE r == M!turn_value_into_nodata(raster, v)
           n == Len(raster.data)
           marked == {i \in 1 .. n : raster.data[i] = v}
<1>2. Makes([op |-> "turn_value_into_nodata", v |-> v], r)
  BY <1>1
<1>3. call'.op = "turn_value_into_nodata" /\ call'.v = v
  BY <1>1 DEF Makes, DoneAs
<1>4. v # NaN /\ v # None
  BY ScalarsTyped, MaskedShape
<1>5. \A i \in 1 .. n : M!Holds("equal_to", raster.data[i], v) <=> i \in marked
  BY <1>4 DEF M!Holds
<1>6. r = Marking(raster, n, marked)
  <2> HIDE DEF marked
  <2>1. r = IF \E i \in 1 .. n : M!Holds("equal_to", raster.data[i], v)
            THEN [raster EXCEPT !.mask = [i \in 1 .. n |->
                     M!is_nodata(raster, i) \/ M!Holds("equal_to", raster.data[i], v)]]
            ELSE raster
    BY PresentParts DEF M!turn_value_into_nodata, M!MarkedWhere
  <2>2. marked \subseteq 1 .. n
    BY DEF marked
  <2>3. [i \in 1 .. n |-> M!is_nodata(raster, i) \/ M!Holds("equal_to", raster.data[i], v)] =
        [i \in 1 .. n |-> M!is_nodata(raster, i) \/ i \in marked]
    BY <1>5, Zenon
  <2>4. (\E i \in 1 .. n : M!Holds("equal_to", raster.data[i], v)) <=> marked # {}
    BY <1>5, <2>2
  <2> QED BY <2>1, <2>3, <2>4, Zenon DEF Marking
<1> HIDE DEF r
<1>7. /\ MaskedOf(r, n)
      /\ \A i \in 1 .. n : Contents(r)[i] = IF i \in marked THEN None ELSE Contents(raster)[i]
  BY <1>6, PresentMasked, MarkingContents
<1>8. ASSUME NEW i \in 1 .. n PROVE MaskedElement(r, i)
  <2> DEFINE x == Contents(raster)[i]
  <2>1. \A y : Promise!Wanted(call', i, x, y) = IF x = v THEN None ELSE x
    BY <1>3 DEF Promise!Wanted
  <2>2. Contents(r)[i] = IF x = v THEN None ELSE x
    BY <1>4, <1>7, PresentParts
  <2> QED BY <2>1, <2>2, MaskedExact
<1> QED BY <1>2, <1>7, <1>8, MaskedCall

LEMMA MaskedScalarInPlace ==
    ASSUME RasterOK(raster), Masked(raster), ScalarInPlace
    PROVE  Step
<1>1. PICK v \in Scalars, op \in Arithmetics :
         /\ op = "divides" => v # 0
         /\ Makes([op |-> op, y |-> v], M!perform_scalar_operation(raster, op, v))
  BY DEF ScalarInPlace
<1> DEFINE r == M!perform_scalar_operation(raster, op, v)
           n == Len(raster.data)
           data == [i \in 1 .. n |-> Compute(raster.type, op, raster.data[i], v)]
<1>2. Makes([op |-> op, y |-> v], r)
  BY <1>1
<1>3. v # NaN /\ v # None
  BY ScalarsTyped, MaskedShape
<1>4. r = [raster EXCEPT !.data = data]
  <2>1. \A x : M!Element(raster.type, op, x, v) = Compute(raster.type, op, x, v)
    BY <1>1, SameElements DEF M!Element
  <2>2. [i \in 1 .. n |-> M!Element(raster.type, op, raster.data[i], v)] = data
    BY <2>1
  <2> HIDE DEF data
  <2> QED BY <2>2, PresentParts DEF M!perform_scalar_operation
<1>5. data = [i \in 1 .. n |-> data[i]]
  OBVIOUS
<1>6. \A i \in 1 .. n : data[i] = Compute(raster.type, op, raster.data[i], v)
  OBVIOUS
<1> HIDE DEF r, data
<1>7. r = [storage |-> "masked", type |-> raster.type, nod |-> raster.nod, data |-> data,
           mask |-> raster.mask]
  BY <1>4, PresentMasked, MaskedOther
<1>8. /\ MaskedOf(r, n)
      /\ \A i \in 1 .. n :
            Contents(r)[i] = IF raster.mask # <<>> /\ raster.mask[i] THEN None ELSE data[i]
  <2>1. Parts(r, raster.nod, data, raster.mask)
    BY <1>5, <1>7, PresentParts DEF Parts
  <2> QED BY <2>1, MaskedParts
<1>9. ASSUME NEW i \in 1 .. n PROVE MaskedElement(r, i)
  <2> DEFINE x == Contents(raster)[i]
  <2>1. call'.op = op /\ call'.type = raster.type /\ call'.other[i] = v
    <3>1. r.type = raster.type /\ DOMAIN r.data = 1 .. n
      BY <1>5, <1>7
    <3> QED BY <1>2, <3>1, ScalarCall
  <2>2. Promise!Wanted(call', i, x, v) = Promise!Arithmetic(raster.type, op, x, v)
    BY <2>1 DEF Promise!Wanted, Arithmetics
  <2>3. Promise!Arithmetic(raster.type, op, x, v) =
           IF x = None THEN None ELSE Compute(raster.type, op, x, v)
    BY <1>1, <1>3, SameElements DEF Promise!Arithmetic
  <2>4. Contents(r)[i] = IF x = None THEN None ELSE Compute(raster.type, op, x, v)
    BY <1>6, <1>8, PresentParts
  <2> QED BY <2>1, <2>2, <2>3, <2>4 DEF MaskedElement, Promise!AsRead
<1> QED BY <1>2, <1>8, <1>9, MaskedCall

LEMMA MaskedReread ==
    ASSUME RasterOK(raster), Masked(raster), Reread
    PROVE  Step
<1> DEFINE r == M!Reread(raster)
           n == Len(raster.data)
           stored == [i \in 1 .. n |-> IF M!is_nodata(raster, i) THEN raster.nod ELSE raster.data[i]]
           missing(x) == x = raster.nod \/ (has_nan(raster.type) /\ x = NaN)
           data == [i \in 1 .. n |-> IF raster.nod # None /\ has_nan(raster.type) /\ stored[i] = raster.nod
                                     THEN NaN ELSE stored[i]]
           bits == IF raster.nod = None THEN <<>> ELSE [i \in 1 .. n |-> missing(stored[i])]
<1>1. M!MayCollapse(raster) /\ Makes([op |-> "reread"], r)
  BY DEF Reread
<1>2. call'.op = "reread" /\ {r.nod, NaN} \ {None} \subseteq call'.numbers
  <2>1. Makes([op |-> "reread"], r)
    BY <1>1
  <2> HIDE DEF r
  <2>2. call'.op = "reread"
    BY <2>1 DEF Makes, DoneAs
  <2>3. {r.nod, NaN} \ {None} \subseteq call'.numbers
    BY <2>1, MakesCall
  <2> QED BY <2>2, <2>3
<1>3. M!Stored(raster) = stored
  <2>1. M!collapse_data(raster) = [raster EXCEPT !.data = stored]
    BY PresentParts DEF M!collapse_data
  <2> HIDE DEF stored
  <2>2. [raster EXCEPT !.data = stored] =
           [storage |-> "masked", type |-> raster.type, nod |-> raster.nod, data |-> stored,
            mask |-> raster.mask]
    BY PresentMasked, MaskedOther
  <2> QED BY <2>1, <2>2 DEF M!Stored
<1>4. stored = [i \in 1 .. n |-> stored[i]] /\ DOMAIN stored = 1 .. n
      /\ \A i \in 1 .. n : stored[i] = IF M!is_nodata(raster, i) THEN raster.nod ELSE raster.data[i]
  OBVIOUS
<1> HIDE DEF stored
<1> DEFINE t == M!Raster(raster.type, raster.nod, stored, <<>>)
<1>5. r = M!init_nodata_values(t)
  BY <1>3 DEF M!Reread, M!FromData, M!NoMask
<1>6. t = [storage |-> "masked", type |-> raster.type, nod |-> raster.nod, data |-> stored,
           mask |-> <<>>] /\ MaskedOf(t, n)
  <2>1. t = [storage |-> "masked", type |-> raster.type, nod |-> raster.nod, data |-> stored,
             mask |-> <<>>]
    BY DEF M!Raster
  <2> HIDE DEF t
  <2>2. t.type = raster.type /\ t.nod = raster.nod /\ t.data = stored /\ t.mask = <<>>
    BY <2>1
  <2>3. MaskedOf(t, n)
    BY <1>4, <2>1, <2>2, PresentParts DEF MaskedOf
  <2> QED BY <2>1, <2>3
<1>7. data = [i \in 1 .. n |-> data[i]]
      /\ \A i \in 1 .. n : data[i] = IF raster.nod # None /\ has_nan(raster.type) /\ stored[i] = raster.nod
                                     THEN NaN ELSE stored[i]
  OBVIOUS
<1>8. bits \in {<<>>} \cup [1 .. n -> BOOLEAN]
  <2>1. [i \in 1 .. n |-> missing(stored[i])] \in [1 .. n -> BOOLEAN]
    BY Zenon
  <2> HIDE DEF missing
  <2> QED BY <2>1
<1>9. \A i \in 1 .. n : bits # <<>> /\ bits[i] <=> raster.nod # None /\ missing(stored[i])
  <2>1. CASE raster.nod = None
    BY <2>1
  <2>2. CASE raster.nod # None
    <3>1. bits \in [1 .. n -> BOOLEAN] /\ n \in Nat \ {0}
      BY <2>2, PresentParts, Zenon
    <3>2. bits # <<>>
      BY <3>1, MaskOrNone
    <3>3. \A i \in 1 .. n : bits[i] <=> missing(stored[i])
      BY <2>2
    <3> QED BY <2>2, <3>2, <3>3
  <2> QED BY <2>1, <2>2
<1>10. r = [storage |-> "masked", type |-> raster.type, nod |-> raster.nod, data |-> data,
            mask |-> bits]
  <2>1. t.type = raster.type /\ t.nod = raster.nod /\ t.data = stored /\ M!Cells(t) = 1 .. n
    BY <1>4, <1>6 DEF M!Cells
  <2> HIDE DEF t
  <2>2. CASE raster.nod = None
    <3>1. r = t
      BY <1>5, <2>1, <2>2 DEF M!init_nodata_values
    <3>2. data = stored /\ bits = <<>>
      BY <1>4, <2>2
    <3> HIDE DEF r, data, bits
    <3> QED BY <1>6, <3>1, <3>2
  <2>3. CASE raster.nod # None
    <3> DEFINE filled == [i \in 1 .. n |-> IF has_nan(raster.type) /\ stored[i] = raster.nod
                                           THEN NaN ELSE stored[i]]
               marks == [i \in 1 .. n |-> missing(stored[i])]
    <3>1. r = [t EXCEPT !.mask = marks, !.data = filled]
      BY <1>5, <2>1, <2>3 DEF M!init_nodata_values, M!has_nan, has_nan
    <3>2. data = filled /\ bits = marks
      BY <2>3
    <3> HIDE DEF r, data, bits, filled, marks
    <3>3. r = [storage |-> "masked", type |-> t.type, nod |-> t.nod, data |-> filled, mask |-> marks]
      BY <1>6, <3>1, MaskedUpdated
    <3> QED BY <2>1, <3>2, <3>3
  <2> QED BY <2>2, <2>3
<1> HIDE DEF r, data, bits, missing
<1>11. /\ MaskedOf(r, n)
       /\ \A i \in 1 .. n : Contents(r)[i] = IF bits # <<>> /\ bits[i] THEN None ELSE data[i]
  <2>1. Parts(r, raster.nod, data, bits)
    BY <1>7, <1>8, <1>10, PresentParts DEF Parts
  <2> QED BY <2>1, MaskedParts
<1>12. ASSUME NEW i \in 1 .. n PROVE MaskedElement(r, i)
  <2> DEFINE x == Contents(raster)[i]
  <2>1. \A y : Promise!Wanted(call', i, x, y) = x
    BY <1>2 DEF Promise!Wanted
  <2>2. Contents(r)[i] = IF raster.nod # None /\ missing(stored[i]) THEN None ELSE data[i]
    BY <1>9, <1>11
  <2>3. r.nod = raster.nod
    BY <1>10
  <2>4. Contents(r)[i] \in Promise!AsRead(x, call'.numbers)
    <3>1. CASE M!is_nodata(raster, i)
      <4>1. raster.nod # None
        BY <1>1, <3>1 DEF M!MayCollapse, M!is_nodata
      <4>2. Contents(r)[i] = None
        BY <1>4, <2>2, <3>1, <4>1 DEF missing
      <4> QED BY <3>1, <4>2, PresentParts DEF Promise!AsRead
    <3>2. CASE ~M!is_nodata(raster, i)
      <4>1. stored[i] = x /\ x # None
        BY <1>4, <3>2, PresentParts
      <4>2. CASE raster.nod # None /\ missing(stored[i])
        <5>1. x \in call'.numbers
          BY <1>2, <2>3, <4>1, <4>2 DEF missing
        <5> QED BY <2>2, <4>2, <5>1 DEF Promise!AsRead
      <4>3. CASE ~(raster.nod # None /\ missing(stored[i]))
        <5>1. Contents(r)[i] = x
          BY <1>7, <2>2, <4>1, <4>3 DEF missing
        <5> QED BY <5>1 DEF Promise!AsRead
      <4> QED BY <4>2, <4>3
    <3> QED BY <3>1, <3>2
  <2> QED BY <2>1, <2>4, MaskedAlone
<1> QED BY <1>1, <1>11, <1>12, MaskedCall

LEMMA MaskedCast ==
    ASSUME RasterOK(raster), Masked(raster), Cast
    PROVE  Step
<1>0. PICK type \in Types : \E nod \in CastNumbers(raster, type) :
         Makes([op |-> "keep"], raster_cast(raster, type, nod))
  BY DEF Cast, Types
<1>1. PICK nod \in CastNumbers(raster, type) : Makes([op |-> "keep"], raster_cast(raster, type, nod))
  BY <1>0
<1>2. raster.nod = None => \A i \in DOMAIN raster.data : ~IsNodata(raster, i)
  BY DEF Cast
<1> DEFINE r == raster_cast(raster, type, nod)
           n == Len(raster.data)
           data == [i \in 1 .. n |-> IF ~M!is_nodata(raster, i) THEN raster.data[i] ELSE 0]
           marks == [i \in 1 .. n |-> M!is_nodata(raster, i)]
           bits == IF nod = None THEN <<>> ELSE marks
<1>3. Makes([op |-> "keep"], r)
  BY <1>1
<1>4. call'.op = "keep"
  BY <1>1 DEF Makes, DoneAs
<1>5. nod \in Number \cup {None} /\ (nod = None <=> raster.nod = None)
  BY CastNumbersTyped, MaskedShape
<1>6. r = [storage |-> "masked", type |-> type, nod |-> nod, data |-> data, mask |-> bits]
  BY PresentParts DEF raster_cast, M!Raster, IsNodata
<1>7. marks \in [1 .. n -> BOOLEAN] /\ \A i \in 1 .. n : marks[i] <=> M!is_nodata(raster, i)
  <2>1. \A i \in 1 .. n : M!is_nodata(raster, i) \in BOOLEAN
    BY PresentParts DEF M!is_nodata, M!has_nodata, M!NoMask
  <2> QED BY <2>1, Zenon
<1>8. data = [i \in 1 .. n |-> data[i]]
      /\ \A i \in 1 .. n : data[i] = IF ~M!is_nodata(raster, i) THEN raster.data[i] ELSE 0
  OBVIOUS
<1>9. marks # <<>>
  BY <1>7, PresentParts, MaskOrNone
<1> HIDE DEF r, data, marks
<1>10. \A i \in 1 .. n : bits # <<>> /\ bits[i] <=> M!is_nodata(raster, i)
  BY <1>2, <1>5, <1>7, <1>9, PresentParts DEF IsNodata
<1>11. bits \in {<<>>} \cup [1 .. n -> BOOLEAN]
  BY <1>7
<1> HIDE DEF bits
<1>12. /\ MaskedOf(r, n)
       /\ \A i \in 1 .. n : Contents(r)[i] = IF bits # <<>> /\ bits[i] THEN None ELSE data[i]
  <2>1. Parts(r, nod, data, bits)
    BY <1>5, <1>6, <1>8, <1>11 DEF Parts
  <2> QED BY <2>1, MaskedParts
<1>13. ASSUME NEW i \in 1 .. n PROVE MaskedElement(r, i)
  <2>1. \A y : Promise!Wanted(call', i, Contents(raster)[i], y) = Contents(raster)[i]
    BY <1>4 DEF Promise!Wanted
  <2>2. Contents(r)[i] = Contents(raster)[i]
    BY <1>8, <1>10, <1>12, PresentParts
  <2> QED BY <2>1, <2>2, MaskedExact
<1> QED BY <1>3, <1>12, <1>13, MaskedCall

\* A raster with these elements: the number among them is marked.
MaskedHolds(s, n, type) ==
    /\ MaskedOf(s, n) /\ s.type = type
    /\ \A i \in 1 .. n : s.data[i] \in Number /\ (type = "uint" => s.data[i] \in Int)

LEMMA MaskedFromData ==
    ASSUME NEW n, NEW type, NEW nod, NEW elements, Given(n, type, nod, elements)
    PROVE  MaskedHolds(M!FromData(type, nod, elements), n, type)
<1> DEFINE s == M!FromData(type, nod, elements)
<1> SUFFICES MaskedHolds(s, n, type)
  OBVIOUS
<1>0. /\ n \in Nat \ {0} /\ type \in Types /\ nod \in Number \cup {None}
      /\ elements = [i \in 1 .. n |-> elements[i]]
      /\ \A i \in 1 .. n : elements[i] \in Number /\ (type = "uint" => elements[i] \in Int)
  BY DEF Given
<1> DEFINE t == M!Raster(type, nod, elements, <<>>)
<1>1. s = M!init_nodata_values(t)
  BY DEF M!FromData, M!NoMask
<1> HIDE DEF s
<1>2. t = [storage |-> "masked", type |-> type, nod |-> nod, data |-> elements, mask |-> <<>>]
      /\ MaskedOf(t, n)
  <2>1. t = [storage |-> "masked", type |-> type, nod |-> nod, data |-> elements, mask |-> <<>>]
    BY DEF M!Raster
  <2> HIDE DEF t
  <2>2. t.type = type /\ t.nod = nod /\ t.data = elements /\ t.mask = <<>>
    BY <2>1
  <2>3. MaskedOf(t, n)
    BY <1>0, <2>1, <2>2 DEF MaskedOf
  <2> QED BY <2>1, <2>3
<1>3. t.type = type /\ t.nod = nod /\ t.data = elements /\ M!Cells(t) = 1 .. n
  <2> HIDE DEF t
  <2> QED BY <1>0, <1>2 DEF M!Cells
<1> HIDE DEF t
<1>4. CASE nod = None
  <2>1. s = t
    BY <1>1, <1>3, <1>4 DEF M!init_nodata_values
  <2> QED BY <1>0, <1>2, <1>3, <2>1 DEF MaskedHolds
<1>5. CASE nod # None
  <2> DEFINE marks == [i \in 1 .. n |-> elements[i] = nod \/ (has_nan(type) /\ elements[i] = NaN)]
             data == [i \in 1 .. n |-> IF has_nan(type) /\ elements[i] = nod THEN NaN ELSE elements[i]]
  <2>1. s = [t EXCEPT !.mask = marks, !.data = data]
    BY <1>1, <1>3, <1>5 DEF M!init_nodata_values, M!has_nan, has_nan
  <2>2. marks \in [1 .. n -> BOOLEAN]
    BY Zenon
  <2>3. data = [i \in 1 .. n |-> data[i]]
    OBVIOUS
  <2>4. \A i \in 1 .. n : data[i] \in Number /\ (type = "uint" => data[i] \in Int)
    BY <1>0 DEF Number, has_nan
  <2> HIDE DEF marks, data
  <2>5. s = [storage |-> "masked", type |-> type, nod |-> nod, data |-> data, mask |-> marks]
    BY <1>2, <1>3, <2>1, MaskedUpdated
  <2>6. s.type = type /\ s.nod = nod /\ s.data = data /\ s.mask = marks
    BY <2>5
  <2>7. MaskedOf(s, n)
    BY <1>0, <2>2, <2>3, <2>5, <2>6 DEF MaskedOf
  <2> QED BY <2>4, <2>6, <2>7 DEF MaskedHolds
<1> QED BY <1>4, <1>5

LEMMA MaskedTyped ==
    ASSUME NEW n \in Nat \ {0}, NEW r, MaskedOf(r, n),
           \A i \in 1 .. n : r.data[i] \in Number /\ (r.type = "uint" => r.data[i] \in Int)
    PROVE  RasterOK(r)
<1>1. r.data = [i \in 1 .. n |-> r.data[i]]
  BY DEF MaskedOf
<1>2. r.data \in [1 .. n -> Number] /\ (r.type = "uint" => r.data \in [1 .. n -> Int])
  BY <1>1
<1>3. r.data \in Seq(Number) /\ Len(r.data) = n /\ (r.type = "uint" => r.data \in Seq(Int))
  BY <1>2
<1>4. r.mask \in {<<>>} \cup [1 .. n -> BOOLEAN]
  BY DEF MaskedOf
<1>5. r.mask \in Seq(BOOLEAN) /\ (r.mask = <<>> \/ Len(r.mask) = n)
  <2>1. CASE r.mask = <<>>
    BY <2>1
  <2>2. CASE r.mask \in [1 .. n -> BOOLEAN]
    BY <2>2
  <2> QED BY <1>4, <2>1, <2>2
<1>6. r = [storage |-> "masked", type |-> r.type, nod |-> r.nod, data |-> r.data, mask |-> r.mask]
      /\ r.type \in Types /\ r.nod \in Number \cup {None}
  BY DEF MaskedOf
<1>7. r \in MaskedType
  BY <1>3, <1>5, <1>6 DEF MaskedType
<1> QED BY <1>3, <1>5, <1>7 DEF RasterOK

LEMMA MaskedOtherRaster ==
    ASSUME RasterOK(raster), Masked(raster), NEW s \in Others
    PROVE  MaskedOf(s, Len(raster.data)) /\ \A i \in 1 .. Len(raster.data) : s.data[i] # None
<1>0. PICK type \in Types : \E nod \in NumbersOf(type), k \in 0 .. 2 :
         s = FromData(raster.storage, type, nod, [i \in DOMAIN raster.data |-> (i + k) % 3])
  BY DEF Others, Types
<1>1. PICK nod \in NumbersOf(type), k \in 0 .. 2 :
         s = FromData(raster.storage, type, nod, [i \in DOMAIN raster.data |-> (i + k) % 3])
  BY <1>0
<1> DEFINE n == Len(raster.data)
           elements == [i \in 1 .. n |-> (i + k) % 3]
<1>2. n \in Nat \ {0} /\ DOMAIN raster.data = 1 .. n /\ nod \in Number \cup {None}
  BY PresentParts, NumbersTyped
<1>3. s = M!FromData(type, nod, elements)
  BY <1>1, <1>2 DEF FromData, Masked
<1>4. elements = [i \in 1 .. n |-> elements[i]]
  OBVIOUS
<1>5. ASSUME NEW i \in 1 .. n PROVE elements[i] \in Int
  <2>1. elements[i] = (i + k) % 3 /\ i \in Int /\ k \in Int
    BY <1>2
  <2> QED BY <2>1
<1> HIDE DEF elements
<1>6. \A i \in 1 .. n : elements[i] \in Number /\ (type = "uint" => elements[i] \in Int)
  BY <1>5 DEF Number
<1>7. MaskedHolds(s, n, type)
  <2>1. Given(n, type, nod, elements)
    BY <1>2, <1>4, <1>6 DEF Given
  <2> HIDE DEF n
  <2> QED BY <1>3, <2>1, MaskedFromData
<1> QED BY <1>7, ElementsAssumption DEF MaskedHolds, Number

\* The number that a masked raster takes over.
MaskedNumber(s, op) ==
    LET taken == IF raster.nod # None THEN raster.nod ELSE M!Highest(raster.type, s.nod)
    IN  IF op = "divides" /\ taken = None
        THEN IF has_nan(raster.type) THEN NaN ELSE Modulus - 1 ELSE taken

LEMMA MaskedRasterInPlace ==
    ASSUME RasterOK(raster), Masked(raster), RasterInPlace
    PROVE  Step
<1>1. PICK s \in CastOthers, op \in Arithmetics : Makes([op |-> op, s |-> s], M!InPlace(raster, s, op))
  BY DEF RasterInPlace
<1> DEFINE r == M!InPlace(raster, s, op)
           n == Len(raster.data)
           nod == MaskedNumber(s, op)
           skips(i) == \/ M!is_nodata(raster, i) \/ M!is_nodata(s, i)
                       \/ op = "divides" /\ s.data[i] = 0
           marked == {i \in 1 .. n : skips(i)}
           data == [i \in 1 .. n |-> IF skips(i) THEN raster.data[i]
                                     ELSE Compute(raster.type, op, raster.data[i], s.data[i])]
           t == [raster EXCEPT !.nod = nod, !.data = data]
<1>2. Makes([op |-> op, s |-> s], r)
  BY <1>1
<1>3. MaskedOf(s, n) /\ \A i \in 1 .. n : s.data[i] # None
  BY MaskedOtherRaster DEF CastOthers
<1>4. nod \in Number \cup {None}
  <2>1. raster.nod \in Number \cup {None} /\ s.nod \in Number \cup {None}
    BY <1>3, PresentParts DEF MaskedOf
  <2>2. Modulus - 1 \in Number /\ NaN \in Number
    BY ElementsAssumption DEF Number
  <2>3. M!Highest(raster.type, s.nod) \in Number \cup {None}
    BY <2>1, <2>2 DEF M!Highest
  <2> QED BY <2>1, <2>2, <2>3 DEF MaskedNumber
<1>5. data = [i \in 1 .. n |-> data[i]] /\ marked \subseteq 1 .. n
  OBVIOUS
<1>0. t = [storage |-> "masked", type |-> raster.type, nod |-> nod, data |-> data,
           mask |-> raster.mask]
  <2> HIDE DEF data, nod
  <2> DEFINE u == [raster EXCEPT !.nod = nod]
  <2>1. u = [storage |-> "masked", type |-> raster.type, nod |-> nod, data |-> raster.data,
             mask |-> raster.mask]
    BY PresentMasked, MaskedRenumbered
  <2>2. t = [u EXCEPT !.data = data]
    BY Zenon
  <2> HIDE DEF u, t
  <2> QED BY <2>1, <2>2
<1>6. \A i \in 1 .. n : /\ i \in marked <=> skips(i)
                        /\ i \notin marked =>
                              data[i] = Compute(raster.type, op, raster.data[i], s.data[i])
  OBVIOUS
<1>7. r = Marking(t, n, marked)
  <2> DEFINE made == [i \in 1 .. n |-> IF skips(i) THEN raster.data[i]
                                       ELSE M!Compute(raster.type, op, raster.data[i], s.data[i])]
             u == [raster EXCEPT !.nod = nod, !.data = made]
  <2>1. r = IF \E i \in M!Cells(u) : skips(i)
            THEN [u EXCEPT !.mask = [i \in M!Cells(u) |-> M!is_nodata(u, i) \/ skips(i)]] ELSE u
    BY PresentParts DEF M!InPlace, M!MarkedWhere, MaskedNumber, M!has_nan, has_nan
  <2>2. made = data
    BY SameElements
  <2>3. M!Cells(t) = 1 .. n
    <3> HIDE DEF data, nod
    <3>1. t.data = data
      BY <1>0
    <3> HIDE DEF t
    <3> QED BY <1>5, <3>1 DEF M!Cells
  <2>4. u = t
    BY <2>2
  <2> HIDE DEF u, t, skips, r, made, data
  <2>5. r = IF \E i \in 1 .. n : skips(i)
            THEN [t EXCEPT !.mask = [i \in 1 .. n |-> M!is_nodata(t, i) \/ skips(i)]] ELSE t
    BY <2>1, <2>3, <2>4
  <2>6. (\E i \in 1 .. n : skips(i)) <=> marked # {}
    BY Zenon
  <2> HIDE DEF marked
  <2>7. [i \in 1 .. n |-> M!is_nodata(t, i) \/ skips(i)] =
        [i \in 1 .. n |-> M!is_nodata(t, i) \/ i \in marked]
    BY <1>6, Zenon
  <2> QED BY <2>5, <2>6, <2>7, Zenon DEF Marking
<1> HIDE DEF r, data, nod, marked
<1>8. t = [storage |-> "masked", type |-> raster.type, nod |-> nod, data |-> data,
           mask |-> raster.mask]
  BY <1>0
<1> HIDE DEF t
<1>9. /\ MaskedOf(t, n) /\ t.type = raster.type
      /\ \A i \in 1 .. n :
            Contents(t)[i] = IF raster.mask # <<>> /\ raster.mask[i] THEN None ELSE data[i]
  <2>1. Parts(t, nod, data, raster.mask)
    BY <1>4, <1>5, <1>8, PresentParts DEF Parts
  <2> QED BY <1>8, <2>1, MaskedParts
<1>10. /\ MaskedOf(r, n) /\ r.type = raster.type
       /\ \A i \in 1 .. n : Contents(r)[i] = IF i \in marked THEN None ELSE Contents(t)[i]
  BY <1>5, <1>7, <1>9, PresentMasked, MarkingContents
<1>11. /\ call'.op = op /\ call'.type = raster.type /\ call'.other = Contents(s)
  BY <1>2, <1>10, RasterCall
<1>12. ASSUME NEW i \in 1 .. n PROVE MaskedElement(r, i)
  <2> DEFINE x == Contents(raster)[i]
             y == Contents(s)[i]
  <2>1. x = IF M!is_nodata(raster, i) THEN None ELSE raster.data[i]
    BY PresentParts
  <2>2. y = IF M!is_nodata(s, i) THEN None ELSE s.data[i]
    BY <1>3, MaskedContents DEF M!is_nodata, M!has_nodata, M!NoMask
  <2>3. Promise!Wanted(call', i, x, y) =
           IF x = None \/ y = None \/ (op = "divides" /\ y = 0) THEN None
           ELSE Compute(raster.type, op, x, y)
    BY <1>11, SameElements DEF Promise!Wanted, Promise!Arithmetic, Arithmetics
  <2>4. raster.data[i] # None /\ s.data[i] # None
    BY <1>3, PresentParts
  <2>5. CASE i \in marked
    <3>1. Promise!Wanted(call', i, x, y) = None
      BY <1>6, <2>1, <2>2, <2>3, <2>5
    <3> QED BY <1>10, <1>11, <2>5, <3>1, OtherRead DEF MaskedElement, Promise!AsRead
  <2>6. CASE i \notin marked
    <3>1. ~skips(i)
      BY <1>6, <2>6
    <3>2. Promise!Wanted(call', i, x, y) = data[i]
      BY <1>6, <2>1, <2>2, <2>3, <2>4, <2>6, <3>1
    <3>3. Contents(r)[i] = data[i]
      BY <1>9, <1>10, <2>6, <3>1, PresentParts
    <3> QED BY <1>11, <3>2, <3>3, OtherRead DEF MaskedElement, Promise!AsRead
  <2> QED BY <2>5, <2>6
<1> QED BY <1>2, <1>10, <1>12, MaskedCall

-----------------------------------------------------------------------------
(* The specification *)

LEMMA NextKeeps ==
    ASSUME RasterOK(raster), Next
    PROVE  Step
<1>1. CASE ~Masked(raster)
  <2>1. ~AddOrAssign \/ ~Masked(raster)
    BY <1>1
  <2> QED BY <1>1, DenseFill, DenseResizeAndFill, DenseFillValues, DenseFillWithNodata,
             DenseMarkAsNodata, DenseSetValue, DenseAddToCell, DenseSetNodata, DenseReplaceNodata,
             DenseTurnValueIntoNodata, DenseReplace, DenseAddOrAssign, DenseAddOrAssignScalar,
             DenseRasterInPlace, DenseScalarInPlace, DenseReread, DenseCast DEF Next
<1>2. CASE Masked(raster)
  <2>1. ~ReplaceNodata /\ ~AddOrAssign /\ ~AddOrAssignScalar
    BY <1>2 DEF ReplaceNodata, AddOrAssign, AddOrAssignScalar
  <2> QED BY <1>2, <2>1, MaskedFill, MaskedResizeAndFill, MaskedFillValues, MaskedFillWithNodata,
             MaskedMarkAsNodata, MaskedSetValue, MaskedAddToCell, MaskedSetNodata,
             MaskedTurnValueIntoNodata, MaskedReplace, MaskedRasterInPlace, MaskedScalarInPlace,
             MaskedReread, MaskedCast DEF Next
<1> QED BY <1>1, <1>2

LEMMA InitKeeps == Init => RasterOK(raster) /\ Promise!Init
<1> SUFFICES ASSUME Init PROVE RasterOK(raster) /\ Promise!Init
  OBVIOUS
<1>1. PICK storage \in {"dense", "masked"}, type \in Types, n \in 1 .. MaxCells :
         \E nod \in NumbersOf(type) :
            \/ \E data \in [1 .. n -> ElementsOf(type)] : raster = FromData(storage, type, nod, data)
            \/ \E v \in ElementsOf(type) : raster = Filled(storage, type, nod, n, v)
  BY DEF Init, Types
<1>2. PICK nod \in NumbersOf(type) :
         \/ \E data \in [1 .. n -> ElementsOf(type)] : raster = FromData(storage, type, nod, data)
         \/ \E v \in ElementsOf(type) : raster = Filled(storage, type, nod, n, v)
  BY <1>1
<1>3. n \in Nat \ {0} /\ nod \in Number \cup {None}
  BY StorageAssumption, NumbersTyped
<1>4. ElementsOf(type) \subseteq Number /\ (type = "uint" => ElementsOf(type) \subseteq Int)
  BY ElementsTyped
<1>5. RasterOK(raster)
  <2>1. ASSUME NEW data \in [1 .. n -> ElementsOf(type)], raster = FromData(storage, type, nod, data)
        PROVE  RasterOK(raster)
    <3>1. data = [i \in 1 .. n |-> data[i]]
      OBVIOUS
    <3>2. \A i \in 1 .. n : data[i] \in Number /\ (type = "uint" => data[i] \in Int)
      BY <1>4
    <3>3. Given(n, type, nod, data)
      BY <1>3, <3>1, <3>2 DEF Given
    <3>4. CASE storage = "dense"
      <4>1. raster = D!FromData(type, nod, data)
        BY <2>1, <3>4 DEF FromData
      <4>2. DenseHolds(raster, n, data)
        BY <3>3, <4>1, DenseFromData
      <4> QED BY <4>2 DEF DenseHolds
    <3>5. CASE storage = "masked"
      <4>1. raster = M!FromData(type, nod, data)
        BY <2>1, <3>5 DEF FromData
      <4>2. MaskedHolds(raster, n, type)
        BY <3>3, <4>1, MaskedFromData
      <4>3. /\ MaskedOf(raster, n)
            /\ \A i \in 1 .. n : raster.data[i] \in Number /\ (raster.type = "uint" => raster.data[i] \in Int)
        BY <4>2 DEF MaskedHolds
      <4> QED BY <1>3, <4>3, MaskedTyped
    <3> QED BY <3>4, <3>5
  <2>2. ASSUME NEW v \in ElementsOf(type), raster = Filled(storage, type, nod, n, v)
        PROVE  RasterOK(raster)
    <3>1. CASE storage = "dense"
      <4> DEFINE w == IF has_nan(type) /\ nod # None /\ v = nod THEN NaN ELSE v
                 data == [i \in 1 .. n |-> w]
      <4>1. raster = [storage |-> "dense", type |-> type, nod |-> nod, data |-> data]
        BY <2>2, <3>1 DEF Filled, D!Filled, D!Raster, D!has_nan, has_nan
      <4>2. w \in Number /\ (type = "uint" => w \in Int)
        BY <1>4 DEF Number, has_nan
      <4> HIDE DEF w
      <4>3. data \in [1 .. n -> Number] /\ (type = "uint" => data \in [1 .. n -> Int])
        BY <4>2
      <4> HIDE DEF data
      <4>4. data \in Seq(Number) /\ Len(data) = n /\ (type = "uint" => data \in Seq(Int))
        BY <1>3, <4>3
      <4>5. raster \in DenseType
        BY <1>3, <4>1, <4>4 DEF DenseType
      <4> QED BY <1>3, <4>1, <4>4, <4>5 DEF RasterOK, Masked
    <3>2. CASE storage = "masked"
      <4> DEFINE t == M!Raster(type, nod, [i \in 1 .. n |-> v], <<>>)
      <4>1. raster = M!fill(t, v)
        BY <2>2, <3>2 DEF Filled, M!Filled, M!NoMask
      <4>2. t = [storage |-> "masked", type |-> type, nod |-> nod, data |-> [i \in 1 .. n |-> v],
                 mask |-> <<>>]
        BY DEF M!Raster
      <4> HIDE DEF t
      <4>3. MaskedOf(t, n) /\ t.type = type
        BY <1>3, <4>2 DEF MaskedOf
      <4> DEFINE bits == IF t.nod = None THEN t.mask
                         ELSE IF v = t.nod THEN [i \in 1 .. n |-> TRUE] ELSE <<>>
      <4>4. raster = [storage |-> "masked", type |-> type, nod |-> t.nod, data |-> [i \in 1 .. n |-> v],
                      mask |-> bits]
        BY <4>1, <4>3, MaskedFilled
      <4>5. bits \in {<<>>} \cup [1 .. n -> BOOLEAN] /\ t.nod \in Number \cup {None}
        BY <4>3 DEF MaskedOf
      <4> HIDE DEF bits
      <4>6. MaskedOf(raster, n)
        BY <4>4, <4>5 DEF MaskedOf
      <4>7. raster.type = type /\ \A i \in 1 .. n : raster.data[i] = v
        BY <4>4
      <4> QED BY <1>3, <1>4, <4>6, <4>7, MaskedTyped
    <3> QED BY <3>1, <3>2
  <2> QED BY <1>2, <2>1, <2>2
<1>6. Promise!Init
  <2>1. DOMAIN Contents(raster) = DOMAIN raster.data
    BY DEF Contents
  <2>2. ASSUME NEW i \in DOMAIN raster.data PROVE Contents(raster)[i] \in Number \cup {None}
    <3>1. CASE ~Masked(raster)
      BY <1>5, <3>1, DenseShape
    <3>2. CASE Masked(raster)
      BY <1>5, <3>2, MaskedShape
    <3> QED BY <3>1, <3>2
  <2> QED BY <2>1, <2>2 DEF Promise!Init, Number
<1> QED BY <1>5, <1>6

LEMMA StutterKeeps ==
    ASSUME RasterOK(raster), UNCHANGED storageVars
    PROVE  RasterOK(raster') /\ UNCHANGED <<Contents(raster), call>>
<1>1. raster' = raster /\ call' = call
  BY DEF storageVars
<1>2. Contents(raster)' = Contents(raster)
  BY <1>1
<1> QED BY <1>1, <1>2

\* Whatever the storage, the type, the size, the numbers and the elements of a
\* raster: every call of a member of DenseRaster or MaskedRaster does to every
\* cell what OptionalRaster promises, and to no other cell anything.
THEOREM StoragesKeepPromise == Spec => KeepsPromise
<1>1. Init => RasterOK(raster) /\ Promise!Init
  BY InitKeeps
<1>2. RasterOK(raster) /\ [Next]_storageVars =>
         RasterOK(raster)' /\ [Promise!Next]_<<Contents(raster), call>>
  <2>1. CASE UNCHANGED storageVars
    BY <2>1, StutterKeeps
  <2>2. CASE Next
    BY <2>2, NextKeeps DEF Step
  <2> QED BY <2>1, <2>2
<1> QED BY <1>1, <1>2, PTL DEF Spec, KeepsPromise, Promise!Spec
-----------------------------------------------------------------------------
(* Operators that make a raster out of the present one: dense rasters *)

\* The operation on two elements that have been read.
LEMMA ArithmeticIs ==
    ASSUME NEW type, NEW op, NEW a, NEW b
    PROVE  Promise!Arithmetic(type, op, a, b) =
              IF a = None \/ b = None \/ (op = "divides" /\ b = 0) THEN None
              ELSE Compute(type, op, a, b)
BY SameElements DEF Promise!Arithmetic

\* What remains to be shown of an element of a dense raster.
DenseShown(t, i, op, left, right, numbers) ==
    \E x \in Promise!AsRead(left, numbers), y \in Promise!AsRead(right, numbers) :
       LET w == Promise!Arithmetic(t.type, op, x, y)
       IN  w = t.data[i] \/ (w = None /\ D!is_nodata(t, i))

LEMMA DenseComputes ==
    ASSUME NEW t, ~Masked(t), NEW op \in Arithmetics, NEW left, NEW right, NEW numbers,
           InBandNumbers(t) \subseteq numbers,
           \A i \in DOMAIN t.data : DenseShown(t, i, op, left[i], right[i], numbers)
    PROVE  Computes(t, op, left, right, numbers)
<1> DEFINE c == [op |-> op, type |-> t.type, other |-> right, numbers |-> numbers]
<1> SUFFICES ASSUME NEW i \in DOMAIN t.data PROVE Promise!Kept(c, i, left[i], Contents(t)[i])
  BY DEF Computes
<1>1. PICK x \in Promise!AsRead(left[i], numbers), y \in Promise!AsRead(right[i], numbers) :
         LET w == Promise!Arithmetic(t.type, op, x, y)
         IN  w = t.data[i] \/ (w = None /\ D!is_nodata(t, i))
  BY DEF DenseShown
<1>2. Promise!Wanted(c, i, x, y) = Promise!Arithmetic(t.type, op, x, y)
  BY DEF Promise!Wanted, Arithmetics
<1>3. Contents(t)[i] = IF D!is_nodata(t, i) THEN None ELSE t.data[i]
  BY DEF Contents, IsNodata
<1>4. D!is_nodata(t, i) => t.data[i] \in numbers
  BY ElementsAssumption DEF D!is_nodata, D!has_nan, has_nan, InBandNumbers
<1>5. Contents(t)[i] \in Promise!AsRead(Promise!Wanted(c, i, x, y), numbers)
  BY <1>1, <1>2, <1>3, <1>4 DEF Promise!AsRead
<1>6. c.other[i] = right[i] /\ c.numbers = numbers
  OBVIOUS
<1> HIDE DEF c
<1> QED BY <1>1, <1>5, <1>6 DEF Promise!Kept

\* How an element of a dense raster can be read.
LEMMA DenseReading ==
    ASSUME NEW r, RasterOK(r), ~Masked(r), NEW i \in 1 .. Len(r.data), NEW numbers,
           InBandNumbers(r) \subseteq numbers
    PROVE  /\ Contents(r)[i] \in Promise!AsRead(Contents(r)[i], numbers)
           /\ ~D!is_nodata(r, i) => r.data[i] \in Promise!AsRead(Contents(r)[i], numbers)
           /\ D!is_nodata(r, i) \/ r.data[i] \in InBandNumbers(r) =>
                 None \in Promise!AsRead(Contents(r)[i], numbers)
<1>1. Contents(r)[i] = IF D!is_nodata(r, i) THEN None ELSE r.data[i]
  BY DenseShape
<1> QED BY <1>1 DEF Promise!AsRead


LEMMA DenseWithScalar ==
    ASSUME RasterOK(raster), ~Masked(raster), NEW op \in Arithmetics,
           NEW v \in ElementsOf(raster.type) \ {NaN}, op = "divides" => v # 0
    PROVE  LET t == WithScalar(raster, op, v)
           IN  Computes(t, op, Contents(raster), Constant(raster, v), NumbersIn(raster, raster, t))
<1> DEFINE n == Len(raster.data)
           t == WithScalar(raster, op, v)
           numbers == NumbersIn(raster, raster, t)
           numbered == ~has_nan(raster.type) /\ raster.nod # None
           data == [i \in 1 .. n |-> IF numbered /\ raster.data[i] = raster.nod THEN raster.nod
                                     ELSE Compute(raster.type, op, raster.data[i], v)]
<1>1. t = [storage |-> "dense", type |-> raster.type, nod |-> raster.nod, data |-> data]
  BY DenseShape, SameElements DEF WithScalar, D!perform_scalar_operation, D!Cells
<1> HIDE DEF t
<1>2. t.data = data /\ t.type = raster.type /\ t.nod = raster.nod /\ ~Masked(t)
  <2> HIDE DEF data
  <2> QED BY <1>1 DEF Masked
<1>3. v # None /\ v # NaN
  BY ElementsTyped, DenseShape, ElementsAssumption DEF Number
<1>4. ASSUME NEW i \in 1 .. n
      PROVE  DenseShown(t, i, op, Contents(raster)[i], Constant(raster, v)[i], numbers)
  <2> DEFINE x == raster.data[i]
  <2>1. t.data[i] = IF numbered /\ x = raster.nod THEN raster.nod ELSE Compute(raster.type, op, x, v)
    BY <1>2
  <2>2. v \in Promise!AsRead(Constant(raster, v)[i], numbers)
    BY DenseShape DEF Constant, Promise!AsRead
  <2>3. x # None
    BY DenseShape
  <2> HIDE DEF data
  <2>4. InBandNumbers(raster) \subseteq numbers
    BY DEF NumbersIn
  <2> HIDE DEF numbers
  <2>5. CASE D!is_nodata(raster, i)
    <3>1. None \in Promise!AsRead(Contents(raster)[i], numbers)
      BY <2>4, <2>5, DenseReading
    <3>2. D!is_nodata(t, i)
      BY <1>2, <2>1, <2>5 DEF D!is_nodata, D!has_nan, has_nan, Compute
    <3>3. Promise!Arithmetic(t.type, op, None, v) = None
      BY ArithmeticIs
    <3> QED BY <2>2, <3>1, <3>2, <3>3 DEF DenseShown
  <2>6. CASE ~D!is_nodata(raster, i)
    <3>1. x \in Promise!AsRead(Contents(raster)[i], numbers)
      BY <2>4, <2>6, DenseReading
    <3>2. t.data[i] = Compute(raster.type, op, x, v)
      BY <2>1, <2>6 DEF D!is_nodata, D!has_nan, has_nan
    <3>3. Promise!Arithmetic(t.type, op, x, v) = Compute(raster.type, op, x, v)
      BY <1>2, <1>3, <2>3, ArithmeticIs
    <3> QED BY <2>2, <3>1, <3>2, <3>3 DEF DenseShown
  <2> QED BY <2>5, <2>6
<1>5. DOMAIN t.data = 1 .. n /\ InBandNumbers(t) \subseteq numbers
  BY <1>2 DEF NumbersIn
<1> HIDE DEF numbers
<1>6. Computes(t, op, Contents(raster), Constant(raster, v), numbers)
  BY <1>2, <1>4, <1>5, DenseComputes
<1> QED BY <1>6 DEF t, numbers

LEMMA DenseScalarMinus ==
    ASSUME RasterOK(raster), ~Masked(raster), NEW v \in ElementsOf(raster.type) \ {NaN},
           ~has_nan(raster.type) \/ raster.nod = NaN \/ \A i \in DOMAIN raster.data : raster.data[i] # raster.nod
    PROVE  LET t == ScalarMinus(v, raster)
           IN  Computes(t, "minus", Constant(raster, v), Contents(raster), NumbersIn(raster, raster, t))
<1> DEFINE n == Len(raster.data)
           t == ScalarMinus(v, raster)
           numbers == NumbersIn(raster, raster, t)
           data == [i \in 1 .. n |-> IF raster.data[i] = raster.nod THEN raster.nod
                                     ELSE Compute(raster.type, "minus", v, raster.data[i])]
<1>1. t = [storage |-> "dense", type |-> raster.type, nod |-> raster.nod, data |-> data]
  BY DenseShape, SameElements DEF ScalarMinus, D!ScalarMinus, D!minus_scalar_first, D!Raster, D!Cells
<1> HIDE DEF t
<1>2. t.data = data /\ t.type = raster.type /\ t.nod = raster.nod /\ ~Masked(t)
  <2> HIDE DEF data
  <2> QED BY <1>1 DEF Masked
<1>3. v # None /\ v # NaN
  BY ElementsTyped, DenseShape, ElementsAssumption DEF Number
<1>4. ASSUME NEW i \in 1 .. n
      PROVE  DenseShown(t, i, "minus", Constant(raster, v)[i], Contents(raster)[i], numbers)
  <2> DEFINE x == raster.data[i]
  <2>1. t.data[i] = IF x = raster.nod THEN raster.nod ELSE Compute(raster.type, "minus", v, x)
    BY <1>2
  <2>2. v \in Promise!AsRead(Constant(raster, v)[i], numbers)
    BY DenseShape DEF Constant, Promise!AsRead
  <2>3. x # None
    BY DenseShape
  <2> HIDE DEF data
  <2>4. InBandNumbers(raster) \subseteq numbers
    BY DEF NumbersIn
  <2> HIDE DEF numbers
  <2>5. CASE D!is_nodata(raster, i)
    <3>1. None \in Promise!AsRead(Contents(raster)[i], numbers)
      BY <2>4, <2>5, DenseReading
    <3>2. D!is_nodata(t, i)
      BY <1>2, <2>1, <2>5 DEF D!is_nodata, D!has_nan, has_nan, Compute
    <3>3. Promise!Arithmetic(t.type, "minus", v, None) = None
      BY ArithmeticIs
    <3> QED BY <2>2, <3>1, <3>2, <3>3 DEF DenseShown
  <2>6. CASE ~D!is_nodata(raster, i)
    <3>1. x \in Promise!AsRead(Contents(raster)[i], numbers)
      BY <2>4, <2>6, DenseReading
    <3>2. x # raster.nod
      BY <2>3, <2>6, DenseShape DEF D!is_nodata, D!has_nan, has_nan
    <3>3. Promise!Arithmetic(t.type, "minus", v, x) = Compute(raster.type, "minus", v, x)
      BY <1>2, <1>3, <2>3, ArithmeticIs
    <3> QED BY <2>1, <2>2, <3>1, <3>2, <3>3 DEF DenseShown
  <2> QED BY <2>5, <2>6
<1>5. DOMAIN t.data = 1 .. n /\ InBandNumbers(t) \subseteq numbers
  BY <1>2 DEF NumbersIn
<1> HIDE DEF numbers
<1>6. Computes(t, "minus", Constant(raster, v), Contents(raster), numbers)
  BY <1>2, <1>4, <1>5, DenseComputes DEF Arithmetics
<1> QED BY <1>6 DEF t, numbers

LEMMA DenseScalarDivided ==
    ASSUME RasterOK(raster), ~Masked(raster), NEW v \in ElementsOf(raster.type) \ {NaN},
           MayDivideScalar(raster), has_nan(raster.type)
    PROVE  LET t == ScalarDivided(v, raster)
           IN  Computes(t, "divides", Constant(raster, v), Contents(raster), NumbersIn(raster, raster, t))
<1> DEFINE n == Len(raster.data)
           t == ScalarDivided(v, raster)
           numbers == NumbersIn(raster, raster, t)
           data == [i \in 1 .. n |-> IF raster.data[i] = 0 THEN NaN
                                     ELSE Compute("float", "divides", v, raster.data[i])]
<1>1. t = [storage |-> "dense", type |-> "float", nod |-> raster.nod, data |-> data]
  BY DenseShape, SameElements DEF ScalarDivided, D!ScalarDivided, D!FloatElement, D!Raster, D!Cells
<1> HIDE DEF t
<1>2. t.data = data /\ t.type = "float" /\ t.nod = raster.nod /\ ~Masked(t)
  <2> HIDE DEF data
  <2> QED BY <1>1 DEF Masked
<1>3. v # None /\ v # NaN /\ raster.type = "float"
  BY ElementsTyped, DenseShape, ElementsAssumption DEF Number, has_nan
<1>4. ASSUME NEW i \in 1 .. n
      PROVE  DenseShown(t, i, "divides", Constant(raster, v)[i], Contents(raster)[i], numbers)
  <2> DEFINE x == raster.data[i]
  <2>1. t.data[i] = IF x = 0 THEN NaN ELSE Compute("float", "divides", v, x)
    BY <1>2
  <2>2. v \in Promise!AsRead(Constant(raster, v)[i], numbers)
    BY DenseShape DEF Constant, Promise!AsRead
  <2>3. x # None
    BY DenseShape
  <2> HIDE DEF data
  <2>4. InBandNumbers(raster) \subseteq numbers
    BY DEF NumbersIn
  <2> HIDE DEF numbers
  <2>5. CASE D!is_nodata(raster, i)
    <3>1. None \in Promise!AsRead(Contents(raster)[i], numbers)
      BY <2>4, <2>5, DenseReading
    <3>2. x = NaN
      BY <1>3, <2>5 DEF D!is_nodata, D!has_nan, has_nan
    <3>3. t.data[i] = NaN
      BY <2>1, <3>2 DEF Compute
    <3>4. D!is_nodata(t, i)
      BY <1>2, <2>5, <3>3 DEF D!is_nodata, D!has_nan, has_nan
    <3>5. Promise!Arithmetic(t.type, "divides", v, None) = None
      BY ArithmeticIs
    <3> QED BY <2>2, <3>1, <3>4, <3>5 DEF DenseShown
  <2>6. CASE ~D!is_nodata(raster, i)
    <3>1. x \in Promise!AsRead(Contents(raster)[i], numbers)
      BY <2>4, <2>6, DenseReading
    <3>2. CASE x = 0
      <4>1. raster.nod # None
        BY <3>2, DenseShape DEF MayDivideScalar, D!MayDivideScalar, D!Cells
      <4>2. D!is_nodata(t, i)
        BY <1>2, <2>1, <3>2, <4>1 DEF D!is_nodata, D!has_nan, has_nan
      <4>3. Promise!Arithmetic(t.type, "divides", v, x) = None
        BY <3>2, ArithmeticIs
      <4> QED BY <2>2, <3>1, <4>2, <4>3 DEF DenseShown
    <3>3. CASE x # 0
      <4>1. Promise!Arithmetic(t.type, "divides", v, x) = Compute("float", "divides", v, x)
        BY <1>2, <1>3, <2>3, <3>3, ArithmeticIs
      <4> QED BY <2>1, <2>2, <3>1, <3>3, <4>1 DEF DenseShown
    <3> QED BY <3>2, <3>3
  <2> QED BY <2>5, <2>6
<1>5. DOMAIN t.data = 1 .. n /\ InBandNumbers(t) \subseteq numbers
  BY <1>2 DEF NumbersIn
<1> HIDE DEF numbers
<1>6. Computes(t, "divides", Constant(raster, v), Contents(raster), numbers)
  BY <1>2, <1>4, <1>5, DenseComputes DEF Arithmetics
<1> QED BY <1>6 DEF t, numbers

\* The negative of an element is zero minus the element.
LEMMA NegatedIs ==
    ASSUME NEW x \in Number
    PROVE  Negated("float", x) = Compute("float", "minus", 0, x)
BY ElementsAssumption DEF Negated, Compute, Number

LEMMA DenseMinus ==
    ASSUME RasterOK(raster), ~Masked(raster), has_nan(raster.type)
    PROVE  Computes(Minus(raster), "minus", Constant(raster, 0), Contents(raster),
                    NumbersIn(raster, raster, raster))
<1> DEFINE n == Len(raster.data)
           t == Minus(raster)
           numbers == NumbersIn(raster, raster, raster)
           inBand(x) == raster.nod \notin {None, NaN} /\ x = raster.nod
           copied == [i \in 1 .. n |-> IF inBand(raster.data[i]) THEN NaN ELSE raster.data[i]]
           data == [i \in 1 .. n |-> Negated("float", copied[i])]
<1>1. raster.type = "float"
  BY DenseShape DEF has_nan
<1>2. t = [storage |-> "dense", type |-> "float", nod |-> raster.nod, data |-> data]
  <2> DEFINE copy == D!FromData(raster.type, raster.nod, raster.data)
  <2>1. DOMAIN raster.data = 1 .. n /\ raster.data = [i \in 1 .. n |-> raster.data[i]]
    <3>1. raster.data \in Seq(Number)
      BY DEF RasterOK, DenseType, MaskedType
    <3> QED BY <3>1
  <2>2. copy = [storage |-> "dense", type |-> "float", nod |-> raster.nod, data |-> copied]
    <3>1. D!Raster(raster.type, raster.nod, raster.data) =
             [storage |-> "dense", type |-> "float", nod |-> raster.nod, data |-> raster.data]
      BY <1>1 DEF D!Raster
    <3>2. CASE raster.nod \notin {None, NaN}
      <4> DEFINE s == D!Raster(raster.type, raster.nod, raster.data)
      <4>1. s.type = "float" /\ s.nod = raster.nod /\ s.data = raster.data
        BY <3>1
      <4> HIDE DEF s
      <4>2. D!FromData(raster.type, raster.nod, raster.data) = [s EXCEPT !.data = copied]
        BY <2>1, <3>2, <4>1 DEF D!FromData, D!init_nodata_values, D!has_nan, has_nan, D!Cells, s
      <4> HIDE DEF copied
      <4> QED BY <3>1, <4>2 DEF s
    <3>3. CASE raster.nod \in {None, NaN}
      <4>1. copied = raster.data
        BY <2>1, <3>3
      <4> QED BY <3>1, <3>3, <4>1 DEF D!FromData, D!init_nodata_values, D!has_nan, has_nan
    <3> QED BY <3>2, <3>3
  <2> HIDE DEF copy, copied
  <2>3. t = [copy EXCEPT !.data = [i \in 1 .. n |-> D!negate("float", raster.nod, copy.data[i])]]
    BY <1>1, <2>1, DenseShape DEF Minus, D!Minus, copy, D!Cells, Masked
  <2>4. \A x : D!negate("float", raster.nod, x) = Negated("float", x)
    BY DEF D!negate, D!has_nan, has_nan, D!Negated, Negated
  <2>5. [i \in 1 .. n |-> D!negate("float", raster.nod, copied[i])] = data
    BY <2>4
  <2> QED BY <2>2, <2>3, <2>5
<1> HIDE DEF t
<1>3. t.data = data /\ t.type = "float" /\ t.nod = raster.nod /\ ~Masked(t)
  <2> HIDE DEF data
  <2> QED BY <1>2 DEF Masked
<1>4. ASSUME NEW i \in 1 .. n
      PROVE  DenseShown(t, i, "minus", Constant(raster, 0)[i], Contents(raster)[i], numbers)
  <2> DEFINE x == raster.data[i]
             y == copied[i]
  <2>1. x \in Number /\ x # None /\ y = IF inBand(x) THEN NaN ELSE x
    BY DenseShape
  <2>2. t.data[i] = Compute("float", "minus", 0, y)
    <3>1. y \in Number /\ data[i] = Negated("float", y)
      BY <2>1 DEF Number
    <3> HIDE DEF y, data
    <3> QED BY <1>3, <3>1, NegatedIs
  <2>3. 0 \in Promise!AsRead(Constant(raster, 0)[i], numbers)
    BY DenseShape DEF Constant, Promise!AsRead
  <2> HIDE DEF data, copied
  <2>4. InBandNumbers(raster) \subseteq numbers
    BY DEF NumbersIn
  <2> HIDE DEF numbers
  <2>5. CASE D!is_nodata(raster, i) \/ inBand(x)
    <3>1. None \in Promise!AsRead(Contents(raster)[i], numbers)
      <4>1. inBand(x) => x \in InBandNumbers(raster)
        BY <1>1 DEF InBandNumbers, has_nan
      <4> QED BY <2>4, <2>5, <4>1, DenseReading
    <3>2. y = NaN /\ raster.nod # None
      BY <1>1, <2>1, <2>5 DEF D!is_nodata, D!has_nan, has_nan
    <3>3. t.data[i] = NaN
      BY <2>2, <3>2 DEF Compute
    <3>4. D!is_nodata(t, i)
      BY <1>3, <3>2, <3>3 DEF D!is_nodata, D!has_nan, has_nan
    <3>5. Promise!Arithmetic(t.type, "minus", 0, None) = None
      BY ArithmeticIs
    <3> QED BY <2>3, <3>1, <3>4, <3>5 DEF DenseShown
  <2>6. CASE ~D!is_nodata(raster, i) /\ ~inBand(x)
    <3>1. x \in Promise!AsRead(Contents(raster)[i], numbers)
      BY <2>4, <2>6, DenseReading
    <3>2. Promise!Arithmetic(t.type, "minus", 0, x) = Compute("float", "minus", 0, x)
      BY <1>3, <2>1, ArithmeticIs, ElementsAssumption
    <3>3. y = x
      BY <2>1, <2>6
    <3> QED BY <2>2, <2>3, <3>1, <3>2, <3>3 DEF DenseShown
  <2> QED BY <2>5, <2>6
<1>5. DOMAIN t.data = 1 .. n /\ InBandNumbers(t) \subseteq numbers
  BY <1>1, <1>3 DEF NumbersIn, InBandNumbers, Masked
<1> HIDE DEF numbers
<1>6. Computes(t, "minus", Constant(raster, 0), Contents(raster), numbers)
  BY <1>3, <1>4, <1>5, DenseComputes DEF Arithmetics
<1> QED BY <1>6 DEF t, numbers

\* The type and the number of the result of an operator on two rasters.
ResultType(s, op) == IF op = "divides" THEN "float" ELSE Widest(raster.type, s.type)
DenseResultNumber(s, op) ==
    IF op = "divides" THEN NaN
    ELSE D!assign_nodata_value(raster.nod, ResultType(s, op), raster.nod, s.nod)

LEMMA ResultNumberIs ==
    ASSUME RasterOK(raster), ~Masked(raster), NEW s, RasterOK(s), ~Masked(s), NEW op
    PROVE  /\ op = "divides" => DenseResultNumber(s, op) = NaN
           /\ op # "divides" /\ raster.nod # None => DenseResultNumber(s, op) = raster.nod
           /\ DenseResultNumber(s, op) = None => raster.nod = None /\ s.nod = None /\ op # "divides"
           /\ has_nan(raster.type) /\ has_nan(s.type) => ResultType(s, op) = "float"
<1>1. NaN # None /\ 0 # None
  BY ElementsAssumption
<1>2. \A type : D!nodata_for_type(type) # None
  BY <1>1 DEF D!nodata_for_type, D!has_nan
<1>3. raster.nod # None =>
         D!assign_nodata_value(raster.nod, ResultType(s, op), raster.nod, s.nod) = raster.nod
  BY DEF D!assign_nodata_value
<1>4. D!assign_nodata_value(raster.nod, ResultType(s, op), raster.nod, s.nod) = None =>
         raster.nod = None /\ s.nod = None
  <2> HIDE DEF ResultType
  <2>1. \A type, nod : D!find_best_nodata_value(type, None, nod) # None
    BY <1>2 DEF D!find_best_nodata_value
  <2> QED BY <2>1 DEF D!assign_nodata_value
<1>5. has_nan(raster.type) /\ has_nan(s.type) => ResultType(s, op) = "float"
  BY DEF ResultType, Widest, has_nan
<1> QED BY <1>1, <1>3, <1>4, <1>5 DEF DenseResultNumber

LEMMA DenseCombined ==
    ASSUME RasterOK(raster), ~Masked(raster), NEW s \in Others, NEW op \in Arithmetics
    PROVE  LET t == Combined(raster, s, op)
           IN  Computes(t, op, Contents(raster), Contents(s), NumbersIn(raster, s, t))
<1> DEFINE n == Len(raster.data)
           t == Combined(raster, s, op)
           numbers == NumbersIn(raster, s, t)
           type == ResultType(s, op)
           nod == DenseResultNumber(s, op)
           floats == has_nan(raster.type) /\ has_nan(s.type)
           numbered == ~has_nan(raster.type) /\ ~has_nan(s.type) /\ raster.nod # None /\ s.nod # None
           element(i) == IF floats THEN D!FloatElement(op, raster.data[i], s.data[i])
                         ELSE IF numbered
                              THEN D!IntElement(type, op, IF has_nan(type) THEN NaN ELSE nod,
                                                raster.nod, s.nod, raster.data[i], s.data[i])
                              ELSE D!FallbackElement(raster, s, i, type, op, nod)
           data == [i \in 1 .. n |-> element(i)]
<1>1. RasterOK(s) /\ ~Masked(s) /\ Len(s.data) = n
  BY DenseOther
<1>2. /\ op = "divides" => nod = NaN
      /\ op # "divides" /\ raster.nod # None => nod = raster.nod
      /\ nod = None => raster.nod = None /\ s.nod = None /\ op # "divides"
      /\ floats => type = "float"
  BY <1>1, ResultNumberIs
<1>3. t = D!raster_operation(raster, s, type, op, nod)
  BY DEF Combined, D!perform_raster_operation, ResultType, DenseResultNumber, D!Widest, Widest,
         D!has_nan, has_nan
<1> HIDE DEF t, nod, type
<1>4. t = [storage |-> "dense", type |-> type, nod |-> nod, data |-> data]
  <2> DEFINE made == [i \in D!Cells(raster) |->
                        CASE D!has_nan(raster.type) /\ D!has_nan(s.type)
                                -> D!FloatElement(op, raster.data[i], s.data[i])
                          [] ~D!has_nan(raster.type) /\ ~D!has_nan(s.type) /\ raster.nod # None /\ s.nod # None
                                -> D!IntElement(type, op, IF D!has_nan(type) THEN NaN ELSE nod,
                                                raster.nod, s.nod, raster.data[i], s.data[i])
                          [] OTHER -> D!FallbackElement(raster, s, i, type, op, nod)]
  <2>1. t = [storage |-> "dense", type |-> type, nod |-> nod, data |-> made]
    BY <1>3 DEF D!raster_operation, D!Raster
  <2>2. D!Cells(raster) = 1 .. n
    BY DenseShape DEF D!Cells
  <2>3. ASSUME NEW i \in 1 .. n PROVE made[i] = element(i)
    <3>1. CASE floats
      BY <2>2, <3>1 DEF D!has_nan, has_nan
    <3>2. CASE numbered
      BY <2>2, <3>2 DEF D!has_nan, has_nan
    <3>3. CASE ~floats /\ ~numbered
      BY <2>2, <3>3 DEF D!has_nan, has_nan
    <3> QED BY <3>1, <3>2, <3>3
  <2> HIDE DEF element
  <2>4. made = data
    BY <2>2, <2>3
  <2> QED BY <2>1, <2>4
<1> HIDE DEF element
<1>5. t.data = data /\ t.type = type /\ t.nod = nod /\ ~Masked(t)
  <2> HIDE DEF data
  <2> QED BY <1>4 DEF Masked
<1>6. /\ InBandNumbers(raster) \subseteq numbers /\ InBandNumbers(s) \subseteq numbers
      /\ InBandNumbers(t) \subseteq numbers
  BY DEF NumbersIn
<1>7. ASSUME NEW i \in 1 .. n
      PROVE  DenseShown(t, i, op, Contents(raster)[i], Contents(s)[i], numbers)
  <2> DEFINE x == raster.data[i]
             y == s.data[i]
             byZero == op = "divides" /\ y = 0
  <2>1. t.data[i] = element(i)
    BY <1>5
  <2> HIDE DEF data, numbers
  <2>2. x # None /\ y # None /\ (raster.type = "uint" => x # NaN) /\ (s.type = "uint" => y # NaN)
    BY <1>1, DenseShape
  <2>3. /\ ~D!is_nodata(raster, i) => x \in Promise!AsRead(Contents(raster)[i], numbers)
        /\ D!is_nodata(raster, i) \/ x \in InBandNumbers(raster) =>
              None \in Promise!AsRead(Contents(raster)[i], numbers)
        /\ Contents(raster)[i] \in Promise!AsRead(Contents(raster)[i], numbers)
    BY <1>6, DenseReading
  <2>4. /\ ~D!is_nodata(s, i) => y \in Promise!AsRead(Contents(s)[i], numbers)
        /\ D!is_nodata(s, i) \/ y \in InBandNumbers(s) =>
              None \in Promise!AsRead(Contents(s)[i], numbers)
        /\ Contents(s)[i] \in Promise!AsRead(Contents(s)[i], numbers)
    BY <1>1, <1>6, DenseReading
  <2>5. ASSUME D!is_nodata(t, i),
               \/ D!is_nodata(raster, i) \/ x \in InBandNumbers(raster)
               \/ D!is_nodata(s, i) \/ y \in InBandNumbers(s)
               \/ byZero
        PROVE  DenseShown(t, i, op, Contents(raster)[i], Contents(s)[i], numbers)
    <3>1. CASE D!is_nodata(raster, i) \/ x \in InBandNumbers(raster)
      <4>1. \A b : Promise!Arithmetic(t.type, op, None, b) = None
        BY ArithmeticIs
      <4> QED BY <2>3, <2>4, <2>5, <3>1, <4>1 DEF DenseShown
    <3>2. CASE D!is_nodata(s, i) \/ y \in InBandNumbers(s)
      <4>1. \A a : Promise!Arithmetic(t.type, op, a, None) = None
        BY ArithmeticIs
      <4> QED BY <2>3, <2>4, <2>5, <3>2, <4>1 DEF DenseShown
    <3>3. CASE byZero /\ ~D!is_nodata(s, i)
      <4>1. \A a : Promise!Arithmetic(t.type, op, a, y) = None
        BY <3>3, ArithmeticIs
      <4> QED BY <2>3, <2>4, <2>5, <3>3, <4>1 DEF DenseShown
    <3> QED BY <2>5, <3>1, <3>2, <3>3
  <2>6. ASSUME ~D!is_nodata(raster, i), ~D!is_nodata(s, i), ~byZero,
               t.data[i] = Compute(type, op, x, y)
        PROVE  DenseShown(t, i, op, Contents(raster)[i], Contents(s)[i], numbers)
    <3>1. Promise!Arithmetic(t.type, op, x, y) = t.data[i]
      BY <1>5, <2>2, <2>6, ArithmeticIs
    <3> QED BY <2>3, <2>4, <2>6, <3>1 DEF DenseShown
  <2>7. CASE floats
    <3>1. t.data[i] = IF byZero THEN NaN ELSE Compute(type, op, x, y)
      BY <1>2, <2>1, <2>7, SameElements DEF element, D!FloatElement
    <3>2. CASE nod # None /\ (NaN \in {x, y} \/ byZero)
      <4>1. t.data[i] = NaN
        BY <3>1, <3>2 DEF Compute
      <4>2. D!is_nodata(t, i)
        BY <1>2, <1>5, <2>7, <3>2, <4>1 DEF D!is_nodata, D!has_nan, has_nan
      <4>3. NaN \in InBandNumbers(raster) /\ NaN \in InBandNumbers(s)
        BY <1>1, <2>7, ElementsAssumption DEF InBandNumbers
      <4> QED BY <2>5, <3>2, <4>2, <4>3
    <3>3. CASE ~(nod # None /\ (NaN \in {x, y} \/ byZero))
      <4>1. ~D!is_nodata(raster, i) /\ ~D!is_nodata(s, i) /\ ~byZero
        BY <1>2, <2>7, <3>3 DEF D!is_nodata, D!has_nan, has_nan
      <4> QED BY <2>6, <3>1, <4>1
    <3> QED BY <3>2, <3>3
  <2>8. CASE numbered
    <3> DEFINE skips == x = raster.nod \/ y = s.nod \/ byZero
    <3>1. t.data[i] = IF skips THEN IF has_nan(type) THEN NaN ELSE nod ELSE Compute(type, op, x, y)
      BY <2>1, <2>8, SameElements DEF element, D!IntElement
    <3>2. CASE skips
      <4>1. D!is_nodata(t, i)
        BY <1>2, <1>5, <2>8, <3>1, <3>2 DEF D!is_nodata, D!has_nan, has_nan
      <4>2. /\ x = raster.nod => D!is_nodata(raster, i)
            /\ y = s.nod => D!is_nodata(s, i)
        BY <2>8 DEF D!is_nodata, D!has_nan, has_nan
      <4> QED BY <2>5, <3>2, <4>1, <4>2
    <3>3. CASE ~skips
      <4>1. ~D!is_nodata(raster, i) /\ ~D!is_nodata(s, i) /\ ~byZero
        BY <2>8, <3>3 DEF D!is_nodata, D!has_nan, has_nan
      <4> QED BY <2>6, <3>1, <3>3, <4>1
    <3> QED BY <3>2, <3>3
  <2>9. CASE ~floats /\ ~numbered
    <3> DEFINE skips == nod # None /\ (D!is_nodata(raster, i) \/ D!is_nodata(s, i) \/ byZero)
    <3>1. t.data[i] = IF skips THEN IF has_nan(type) THEN NaN ELSE nod ELSE Compute(type, op, x, y)
      BY <2>1, <2>9, SameElements DEF element, D!FallbackElement, D!has_nan, has_nan
    <3>2. CASE skips
      <4>1. D!is_nodata(t, i)
        BY <1>5, <3>1, <3>2 DEF D!is_nodata, D!has_nan, has_nan
      <4> QED BY <2>5, <3>2, <4>1
    <3>3. CASE ~skips
      <4>1. ~D!is_nodata(raster, i) /\ ~D!is_nodata(s, i) /\ ~byZero
        BY <1>2, <3>3 DEF D!is_nodata
      <4> QED BY <2>6, <3>1, <3>3, <4>1
    <3> QED BY <3>2, <3>3
  <2> QED BY <2>7, <2>8, <2>9
<1>8. DOMAIN t.data = 1 .. n
  BY <1>5
<1> HIDE DEF numbers, data
<1>9. Computes(t, op, Contents(raster), Contents(s), numbers)
  BY <1>5, <1>6, <1>7, <1>8, DenseComputes
<1> QED BY <1>9 DEF t, numbers

-----------------------------------------------------------------------------
(* Operators that make a raster out of the present one: masked rasters *)

\* No number is in band, so every element is as the operation says.
LEMMA MaskedComputes ==
    ASSUME NEW t, NEW op \in Arithmetics, NEW left, NEW right, NEW numbers,
           \A i \in DOMAIN t.data : Contents(t)[i] = Promise!Arithmetic(t.type, op, left[i], right[i])
    PROVE  Computes(t, op, left, right, numbers)
<1> DEFINE c == [op |-> op, type |-> t.type, other |-> right, numbers |-> numbers]
<1> SUFFICES ASSUME NEW i \in DOMAIN t.data PROVE Promise!Kept(c, i, left[i], Contents(t)[i])
  BY DEF Computes
<1>1. Promise!Wanted(c, i, left[i], right[i]) = Contents(t)[i]
  BY DEF Promise!Wanted, Arithmetics
<1>2. c.other[i] = right[i]
  OBVIOUS
<1> HIDE DEF c
<1> QED BY <1>1, <1>2 DEF Promise!Kept, Promise!AsRead

\* A mask marks what either of two masks marks.
AnyMask(n) == {<<>>} \cup [1 .. n -> BOOLEAN]
Either(n, bits, mask1, mask2) ==
    \A i \in 1 .. n :
       bits # <<>> /\ bits[i] <=> (mask1 # <<>> /\ mask1[i]) \/ (mask2 # <<>> /\ mask2[i])

LEMMA CombinedMask ==
    ASSUME NEW n \in Nat \ {0}, NEW mask1 \in AnyMask(n), NEW mask2 \in AnyMask(n)
    PROVE  LET bits == M!combine_mask(mask1, mask2)
           IN  bits \in AnyMask(n) /\ Either(n, bits, mask1, mask2)
<1> DEFINE bits == M!combine_mask(mask1, mask2)
<1> USE DEF AnyMask, Either
<1> SUFFICES bits \in AnyMask(n) /\ Either(n, bits, mask1, mask2)
  OBVIOUS
<1>1. CASE mask2 = <<>>
  BY <1>1 DEF M!combine_mask, M!NoMask
<1>2. CASE mask1 = <<>> /\ mask2 # <<>>
  BY <1>2 DEF M!combine_mask, M!NoMask
<1>3. CASE mask1 # <<>> /\ mask2 # <<>>
  <2> DEFINE both == [i \in 1 .. n |-> mask1[i] \/ mask2[i]]
  <2>1. mask1 \in [1 .. n -> BOOLEAN] /\ mask2 \in [1 .. n -> BOOLEAN]
    BY <1>3
  <2>2. bits = [i \in DOMAIN mask1 |-> mask1[i] \/ mask2[i]]
    BY <1>3 DEF M!combine_mask, M!NoMask
  <2> HIDE DEF bits
  <2>3. DOMAIN mask1 = 1 .. n
    BY <2>1
  <2>4. bits = both
    BY <2>2, <2>3, Zenon
  <2>5. both \in [1 .. n -> BOOLEAN]
    BY Zenon
  <2>6. both # <<>>
    BY <2>5, MaskOrNone
  <2>7. \A i \in 1 .. n : both[i] <=> mask1[i] \/ mask2[i]
    OBVIOUS
  <2> HIDE DEF both
  <2> QED BY <1>3, <2>4, <2>5, <2>6, <2>7
<1> QED BY <1>1, <1>2, <1>3

\* What two masked rasters are: the present one and another.
LEMMA MaskedPair ==
    ASSUME RasterOK(raster), Masked(raster), NEW s, MaskedOf(s, Len(raster.data)),
           \A i \in 1 .. Len(raster.data) : s.data[i] # None,
           NEW bits, bits = M!combine_mask(raster.mask, s.mask)
    PROVE  /\ bits \in {<<>>} \cup [1 .. Len(raster.data) -> BOOLEAN]
           /\ \A i \in 1 .. Len(raster.data) :
                 /\ raster.data[i] # None /\ s.data[i] # None
                 /\ bits # <<>> /\ bits[i] <=> Contents(raster)[i] = None \/ Contents(s)[i] = None
                 /\ Contents(raster)[i] # None => Contents(raster)[i] = raster.data[i]
                 /\ Contents(s)[i] # None => Contents(s)[i] = s.data[i]
<1>1. /\ Len(raster.data) \in Nat \ {0}
      /\ raster.mask \in {<<>>} \cup [1 .. Len(raster.data) -> BOOLEAN]
      /\ s.mask \in {<<>>} \cup [1 .. Len(raster.data) -> BOOLEAN]
  BY PresentParts DEF MaskedOf
<1>2. /\ bits \in {<<>>} \cup [1 .. Len(raster.data) -> BOOLEAN]
      /\ \A i \in 1 .. Len(raster.data) :
            bits # <<>> /\ bits[i] <=> (raster.mask # <<>> /\ raster.mask[i]) \/ (s.mask # <<>> /\ s.mask[i])
  <2> DEFINE n == Len(raster.data)
  <2>1. n \in Nat \ {0} /\ raster.mask \in AnyMask(n) /\ s.mask \in AnyMask(n)
    BY <1>1 DEF AnyMask
  <2> HIDE DEF n
  <2>2. bits \in AnyMask(n) /\ Either(n, bits, raster.mask, s.mask)
    BY <2>1, CombinedMask
  <2> QED BY <2>2 DEF n, AnyMask, Either
<1>3. ASSUME NEW i \in 1 .. Len(raster.data)
      PROVE  /\ raster.data[i] # None /\ s.data[i] # None
             /\ Contents(raster)[i] = IF raster.mask # <<>> /\ raster.mask[i] THEN None ELSE raster.data[i]
             /\ Contents(s)[i] = IF s.mask # <<>> /\ s.mask[i] THEN None ELSE s.data[i]
  BY PresentParts, MaskedContents
<1> QED BY <1>2, <1>3

\* The elements of an operator on two rasters.
LEMMA ElementIs ==
    \A type, op, x, y : ~(op = "divides" /\ y = 0) =>
        M!Element(type, op, x, y) = Compute(type, op, x, y)
BY SameElements DEF M!Element

LEMMA MaskedCombined ==
    ASSUME RasterOK(raster), Masked(raster), NEW s \in Others, NEW op \in Arithmetics, op # "divides"
    PROVE  LET t == Combined(raster, s, op)
           IN  Computes(t, op, Contents(raster), Contents(s), NumbersIn(raster, s, t))
<1> DEFINE n == Len(raster.data)
           t == Combined(raster, s, op)
           numbers == NumbersIn(raster, s, t)
           type == Widest(raster.type, s.type)
           nod == IF raster.nod # None THEN raster.nod ELSE s.nod
           data == [i \in 1 .. n |-> M!Element(type, op, raster.data[i], s.data[i])]
           bits == M!combine_mask(raster.mask, s.mask)
<1>1. MaskedOf(s, n) /\ \A i \in 1 .. n : s.data[i] # None
  BY MaskedOtherRaster
<1>2. t = [storage |-> "masked", type |-> type, nod |-> nod, data |-> data, mask |-> bits]
  BY PresentParts DEF Combined, M!perform_raster_operation, M!Raster, M!Widest, Widest, M!has_nan, has_nan
<1>3. type \in Types /\ nod \in Number \cup {None}
  BY <1>1, PresentParts DEF MaskedOf, Widest
<1>4. /\ bits \in {<<>>} \cup [1 .. n -> BOOLEAN]
      /\ \A i \in 1 .. n :
            /\ raster.data[i] # None /\ s.data[i] # None
            /\ bits # <<>> /\ bits[i] <=> Contents(raster)[i] = None \/ Contents(s)[i] = None
            /\ Contents(raster)[i] # None => Contents(raster)[i] = raster.data[i]
            /\ Contents(s)[i] # None => Contents(s)[i] = s.data[i]
  BY <1>1, MaskedPair
<1>5. /\ data = [i \in 1 .. n |-> data[i]]
      /\ \A i \in 1 .. n : data[i] = Compute(type, op, raster.data[i], s.data[i])
  BY ElementIs
<1> HIDE DEF t, data, bits, type, nod
<1>6. /\ t.type = type /\ DOMAIN t.data = 1 .. n
      /\ \A i \in 1 .. n : Contents(t)[i] = IF bits # <<>> /\ bits[i] THEN None ELSE data[i]
  <2>1. Parts(t, nod, data, bits)
    <3>1. t.type = type
      BY <1>2
    <3> QED BY <1>2, <1>3, <1>4, <1>5, <3>1 DEF Parts
  <2>2. t.type = type /\ t.data = data
    BY <1>2
  <2> QED BY <1>5, <2>1, <2>2, MaskedParts
<1>7. ASSUME NEW i \in 1 .. n
      PROVE  Contents(t)[i] = Promise!Arithmetic(type, op, Contents(raster)[i], Contents(s)[i])
  BY <1>4, <1>5, <1>6, ArithmeticIs
<1> HIDE DEF numbers
<1>8. Computes(t, op, Contents(raster), Contents(s), numbers)
  BY <1>6, <1>7, MaskedComputes
<1> QED BY <1>8 DEF t, numbers

\* A quotient marks the cells that would be divided by zero.
LEMMA MaskedDivided ==
    ASSUME RasterOK(raster), Masked(raster), NEW s \in Others
    PROVE  LET t == Combined(raster, s, "divides")
           IN  Computes(t, "divides", Contents(raster), Contents(s), NumbersIn(raster, s, t))
<1> DEFINE n == Len(raster.data)
           t == Combined(raster, s, "divides")
           numbers == NumbersIn(raster, s, t)
           data == [i \in 1 .. n |-> M!Element("float", "divides", raster.data[i], s.data[i])]
           bits == M!combine_mask(raster.mask, s.mask)
           u == [storage |-> "masked", type |-> "float", nod |-> NaN, data |-> data, mask |-> bits]
           marks(i) == s.data[i] = 0 /\ ~M!is_nodata(s, i)
           marked == {i \in 1 .. n : marks(i)}
<1>1. MaskedOf(s, n) /\ \A i \in 1 .. n : s.data[i] # None
  BY MaskedOtherRaster
<1>2. /\ bits \in {<<>>} \cup [1 .. n -> BOOLEAN]
      /\ \A i \in 1 .. n :
            /\ raster.data[i] # None /\ s.data[i] # None
            /\ bits # <<>> /\ bits[i] <=> Contents(raster)[i] = None \/ Contents(s)[i] = None
            /\ Contents(raster)[i] # None => Contents(raster)[i] = raster.data[i]
            /\ Contents(s)[i] # None => Contents(s)[i] = s.data[i]
  BY <1>1, MaskedPair
<1>3. /\ data = [i \in 1 .. n |-> data[i]]
      /\ \A i \in 1 .. n : s.data[i] # 0 =>
            data[i] = Compute("float", "divides", raster.data[i], s.data[i])
  BY ElementIs
<1>4. t = IF \E i \in M!Cells(u) : marks(i)
          THEN [u EXCEPT !.mask = [i \in M!Cells(u) |-> M!is_nodata(u, i) \/ marks(i)]] ELSE u
  BY PresentParts DEF Combined, M!perform_raster_operation, M!MarkedWhere, M!Raster
<1>5. marked \subseteq 1 .. n /\ \A i \in 1 .. n : i \in marked <=> marks(i)
  OBVIOUS
<1>6. \A i \in 1 .. n : marks(i) <=> Contents(s)[i] = 0
  <2>1. \A i \in 1 .. n : Contents(s)[i] = IF M!is_nodata(s, i) THEN None ELSE s.data[i]
    BY <1>1, MaskedContents DEF M!is_nodata, M!has_nodata, M!NoMask
  <2> QED BY <2>1, ElementsAssumption
<1> HIDE DEF t, data, bits, marks, marked
<1>7. u.type = "float" /\ u.data = data /\ u.mask = bits
  OBVIOUS
<1>8. /\ MaskedOf(u, n)
      /\ \A i \in 1 .. n : Contents(u)[i] = IF bits # <<>> /\ bits[i] THEN None ELSE data[i]
  <2>1. NaN \in Number /\ "float" \in Types
    BY DEF Number, Types
  <2>2. Parts(u, NaN, data, bits)
    BY <1>2, <1>3, <1>7, <2>1 DEF Parts
  <2> QED BY <2>2, MaskedParts
<1> HIDE DEF u
<1>9. t = Marking(u, n, marked)
  <2>1. M!Cells(u) = 1 .. n
    BY <1>3, <1>7 DEF M!Cells
  <2>2. (\E i \in 1 .. n : marks(i)) <=> marked # {}
    BY <1>5, Zenon
  <2>3. [i \in 1 .. n |-> M!is_nodata(u, i) \/ marks(i)] =
        [i \in 1 .. n |-> M!is_nodata(u, i) \/ i \in marked]
    BY <1>5, Zenon
  <2>4. t = IF \E i \in 1 .. n : marks(i)
            THEN [u EXCEPT !.mask = [i \in 1 .. n |-> M!is_nodata(u, i) \/ marks(i)]] ELSE u
    BY <1>4, <2>1
  <2> QED BY <2>2, <2>3, <2>4, Zenon DEF Marking
<1>10. /\ MaskedOf(t, n) /\ t.type = "float"
       /\ \A i \in 1 .. n : Contents(t)[i] = IF i \in marked THEN None ELSE Contents(u)[i]
  BY <1>5, <1>7, <1>8, <1>9, PresentParts, MarkingContents
<1>11. ASSUME NEW i \in 1 .. n
       PROVE  Contents(t)[i] = Promise!Arithmetic("float", "divides", Contents(raster)[i], Contents(s)[i])
  <2>1. CASE Contents(s)[i] = 0
    <3>1. Contents(t)[i] = None
      BY <1>5, <1>6, <1>10, <2>1
    <3> QED BY <2>1, <3>1, ArithmeticIs
  <2>2. CASE Contents(s)[i] # 0
    <3>1. Contents(t)[i] = IF bits # <<>> /\ bits[i] THEN None ELSE data[i]
      BY <1>5, <1>6, <1>8, <1>10, <2>2
    <3> QED BY <1>2, <1>3, <2>2, <3>1, ArithmeticIs
  <2> QED BY <2>1, <2>2
<1>12. DOMAIN t.data = 1 .. n
  BY <1>10 DEF MaskedOf
<1> HIDE DEF numbers
<1>13. Computes(t, "divides", Contents(raster), Contents(s), numbers)
  BY <1>10, <1>11, <1>12, MaskedComputes DEF Arithmetics
<1> QED BY <1>13 DEF t, numbers

\* A masked raster with other elements and the mask of the present one.
OtherElements(t, data) ==
    /\ t = [raster EXCEPT !.data = data]
    /\ data = [i \in 1 .. Len(raster.data) |-> data[i]]

LEMMA MaskedSame ==
    ASSUME RasterOK(raster), Masked(raster), NEW data, NEW t, OtherElements(t, data)
    PROVE  /\ MaskedOf(t, Len(raster.data)) /\ t.type = raster.type
           /\ DOMAIN t.data = 1 .. Len(raster.data)
           /\ \A i \in 1 .. Len(raster.data) :
                 Contents(t)[i] = IF Contents(raster)[i] = None THEN None ELSE data[i]
<1>1. t = [storage |-> "masked", type |-> raster.type, nod |-> raster.nod, data |-> data,
           mask |-> raster.mask]
  BY PresentMasked, MaskedOther DEF OtherElements
<1>2. t.type = raster.type /\ t.data = data
  BY <1>1
<1>3. Parts(t, raster.nod, data, raster.mask)
  BY <1>1, <1>2, PresentParts DEF Parts, OtherElements
<1>4. /\ MaskedOf(t, Len(raster.data))
      /\ \A i \in 1 .. Len(raster.data) :
            Contents(t)[i] = IF raster.mask # <<>> /\ raster.mask[i] THEN None ELSE data[i]
  BY <1>3, MaskedParts
<1>5. DOMAIN data = 1 .. Len(raster.data)
  BY DEF OtherElements
<1> QED BY <1>2, <1>4, <1>5, PresentParts

LEMMA MaskedWithScalar ==
    ASSUME RasterOK(raster), Masked(raster), NEW op \in Arithmetics,
           NEW v \in ElementsOf(raster.type) \ {NaN}, op = "divides" => v # 0
    PROVE  LET t == WithScalar(raster, op, v)
           IN  Computes(t, op, Contents(raster), Constant(raster, v), NumbersIn(raster, raster, t))
<1> DEFINE n == Len(raster.data)
           t == WithScalar(raster, op, v)
           numbers == NumbersIn(raster, raster, t)
           data == [i \in 1 .. n |-> M!Element(raster.type, op, raster.data[i], v)]
<1>1. t = [raster EXCEPT !.data = data]
  BY PresentParts DEF WithScalar, M!perform_scalar_operation
<1>2. \A x : M!Element(raster.type, op, x, v) = Compute(raster.type, op, x, v)
  BY SameElements DEF M!Element
<1>3. /\ data = [i \in 1 .. n |-> data[i]]
      /\ \A i \in 1 .. n : data[i] = Compute(raster.type, op, raster.data[i], v)
  BY <1>2
<1> HIDE DEF t, data
<1>4. /\ t.type = raster.type /\ DOMAIN t.data = 1 .. n
      /\ \A i \in 1 .. n : Contents(t)[i] = IF Contents(raster)[i] = None THEN None ELSE data[i]
  <2>1. OtherElements(t, data)
    BY <1>1, <1>3 DEF OtherElements
  <2> QED  BY <2>1, MaskedSame
<1>5. v # None
  BY ElementsTyped, PresentParts, ElementsAssumption DEF Number
<1>6. ASSUME NEW i \in 1 .. n
      PROVE  Contents(t)[i] = Promise!Arithmetic(t.type, op, Contents(raster)[i], Constant(raster, v)[i])
  <2>1. Constant(raster, v)[i] = v
    BY PresentParts DEF Constant
  <2>2. Contents(raster)[i] # None => Contents(raster)[i] = raster.data[i]
    BY PresentParts
  <2> QED BY <1>3, <1>4, <1>5, <2>1, <2>2, ArithmeticIs
<1> HIDE DEF numbers
<1>7. Computes(t, op, Contents(raster), Constant(raster, v), numbers)
  BY <1>4, <1>6, MaskedComputes
<1> QED BY <1>7 DEF t, numbers

LEMMA MaskedScalarMinus ==
    ASSUME RasterOK(raster), Masked(raster), NEW v \in ElementsOf(raster.type) \ {NaN}
    PROVE  LET t == ScalarMinus(v, raster)
           IN  Computes(t, "minus", Constant(raster, v), Contents(raster), NumbersIn(raster, raster, t))
<1> DEFINE n == Len(raster.data)
           t == ScalarMinus(v, raster)
           numbers == NumbersIn(raster, raster, t)
           data == [i \in 1 .. n |-> M!Element(raster.type, "minus", v, raster.data[i])]
<1>1. t = [raster EXCEPT !.data = data]
  BY PresentParts DEF ScalarMinus, M!ScalarMinus
<1>2. \A x : M!Element(raster.type, "minus", v, x) = Compute(raster.type, "minus", v, x)
  BY SameElements DEF M!Element
<1>3. /\ data = [i \in 1 .. n |-> data[i]]
      /\ \A i \in 1 .. n : data[i] = Compute(raster.type, "minus", v, raster.data[i])
  BY <1>2
<1> HIDE DEF t, data
<1>4. /\ t.type = raster.type /\ DOMAIN t.data = 1 .. n
      /\ \A i \in 1 .. n : Contents(t)[i] = IF Contents(raster)[i] = None THEN None ELSE data[i]
  <2>1. OtherElements(t, data)
    BY <1>1, <1>3 DEF OtherElements
  <2> QED  BY <2>1, MaskedSame
<1>5. v # None
  BY ElementsTyped, PresentParts, ElementsAssumption DEF Number
<1>6. ASSUME NEW i \in 1 .. n
      PROVE  Contents(t)[i] = Promise!Arithmetic(t.type, "minus", Constant(raster, v)[i], Contents(raster)[i])
  <2>1. Constant(raster, v)[i] = v
    BY PresentParts DEF Constant
  <2>2. Contents(raster)[i] # None => Contents(raster)[i] = raster.data[i]
    BY PresentParts
  <2> QED BY <1>3, <1>4, <1>5, <2>1, <2>2, ArithmeticIs
<1> HIDE DEF numbers
<1>7. Computes(t, "minus", Constant(raster, v), Contents(raster), numbers)
  BY <1>4, <1>6, MaskedComputes DEF Arithmetics
<1> QED BY <1>7 DEF t, numbers

LEMMA MaskedMinus ==
    ASSUME RasterOK(raster), Masked(raster), has_nan(raster.type)
    PROVE  Computes(Minus(raster), "minus", Constant(raster, 0), Contents(raster),
                    NumbersIn(raster, raster, raster))
<1> DEFINE n == Len(raster.data)
           t == Minus(raster)
           data == [i \in 1 .. n |-> Negated("float", raster.data[i])]
<1>1. raster.type = "float"
  BY DEF has_nan
<1>2. t = [raster EXCEPT !.data = data]
  BY <1>1, PresentParts DEF Minus, M!Minus, M!Negated, Negated
<1>3. \A i \in 1 .. n : raster.data[i] \in Number
  BY MaskedShape
<1>4. /\ data = [i \in 1 .. n |-> data[i]]
      /\ \A i \in 1 .. n : data[i] = Compute("float", "minus", 0, raster.data[i])
  BY <1>3, NegatedIs
<1> HIDE DEF t, data
<1>5. /\ t.type = raster.type /\ DOMAIN t.data = 1 .. n
      /\ \A i \in 1 .. n : Contents(t)[i] = IF Contents(raster)[i] = None THEN None ELSE data[i]
  <2>1. OtherElements(t, data)
    BY <1>2, <1>4 DEF OtherElements
  <2> QED  BY <2>1, MaskedSame
<1>6. ASSUME NEW i \in 1 .. n
      PROVE  Contents(t)[i] = Promise!Arithmetic(t.type, "minus", Constant(raster, 0)[i], Contents(raster)[i])
  <2>1. Constant(raster, 0)[i] = 0 /\ 0 # None
    BY PresentParts, ElementsAssumption DEF Constant
  <2>2. Contents(raster)[i] # None => Contents(raster)[i] = raster.data[i]
    BY PresentParts
  <2> QED BY <1>1, <1>4, <1>5, <2>1, <2>2, ArithmeticIs
<1>7. Computes(t, "minus", Constant(raster, 0), Contents(raster), NumbersIn(raster, raster, raster))
  BY <1>5, <1>6, MaskedComputes DEF Arithmetics
<1> QED BY <1>7 DEF t

LEMMA MaskedScalarDivided ==
    ASSUME RasterOK(raster), Masked(raster), NEW v \in ElementsOf(raster.type) \ {NaN}
    PROVE  LET t == ScalarDivided(v, raster)
           IN  Computes(t, "divides", Constant(raster, v), Contents(raster), NumbersIn(raster, raster, t))
<1> DEFINE n == Len(raster.data)
           t == ScalarDivided(v, raster)
           numbers == NumbersIn(raster, raster, t)
           data == [i \in 1 .. n |-> M!Element("float", "divides", v, raster.data[i])]
           f == [raster EXCEPT !.type = "float"]
           u == [storage |-> "masked", type |-> "float", nod |-> raster.nod, data |-> data,
                 mask |-> raster.mask]
           marks(i) == raster.data[i] = 0
           marked == {i \in 1 .. n : marks(i)}
<1>1. u = [raster EXCEPT !.type = "float", !.data = data]
  <2> HIDE DEF data
  <2>1. raster = [storage |-> "masked", type |-> raster.type, nod |-> raster.nod,
                  data |-> raster.data, mask |-> raster.mask]
    BY PresentMasked DEF MaskedOf
  <2>2. f = [storage |-> "masked", type |-> "float", nod |-> raster.nod, data |-> raster.data,
             mask |-> raster.mask]
    BY <2>1
  <2>3. [raster EXCEPT !.type = "float", !.data = data] = [f EXCEPT !.data = data]
    BY Zenon
  <2> HIDE DEF f, u
  <2>4. [f EXCEPT !.data = data] = [storage |-> "masked", type |-> "float", nod |-> raster.nod,
                                    data |-> data, mask |-> raster.mask]
    BY <2>2
  <2> QED BY <2>3, <2>4 DEF u
<1>2. t = IF \E i \in M!Cells(u) : marks(i)
          THEN [u EXCEPT !.mask = [i \in M!Cells(u) |-> M!is_nodata(u, i) \/ marks(i)]] ELSE u
  <2> DEFINE w == [raster EXCEPT !.type = "float",
                                 !.data = [i \in M!Cells(raster) |->
                                              M!Element("float", "divides", v, raster.data[i])]]
  <2>1. t = IF \E i \in M!Cells(w) : marks(i)
            THEN [w EXCEPT !.mask = [i \in M!Cells(w) |-> M!is_nodata(w, i) \/ marks(i)]] ELSE w
    BY PresentParts, Zenon DEF ScalarDivided, M!ScalarDivided, M!MarkedWhere
  <2>2. w = u
    <3>1. M!Cells(raster) = 1 .. n
      BY PresentParts DEF M!Cells
    <3> HIDE DEF u
    <3> QED BY <1>1, <3>1
  <2> HIDE DEF w, u, marks
  <2> QED BY <2>1, <2>2
<1>3. /\ data = [i \in 1 .. n |-> data[i]]
      /\ \A i \in 1 .. n : raster.data[i] # 0 =>
            data[i] = Compute("float", "divides", v, raster.data[i])
  BY ElementIs
<1>4. marked \subseteq 1 .. n /\ \A i \in 1 .. n : i \in marked <=> marks(i)
  OBVIOUS
<1> HIDE DEF t, data, marked
<1>5. u.type = "float" /\ u.data = data /\ u.mask = raster.mask
  OBVIOUS
<1>6. /\ MaskedOf(u, n)
      /\ \A i \in 1 .. n : Contents(u)[i] = IF raster.mask # <<>> /\ raster.mask[i] THEN None ELSE data[i]
  <2>1. "float" \in Types
    BY DEF Types
  <2>2. Parts(u, raster.nod, data, raster.mask)
    BY <1>3, <1>5, <2>1, PresentParts DEF Parts
  <2> QED BY <2>2, MaskedParts
<1> HIDE DEF u
<1>7. t = Marking(u, n, marked)
  <2> HIDE DEF marks
  <2>1. M!Cells(u) = 1 .. n
    BY <1>3, <1>5 DEF M!Cells
  <2>2. (\E i \in 1 .. n : marks(i)) <=> marked # {}
    BY <1>4, Zenon
  <2>3. [i \in 1 .. n |-> M!is_nodata(u, i) \/ marks(i)] =
        [i \in 1 .. n |-> M!is_nodata(u, i) \/ i \in marked]
    BY <1>4, Zenon
  <2>4. t = IF \E i \in 1 .. n : marks(i)
            THEN [u EXCEPT !.mask = [i \in 1 .. n |-> M!is_nodata(u, i) \/ marks(i)]] ELSE u
    BY <1>2, <2>1
  <2> QED BY <2>2, <2>3, <2>4, Zenon DEF Marking
<1>8. /\ MaskedOf(t, n) /\ t.type = "float"
      /\ \A i \in 1 .. n : Contents(t)[i] = IF i \in marked THEN None ELSE Contents(u)[i]
  BY <1>4, <1>5, <1>6, <1>7, PresentParts, MarkingContents
<1>9. v # None
  BY ElementsTyped, PresentParts, ElementsAssumption DEF Number
<1>10. ASSUME NEW i \in 1 .. n
       PROVE  Contents(t)[i] = Promise!Arithmetic("float", "divides", Constant(raster, v)[i], Contents(raster)[i])
  <2>1. Constant(raster, v)[i] = v
    BY PresentParts DEF Constant
  <2>2. /\ Contents(raster)[i] = IF raster.mask # <<>> /\ raster.mask[i] THEN None ELSE raster.data[i]
        /\ raster.data[i] # None
    BY PresentParts
  <2>3. CASE marks(i)
    <3>1. Contents(t)[i] = None
      BY <1>4, <1>8, <2>3
    <3> QED BY <2>2, <2>3, <3>1, ArithmeticIs
  <2>4. CASE ~marks(i)
    <3>1. Contents(t)[i] = IF raster.mask # <<>> /\ raster.mask[i] THEN None ELSE data[i]
      BY <1>4, <1>6, <1>8, <2>4
    <3> QED BY <1>3, <1>9, <2>1, <2>2, <2>4, <3>1, ArithmeticIs
  <2> QED BY <2>3, <2>4
<1>11. DOMAIN t.data = 1 .. n
  BY <1>8 DEF MaskedOf
<1> HIDE DEF numbers
<1>12. Computes(t, "divides", Constant(raster, v), Contents(raster), numbers)
  BY <1>8, <1>10, <1>11, MaskedComputes DEF Arithmetics
<1> QED BY <1>12 DEF t, numbers

-----------------------------------------------------------------------------
(* Operators that make a raster out of the present one: every raster *)

\* What every step keeps: the present raster is one.
LEMMA Invariance == Spec => []RasterOK(raster)
<1>1. Init => RasterOK(raster)
  BY InitKeeps
<1>2. RasterOK(raster) /\ [Next]_storageVars => RasterOK(raster)'
  <2>1. CASE UNCHANGED storageVars
    BY <2>1, StutterKeeps
  <2>2. CASE Next
    BY <2>2, NextKeeps DEF Step
  <2> QED BY <2>1, <2>2
<1> QED BY <1>1, <1>2, PTL DEF Spec

LEMMA OperatorsHold == RasterOK(raster) => OperatorsContagious
<1> SUFFICES ASSUME RasterOK(raster) PROVE OperatorsContagious
  OBVIOUS
<1> DEFINE scalars == ElementsOf(raster.type) \ {NaN}
           r == raster
<1>1. ASSUME NEW s \in Others, NEW op \in Arithmetics
      PROVE  LET t == Combined(r, s, op)
             IN  Computes(t, op, Contents(r), Contents(s), NumbersIn(r, s, t))
  BY DenseCombined, MaskedCombined, MaskedDivided
<1>2. ASSUME NEW v \in scalars, NEW op \in Arithmetics, op = "divides" => v # 0
      PROVE  LET t == WithScalar(r, op, v)
             IN  Computes(t, op, Contents(r), Constant(r, v), NumbersIn(r, r, t))
  BY <1>2, DenseWithScalar, MaskedWithScalar
<1>3. ASSUME NEW v \in scalars,
             Masked(r) \/ ~has_nan(r.type) \/ r.nod = NaN \/ (\A i \in DOMAIN r.data : r.data[i] # r.nod)
      PROVE  LET t == ScalarMinus(v, r)
             IN  Computes(t, "minus", Constant(r, v), Contents(r), NumbersIn(r, r, t))
  BY <1>3, DenseScalarMinus, MaskedScalarMinus
<1>4. ASSUME NEW v \in scalars, MayDivideScalar(r), Masked(r) \/ has_nan(r.type)
      PROVE  LET t == ScalarDivided(v, r)
             IN  Computes(t, "divides", Constant(r, v), Contents(r), NumbersIn(r, r, t))
  BY <1>4, DenseScalarDivided, MaskedScalarDivided
<1>5. has_nan(r.type) => Computes(Minus(r), "minus", Constant(r, 0), Contents(r), NumbersIn(r, r, r))
  BY DenseMinus, MaskedMinus
<1> QED BY <1>1, <1>2, <1>3, <1>4, <1>5 DEF OperatorsContagious

\* In every raster that the calls can make, whatever its storage and its
\* numbers: what an operator makes of it is nodata where either side is or where
\* it would divide by zero, and the result of the arithmetic elsewhere.
THEOREM OperatorsAreContagious == Spec => []OperatorsContagious
BY Invariance, OperatorsHold, PTL
-----------------------------------------------------------------------------
(* Comparisons: the bytes of a dense raster *)

LEMMA SamePredicates ==
    /\ \A pred, x, y : /\ D!Holds(pred, x, y) = Holds(pred, x, y)
                       /\ M!Holds(pred, x, y) = Holds(pred, x, y)
                       /\ Promise!Holds(pred, x, y) = Holds(pred, x, y)
    /\ \A b : D!Bool(b) = Bool(b) /\ M!Bool(b) = Bool(b) /\ Promise!Bool(b) = Bool(b)
    /\ \A b : Bool(b) \in {0, 1} /\ Bool(b) # None
    /\ D!ByteMax = ByteMax /\ M!ByteMax = ByteMax /\ ByteMax = 255
<1>1. \A pred, x, y : /\ D!Holds(pred, x, y) = Holds(pred, x, y)
                      /\ M!Holds(pred, x, y) = Holds(pred, x, y)
                      /\ Promise!Holds(pred, x, y) = Holds(pred, x, y)
  BY DEF D!Holds, M!Holds, Promise!Holds, Holds
<1>2. \A b : D!Bool(b) = Bool(b) /\ M!Bool(b) = Bool(b) /\ Promise!Bool(b) = Bool(b)
  BY DEF D!Bool, M!Bool, Promise!Bool, Bool
<1>3. \A b : Bool(b) \in {0, 1} /\ Bool(b) # None
  BY ElementsAssumption DEF Bool
<1>4. D!ByteMax = ByteMax /\ M!ByteMax = ByteMax /\ ByteMax = 255
  BY DEF D!ByteMax, M!ByteMax, ByteMax
<1> QED BY <1>1, <1>2, <1>3, <1>4

\* What is compared, once it is read.
LEMMA ComparisonIs ==
    ASSUME NEW pred, NEW x, NEW y
    PROVE  Promise!Comparison(pred, x, y) =
              IF x = None \/ y = None THEN None ELSE Bool(Holds(pred, x, y))
BY SamePredicates DEF Promise!Comparison

\* The byte of an element of a dense raster and of a right side that is missing
\* or y.
LEMMA DenseTold ==
    ASSUME NEW r, RasterOK(r), ~Masked(r), NEW i \in 1 .. Len(r.data), NEW numbers,
           InBandNumbers(r) \subseteq numbers, NEW pred,
           NEW right, NEW y, y # None, NEW missing \in BOOLEAN,
           missing => None \in Promise!AsRead(right, numbers),
           ~missing => y \in Promise!AsRead(right, numbers),
           NEW z, z = IF D!is_nodata_value(r, r.data[i]) \/ missing THEN ByteMax
                      ELSE Bool(Holds(pred, r.data[i], y))
    PROVE  Tells(z, pred, Contents(r)[i], right, numbers)
<1> DEFINE x == r.data[i]
<1>1. x # None /\ (r.type = "uint" => x # NaN) /\ r.type \in Types
  BY DenseShape
<1>2. /\ Contents(r)[i] \in Promise!AsRead(Contents(r)[i], numbers)
      /\ ~D!is_nodata(r, i) => x \in Promise!AsRead(Contents(r)[i], numbers)
      /\ D!is_nodata(r, i) \/ x \in InBandNumbers(r) => None \in Promise!AsRead(Contents(r)[i], numbers)
  BY DenseReading
<1>3. D!is_nodata_value(r, x) => x \in InBandNumbers(r)
  BY <1>1, ElementsAssumption DEF D!is_nodata_value, D!has_nan, has_nan, InBandNumbers
<1>4. ~D!is_nodata_value(r, x) => ~D!is_nodata(r, i)
  BY DEF D!is_nodata_value, D!is_nodata
<1>5. CASE D!is_nodata_value(r, x)
  <2>1. \A b : Promise!Comparison(pred, None, b) = None
    BY ComparisonIs
  <2>2. \E b : b \in Promise!AsRead(right, numbers)
    BY DEF Promise!AsRead
  <2> QED BY <1>2, <1>3, <1>5, <2>1, <2>2 DEF Tells
<1>6. CASE missing
  <2>1. \A a : Promise!Comparison(pred, a, None) = None
    BY ComparisonIs
  <2> QED BY <1>2, <1>6, <2>1 DEF Tells
<1>7. CASE ~D!is_nodata_value(r, x) /\ ~missing
  <2>1. Promise!Comparison(pred, x, y) = Bool(Holds(pred, x, y)) /\ Bool(Holds(pred, x, y)) # None
    BY <1>1, ComparisonIs, SamePredicates
  <2> QED BY <1>2, <1>4, <1>7, <2>1 DEF Tells
<1> QED BY <1>5, <1>6, <1>7

\* A dense raster of bytes: a byte of 255 is its nodata.
ByteOf(t, i) == IF IsNodata(t, i) THEN ByteMax ELSE t.data[i]

LEMMA DenseByte ==
    ASSUME NEW r, NEW nod2, NEW n, NEW elements, elements = [i \in 1 .. n |-> elements[i]],
           NEW i \in 1 .. n
    PROVE  ByteOf(D!ByteRaster(r, nod2, elements), i) = elements[i]
<1> DEFINE t == D!ByteRaster(r, nod2, elements)
<1>1. t = [storage |-> "dense", type |-> "byte",
           nod |-> IF r.nod # None \/ nod2 # None THEN ByteMax ELSE None, data |-> elements]
  BY SamePredicates DEF D!ByteRaster, D!Raster
<1> HIDE DEF t
<1>2. ~Masked(t) /\ t.data = elements /\ t.type = "byte" /\ t.nod \in {ByteMax, None}
  BY <1>1 DEF Masked
<1>3. D!is_nodata(t, i) => elements[i] = ByteMax
  BY <1>2 DEF D!is_nodata, D!has_nan
<1> QED BY <1>2, <1>3 DEF t, ByteOf, IsNodata

LEMMA DenseCompared ==
    ASSUME RasterOK(raster), ~Masked(raster), NEW s \in Others, NEW pred \in Predicates,
           raster.type = s.type \/ pred = "equal_to", NEW i \in 1 .. Len(raster.data)
    PROVE  Tells(ByteOf(Compared(raster, s, pred), i), pred, Contents(raster)[i], Contents(s)[i],
                 NumbersIn(raster, s, raster))
<1> DEFINE n == Len(raster.data)
           x(j) == raster.data[j]
           y(j) == s.data[j]
           byte(j) == IF D!is_nodata_value(raster, x(j)) \/ D!is_nodata_value(s, y(j)) THEN ByteMax
                      ELSE Bool(Holds(pred, x(j), y(j)))
           elements == [j \in 1 .. n |-> byte(j)]
           numbers == NumbersIn(raster, s, raster)
<1>1. RasterOK(s) /\ ~Masked(s) /\ Len(s.data) = n
  BY DenseOther
<1>2. \A j \in 1 .. n : /\ x(j) # None /\ y(j) # None
                        /\ raster.type = "uint" => x(j) # NaN
                        /\ s.type = "uint" => y(j) # NaN
  BY <1>1, DenseShape
<1>3. Compared(raster, s, pred) = D!ByteRaster(raster, s.nod, elements)
  <2>1. CASE pred = "equal_to"
    BY <2>1, DenseShape, SamePredicates DEF Compared, D!equals, D!Cells
  <2>2. CASE pred # "equal_to" /\ raster.type = s.type
    <3> DEFINE result(j) == D!binary_result(D!Widest(raster.type, s.type), pred, raster.nod, s.nod, x(j), y(j))
    <3>1. Compared(raster, s, pred) = D!ByteRaster(raster, s.nod, [j \in 1 .. n |-> result(j)])
      BY <2>2, DenseShape DEF Compared, D!perform_binary_operation, D!Cells
    <3>2. D!Widest(raster.type, s.type) = raster.type
      BY <2>2 DEF D!Widest
    <3>3. ASSUME NEW j \in 1 .. n PROVE result(j) = byte(j)
      <4>1. result(j) = IF \/ has_nan(raster.type) /\ NaN \in {x(j), y(j)}
                           \/ ~has_nan(raster.type) /\ (x(j) = raster.nod \/ y(j) = s.nod)
                        THEN ByteMax ELSE Bool(Holds(pred, x(j), y(j)))
        BY <3>2, SamePredicates DEF D!binary_result, D!has_nan, has_nan
      <4>2. D!is_nodata_value(raster, x(j)) <=>
               IF has_nan(raster.type) THEN x(j) = NaN ELSE x(j) = raster.nod
        BY <1>2 DEF D!is_nodata_value, D!has_nan, has_nan
      <4>3. D!is_nodata_value(s, y(j)) <=>
               IF has_nan(raster.type) THEN y(j) = NaN ELSE y(j) = s.nod
        BY <1>2, <2>2 DEF D!is_nodata_value, D!has_nan, has_nan
      <4> HIDE DEF result
      <4> QED BY <4>1, <4>2, <4>3
    <3> HIDE DEF result, byte
    <3> QED BY <3>1, <3>3
  <2> QED BY <2>1, <2>2
<1>4. elements = [j \in 1 .. n |-> elements[j]] /\ elements[i] = byte(i)
  OBVIOUS
<1> HIDE DEF elements
<1>5. ByteOf(Compared(raster, s, pred), i) = byte(i)
  BY <1>3, <1>4, DenseByte
<1>6. InBandNumbers(raster) \subseteq numbers /\ InBandNumbers(s) \subseteq numbers
  BY DEF NumbersIn
<1> HIDE DEF numbers
<1>7. /\ D!is_nodata_value(s, y(i)) => None \in Promise!AsRead(Contents(s)[i], numbers)
      /\ ~D!is_nodata_value(s, y(i)) => y(i) \in Promise!AsRead(Contents(s)[i], numbers)
  <2>1. D!is_nodata_value(s, y(i)) => y(i) \in InBandNumbers(s)
    BY <1>1, <1>2, ElementsAssumption DEF D!is_nodata_value, D!has_nan, has_nan, InBandNumbers
  <2>2. ~D!is_nodata_value(s, y(i)) => ~D!is_nodata(s, i)
    BY DEF D!is_nodata_value, D!is_nodata
  <2> QED BY <1>1, <1>6, <2>1, <2>2, DenseReading
<1>8. D!is_nodata_value(s, y(i)) \in BOOLEAN
  BY DEF D!is_nodata_value
<1>9. Tells(byte(i), pred, Contents(raster)[i], Contents(s)[i], numbers)
  <2> DEFINE missing == D!is_nodata_value(s, y(i))
             z == byte(i)
  <2>1. z = IF D!is_nodata_value(raster, raster.data[i]) \/ missing THEN ByteMax
            ELSE Bool(Holds(pred, raster.data[i], s.data[i]))
    OBVIOUS
  <2> HIDE DEF z
  <2>2. Tells(z, pred, Contents(raster)[i], Contents(s)[i], numbers)
    BY <1>2, <1>6, <1>7, <1>8, <2>1, DenseTold
  <2> QED BY <2>2 DEF z
<1> QED BY <1>5, <1>9 DEF numbers
LEMMA DenseComparedToScalar ==
    ASSUME RasterOK(raster), ~Masked(raster), NEW v \in ElementsOf(raster.type) \ {NaN}, NEW pred,
           NEW i \in 1 .. Len(raster.data)
    PROVE  Tells(ByteOf(ComparedToScalar(raster, pred, v), i), pred, Contents(raster)[i], v,
                 InBandNumbers(raster))
<1> DEFINE n == Len(raster.data)
           x(j) == raster.data[j]
           byte(j) == IF D!is_nodata_value(raster, x(j)) THEN ByteMax ELSE Bool(Holds(pred, x(j), v))
           result(j) == D!binary_result(raster.type, pred, raster.nod, None, x(j), v)
           elements == [j \in 1 .. n |-> byte(j)]
<1>1. v # None /\ v # NaN
  BY ElementsTyped, DenseShape, ElementsAssumption DEF Number
<1>2. ComparedToScalar(raster, pred, v) = D!ByteRaster(raster, None, [j \in 1 .. n |-> result(j)])
  BY DenseShape DEF ComparedToScalar, D!perform_unary_operation, D!Cells
<1>3. ASSUME NEW j \in 1 .. n PROVE result(j) = byte(j)
  <2>1. result(j) = IF \/ has_nan(raster.type) /\ x(j) = NaN
                       \/ ~has_nan(raster.type) /\ x(j) = raster.nod
                    THEN ByteMax ELSE Bool(Holds(pred, x(j), v))
    BY <1>1, SamePredicates DEF D!binary_result, D!has_nan, has_nan
  <2>2. D!is_nodata_value(raster, x(j)) <=>
           IF has_nan(raster.type) THEN x(j) = NaN ELSE x(j) = raster.nod
    BY DenseShape DEF D!is_nodata_value, D!has_nan, has_nan
  <2> HIDE DEF result
  <2> QED BY <2>1, <2>2
<1>4. ComparedToScalar(raster, pred, v) = D!ByteRaster(raster, None, elements)
  <2> HIDE DEF result, byte
  <2> QED BY <1>2, <1>3
<1>5. elements = [j \in 1 .. n |-> elements[j]] /\ elements[i] = byte(i)
  OBVIOUS
<1> HIDE DEF elements
<1>6. ByteOf(ComparedToScalar(raster, pred, v), i) = byte(i)
  BY <1>4, <1>5, DenseByte
<1>7. Tells(byte(i), pred, Contents(raster)[i], v, InBandNumbers(raster))
  <2> DEFINE z == byte(i)
             missing == FALSE
  <2>1. z = IF D!is_nodata_value(raster, raster.data[i]) \/ missing THEN ByteMax
            ELSE Bool(Holds(pred, raster.data[i], v))
    OBVIOUS
  <2>2. v \in Promise!AsRead(v, InBandNumbers(raster))
    BY DEF Promise!AsRead
  <2> HIDE DEF z
  <2>3. Tells(z, pred, Contents(raster)[i], v, InBandNumbers(raster))
    BY <1>1, <2>1, <2>2, DenseTold
  <2> QED BY <2>3 DEF z
<1> QED BY <1>6, <1>7

LEMMA DenseInverted ==
    ASSUME RasterOK(raster), ~Masked(raster), NEW i \in 1 .. Len(raster.data)
    PROVE  Tells(ByteOf(Inverted(raster), i), "equal_to", Contents(raster)[i], 0, InBandNumbers(raster))
<1> DEFINE n == Len(raster.data)
           x(j) == raster.data[j]
           byte(j) == IF D!is_nodata_value(raster, x(j)) THEN ByteMax ELSE Bool(Holds("equal_to", x(j), 0))
           result(j) == D!logical_not(raster.type, raster.nod, x(j))
           elements == [j \in 1 .. n |-> byte(j)]
<1>1. 0 # None /\ 0 # NaN
  BY ElementsAssumption
<1>2. Inverted(raster) = D!ByteRaster(raster, None, [j \in 1 .. n |-> result(j)])
  BY DenseShape DEF Inverted, D!Not, D!Cells
<1>3. ASSUME NEW j \in 1 .. n PROVE result(j) = byte(j)
  <2>1. x(j) # None /\ (raster.type = "uint" => x(j) # NaN) /\ raster.type \in Types
    BY DenseShape
  <2>2. result(j) = IF D!is_nodata_value(raster, x(j)) THEN ByteMax ELSE Bool(x(j) = 0)
    BY <2>1, SamePredicates DEF D!logical_not, D!is_nodata_value, D!has_nan, has_nan
  <2>3. ~D!is_nodata_value(raster, x(j)) => x(j) # NaN
    BY <2>1 DEF D!is_nodata_value, D!has_nan, has_nan, Types
  <2>4. x(j) # NaN => (Holds("equal_to", x(j), 0) <=> x(j) = 0)
    BY <1>1 DEF Holds
  <2>5. x(j) # NaN => Bool(Holds("equal_to", x(j), 0)) = Bool(x(j) = 0)
    BY <2>4 DEF Bool
  <2> HIDE DEF result
  <2> QED BY <2>2, <2>3, <2>5
<1>4. Inverted(raster) = D!ByteRaster(raster, None, elements)
  <2> HIDE DEF result, byte
  <2> QED BY <1>2, <1>3
<1>5. elements = [j \in 1 .. n |-> elements[j]] /\ elements[i] = byte(i)
  OBVIOUS
<1> HIDE DEF elements
<1>6. ByteOf(Inverted(raster), i) = byte(i)
  BY <1>4, <1>5, DenseByte
<1>7. Tells(byte(i), "equal_to", Contents(raster)[i], 0, InBandNumbers(raster))
  <2> DEFINE z == byte(i)
             missing == FALSE
  <2>1. z = IF D!is_nodata_value(raster, raster.data[i]) \/ missing THEN ByteMax
            ELSE Bool(Holds("equal_to", raster.data[i], 0))
    OBVIOUS
  <2>2. 0 \in Promise!AsRead(0, InBandNumbers(raster))
    BY DEF Promise!AsRead
  <2> HIDE DEF z
  <2>3. Tells(z, "equal_to", Contents(raster)[i], 0, InBandNumbers(raster))
    BY <1>1, <2>1, <2>2, DenseTold
  <2> QED BY <2>3 DEF z
<1> QED BY <1>6, <1>7

-----------------------------------------------------------------------------
(* Comparisons: the bytes of a masked raster are exact *)

LEMMA MaskedTold ==
    ASSUME NEW pred, NEW left, NEW right, NEW numbers, NEW z,
           z = IF left = None \/ right = None THEN ByteMax ELSE Bool(Holds(pred, left, right))
    PROVE  Tells(z, pred, left, right, numbers)
<1>1. left \in Promise!AsRead(left, numbers) /\ right \in Promise!AsRead(right, numbers)
  BY DEF Promise!AsRead
<1>2. /\ left = None \/ right = None => Promise!Comparison(pred, left, right) = None
      /\ ~(left = None \/ right = None) =>
            /\ Promise!Comparison(pred, left, right) = Bool(Holds(pred, left, right))
            /\ Bool(Holds(pred, left, right)) # None
  BY ComparisonIs, SamePredicates
<1> QED BY <1>1, <1>2 DEF Tells

LEMMA MaskedByte ==
    ASSUME NEW r, NEW nod2, NEW bits, NEW elements, NEW i
    PROVE  ByteOf(M!ByteRaster(r, nod2, bits, elements), i) =
              IF bits # <<>> /\ bits[i] THEN ByteMax ELSE elements[i]
<1> DEFINE t == M!ByteRaster(r, nod2, bits, elements)
<1>1. /\ Masked(t) /\ t.mask = bits /\ t.data = elements
  BY DEF M!ByteRaster, M!Raster, Masked
<1> HIDE DEF t
<1>2. ByteOf(t, i) = IF bits # <<>> /\ bits[i] THEN ByteMax ELSE elements[i]
  BY <1>1 DEF ByteOf, IsNodata, M!is_nodata, M!has_nodata, M!NoMask
<1> QED BY <1>2 DEF t

LEMMA MaskedCompared ==
    ASSUME RasterOK(raster), Masked(raster), NEW s \in Others, NEW pred, NEW i \in 1 .. Len(raster.data)
    PROVE  Tells(ByteOf(Compared(raster, s, pred), i), pred, Contents(raster)[i], Contents(s)[i],
                 NumbersIn(raster, s, raster))
<1> DEFINE n == Len(raster.data)
           elements == [j \in 1 .. n |-> Bool(Holds(pred, raster.data[j], s.data[j]))]
           bits == M!combine_mask(raster.mask, s.mask)
<1>1. MaskedOf(s, n) /\ \A j \in 1 .. n : s.data[j] # None
  BY MaskedOtherRaster
<1>2. Compared(raster, s, pred) = M!perform_binary_operation(raster, s, pred)
  BY DEF Compared, M!equals
<1>3. Compared(raster, s, pred) = M!ByteRaster(raster, s.nod, bits, elements)
  BY <1>2, PresentParts, SamePredicates DEF M!perform_binary_operation
<1>4. /\ bits # <<>> /\ bits[i] <=> Contents(raster)[i] = None \/ Contents(s)[i] = None
      /\ Contents(raster)[i] # None => Contents(raster)[i] = raster.data[i]
      /\ Contents(s)[i] # None => Contents(s)[i] = s.data[i]
  BY <1>1, MaskedPair
<1>5. elements[i] = Bool(Holds(pred, raster.data[i], s.data[i]))
  OBVIOUS
<1> HIDE DEF elements, bits
<1>6. ByteOf(Compared(raster, s, pred), i) = IF bits # <<>> /\ bits[i] THEN ByteMax ELSE elements[i]
  BY <1>3, MaskedByte
<1> QED BY <1>4, <1>5, <1>6, MaskedTold

LEMMA MaskedComparedToScalar ==
    ASSUME RasterOK(raster), Masked(raster), NEW v \in ElementsOf(raster.type) \ {NaN}, NEW pred,
           NEW i \in 1 .. Len(raster.data)
    PROVE  Tells(ByteOf(ComparedToScalar(raster, pred, v), i), pred, Contents(raster)[i], v,
                 InBandNumbers(raster))
<1> DEFINE n == Len(raster.data)
           elements == [j \in 1 .. n |-> Bool(Holds(pred, raster.data[j], v))]
<1>1. ComparedToScalar(raster, pred, v) = M!ByteRaster(raster, None, raster.mask, elements)
  BY PresentParts, SamePredicates DEF ComparedToScalar, M!perform_unary_operation
<1>2. elements[i] = Bool(Holds(pred, raster.data[i], v))
  OBVIOUS
<1> HIDE DEF elements
<1>3. ByteOf(ComparedToScalar(raster, pred, v), i) =
         IF raster.mask # <<>> /\ raster.mask[i] THEN ByteMax ELSE elements[i]
  BY <1>1, MaskedByte
<1>4. v # None
  BY ElementsTyped, PresentParts, ElementsAssumption DEF Number
<1> QED BY <1>2, <1>3, <1>4, PresentParts, MaskedTold

LEMMA MaskedInverted ==
    ASSUME RasterOK(raster), Masked(raster), NEW i \in 1 .. Len(raster.data)
    PROVE  Tells(ByteOf(Inverted(raster), i), "equal_to", Contents(raster)[i], 0, InBandNumbers(raster))
<1> DEFINE n == Len(raster.data)
           elements == [j \in 1 .. n |-> Bool(raster.data[j] = 0)]
<1>1. Inverted(raster) = M!ByteRaster(raster, None, raster.mask, elements)
  BY PresentParts, SamePredicates DEF Inverted, M!Not
<1>2. elements[i] = Bool(Holds("equal_to", raster.data[i], 0))
  <2>1. Holds("equal_to", raster.data[i], 0) <=> raster.data[i] = 0
    BY ElementsAssumption DEF Holds
  <2>2. elements[i] = Bool(raster.data[i] = 0)
    OBVIOUS
  <2> QED BY <2>1, <2>2 DEF Bool
<1> HIDE DEF elements
<1>3. ByteOf(Inverted(raster), i) =
         IF raster.mask # <<>> /\ raster.mask[i] THEN ByteMax ELSE elements[i]
  BY <1>1, MaskedByte
<1>4. 0 # None
  BY ElementsAssumption
<1> QED BY <1>2, <1>3, <1>4, PresentParts, MaskedTold
-----------------------------------------------------------------------------
(* Comparisons: the reports *)

\* Of two rasters of the same storage and size: what has data, and that it is
\* known of every cell.
LEMMA CellsOfPair ==
    ASSUME RasterOK(raster), NEW s \in Others
    PROVE  /\ Len(raster.data) \in Nat \ {0} /\ DOMAIN raster.data = 1 .. Len(raster.data)
           /\ Masked(s) <=> Masked(raster)
           /\ \A i \in 1 .. Len(raster.data) : IsNodata(raster, i) \in BOOLEAN /\ IsNodata(s, i) \in BOOLEAN
<1>1. CASE Masked(raster)
  <2>1. MaskedOf(s, Len(raster.data))
    BY <1>1, MaskedOtherRaster
  <2>2. Masked(s) /\ s.mask \in {<<>>} \cup [1 .. Len(raster.data) -> BOOLEAN]
    BY <2>1 DEF MaskedOf, Masked
  <2> QED BY <1>1, <2>2, PresentParts DEF IsNodata, M!is_nodata
<1>2. CASE ~Masked(raster)
  <2>1. ~Masked(s)
    BY <1>2, DenseOther
  <2> QED BY <1>2, <2>1, DenseShape DEF IsNodata, D!is_nodata
<1> QED BY <1>1, <1>2

\* A cell counts as different where isClose has a 0, and operator== is true
\* where none does.
LEMMA SameCells ==
    ASSUME RasterOK(raster), NEW s \in Others, NEW i \in 1 .. Len(raster.data)
    PROVE  /\ DiffClass(raster, s, i) \notin {"none", "equal"} <=> isClose(raster, s)[i] = 0
           /\ isClose(raster, s)[i] = 0 <=>
                 ~ /\ IsNodata(raster, i) = IsNodata(s, i)
                   /\ IsNodata(raster, i) \/ Holds("equal_to", raster.data[i], s.data[i])
<1> DEFINE x == raster.data[i]
           y == s.data[i]
<1>1. IsNodata(raster, i) \in BOOLEAN /\ IsNodata(s, i) \in BOOLEAN /\ i \in DOMAIN raster.data
  BY CellsOfPair
<1>2. isClose(raster, s)[i] =
         IF IsNodata(raster, i) \/ IsNodata(s, i) THEN Bool(IsNodata(raster, i) = IsNodata(s, i))
         ELSE Bool(Holds("equal_to", x, y))
  BY <1>1 DEF isClose
<1>3. CASE IsNodata(raster, i) /\ IsNodata(s, i)
  <2>1. DiffClass(raster, s, i) = "none"
    BY <1>3 DEF DiffClass
  <2>2. isClose(raster, s)[i] = 1
    BY <1>2, <1>3 DEF Bool
  <2> QED BY <1>3, <2>1, <2>2
<1>4. CASE IsNodata(raster, i) /\ ~IsNodata(s, i)
  <2>1. DiffClass(raster, s, i) \notin {"none", "equal"}
    BY <1>4 DEF DiffClass
  <2>2. isClose(raster, s)[i] = 0
    BY <1>1, <1>2, <1>4 DEF Bool
  <2> QED BY <1>4, <2>1, <2>2
<1>5. CASE ~IsNodata(raster, i) /\ IsNodata(s, i)
  <2>1. DiffClass(raster, s, i) \notin {"none", "equal"}
    BY <1>5 DEF DiffClass
  <2>2. isClose(raster, s)[i] = 0
    BY <1>1, <1>2, <1>5 DEF Bool
  <2> QED BY <1>5, <2>1, <2>2
<1>6. CASE ~IsNodata(raster, i) /\ ~IsNodata(s, i)
  <2>1. DiffClass(raster, s, i) = diff_value(x, y)
    BY <1>6 DEF DiffClass
  <2>2. diff_value(x, y) \notin {"none", "equal"} <=> ~Holds("equal_to", x, y)
    <3>1. Holds("equal_to", x, y) => x = y
      BY DEF Holds
    <3>2. CASE Holds("equal_to", x, y)
      BY <3>1, <3>2 DEF diff_value
    <3>3. CASE ~Holds("equal_to", x, y)
      BY <3>3 DEF diff_value
    <3> QED BY <3>2, <3>3
  <2>3. isClose(raster, s)[i] = 0 <=> ~Holds("equal_to", x, y)
    BY <1>2, <1>6 DEF Bool
  <2> QED BY <1>1, <1>6, <2>1, <2>2, <2>3
<1> QED BY <1>1, <1>3, <1>4, <1>5, <1>6

LEMMA EqualTo ==
    ASSUME RasterOK(raster), NEW s \in Others
    PROVE  equal_to(raster, s) <=>
              \A i \in 1 .. Len(raster.data) :
                 /\ IsNodata(raster, i) = IsNodata(s, i)
                 /\ IsNodata(raster, i) \/ Holds("equal_to", raster.data[i], s.data[i])
<1>1. DOMAIN raster.data = 1 .. Len(raster.data) /\ (Masked(s) <=> Masked(raster))
  BY CellsOfPair
<1>2. CASE Masked(raster)
  BY <1>1, <1>2, SamePredicates DEF equal_to, M!equal_to, M!Cells, IsNodata
<1>3. CASE ~Masked(raster)
  BY <1>1, <1>3, SamePredicates DEF equal_to, D!equal_to, D!Cells, IsNodata
<1> QED BY <1>2, <1>3

LEMMA ReportsHold == RasterOK(raster) => ReportsAgree
<1> SUFFICES ASSUME RasterOK(raster), NEW s \in Others
             PROVE  /\ different_cells(raster, s) =
                          Cardinality({i \in DOMAIN raster.data : isClose(raster, s)[i] = 0})
                    /\ equal_to(raster, s) <=> different_cells(raster, s) = 0
  BY DEF ReportsAgree
<1> DEFINE n == Len(raster.data)
           different == {i \in 1 .. n : DiffClass(raster, s, i) \notin {"none", "equal"}}
           unclose == {i \in 1 .. n : isClose(raster, s)[i] = 0}
<1>1. n \in Nat /\ DOMAIN raster.data = 1 .. n
  BY CellsOfPair
<1>2. different = unclose
  BY SameCells
<1>3. different_cells(raster, s) = Cardinality(different)
  BY <1>1 DEF different_cells
<1>4. different_cells(raster, s) = Cardinality({i \in DOMAIN raster.data : isClose(raster, s)[i] = 0})
  BY <1>1, <1>2, <1>3
<1>5. equal_to(raster, s) <=> unclose = {}
  <2>1. unclose = {} <=> \A i \in 1 .. n : ~(isClose(raster, s)[i] = 0)
    OBVIOUS
  <2> QED BY <2>1, EqualTo, SameCells
<1>6. IsFiniteSet(different)
  <2>1. IsFiniteSet(1 .. n)
    BY <1>1, FS_Interval
  <2>2. different \subseteq 1 .. n
    OBVIOUS
  <2> HIDE DEF different
  <2> QED BY <2>1, <2>2, FS_Subset
<1> HIDE DEF different, unclose
<1>7. different_cells(raster, s) = 0 <=> different = {}
  BY <1>3, <1>6, FS_EmptySet
<1> QED BY <1>2, <1>4, <1>5, <1>7

-----------------------------------------------------------------------------
(* Comparisons: every raster *)

LEMMA ComparisonsHold == RasterOK(raster) => ComparisonsContagious
<1> SUFFICES ASSUME RasterOK(raster) PROVE ComparisonsContagious
  OBVIOUS
<1> DEFINE r == raster
<1>1. DOMAIN r.data = 1 .. Len(r.data)
  BY DenseShape, MaskedShape
<1>2. ASSUME NEW s \in Others, NEW pred \in Predicates,
             Masked(r) \/ r.type = s.type \/ pred = "equal_to", NEW i \in DOMAIN r.data
      PROVE  Tells(ByteOf(Compared(r, s, pred), i), pred, Contents(r)[i], Contents(s)[i], NumbersIn(r, s, r))
  BY <1>1, <1>2, DenseCompared, MaskedCompared
<1>3. ASSUME NEW v \in ElementsOf(r.type) \ {NaN}, NEW pred, NEW i \in DOMAIN r.data
      PROVE  Tells(ByteOf(ComparedToScalar(r, pred, v), i), pred, Contents(r)[i], v, InBandNumbers(r))
  BY <1>1, DenseComparedToScalar, MaskedComparedToScalar
<1>4. ASSUME NEW i \in DOMAIN r.data
      PROVE  Tells(ByteOf(Inverted(r), i), "equal_to", Contents(r)[i], 0, InBandNumbers(r))
  BY <1>1, DenseInverted, MaskedInverted
<1> QED BY <1>2, <1>3, <1>4 DEF ComparisonsContagious, ByteOf

\* In every raster that the calls can make, beside every other one: the bytes of
\* all comparisons are nodata where either side is and tell the predicate
\* elsewhere, and operator==, isClose and diff_rasters say the same.
THEOREM AllComparisonsAgree == Spec => []ComparisonsAgree
<1>1. RasterOK(raster) => ComparisonsAgree
  BY ComparisonsHold, ReportsHold DEF ComparisonsAgree
<1> QED BY <1>1, Invariance, PTL

-----------------------------------------------------------------------------
(* The algorithms on one cell at a time: rasters of n cells *)

\* A raster of n cells of any type.
Shaped(t, n) ==
    /\ n \in Nat \ {0} /\ t.data = [i \in 1 .. n |-> t.data[i]]
    /\ \A i \in 1 .. n : t.data[i] # None
    /\ \/ t = [storage |-> "dense", type |-> t.type, nod |-> t.nod, data |-> t.data]
       \/ /\ t = [storage |-> "masked", type |-> t.type, nod |-> t.nod, data |-> t.data, mask |-> t.mask]
          /\ t.mask \in {<<>>} \cup [1 .. n -> BOOLEAN]

LEMMA ShapedIs ==
    ASSUME NEW t, NEW n, Shaped(t, n)
    PROVE  /\ n \in Nat \ {0} /\ DOMAIN t.data = 1 .. n
           /\ ~Masked(t) => t = [storage |-> "dense", type |-> t.type, nod |-> t.nod, data |-> t.data]
           /\ Masked(t) => /\ t = [storage |-> "masked", type |-> t.type, nod |-> t.nod, data |-> t.data,
                                   mask |-> t.mask]
                           /\ t.mask \in {<<>>} \cup [1 .. n -> BOOLEAN]
           /\ \A i \in 1 .. n : t.data[i] # None
BY DEF Shaped, Masked

\* How an algorithm finds nodata in a storage, in its iterators and in words.
LEMMA Looks ==
    ASSUME NEW t, NEW n, Shaped(t, n), NEW i \in 1 .. n
    PROVE  /\ Masked(t) => /\ Missing(t, i) <=> t.mask # <<>> /\ t.mask[i]
                           /\ IsNodata(t, i) <=> t.mask # <<>> /\ t.mask[i]
           /\ ~Masked(t) => /\ Missing(t, i) <=> IF t.type = "float" THEN t.data[i] = NaN
                                                 ELSE t.nod # None /\ t.data[i] = t.nod
                            /\ IsNodata(t, i) <=> /\ t.nod # None
                                                  /\ t.data[i] = IF t.type = "float" THEN NaN ELSE t.nod
           /\ Optional(t)[i] = IF Missing(t, i) THEN None ELSE t.data[i]
           /\ Contents(t)[i] = IF IsNodata(t, i) THEN None ELSE t.data[i]
           /\ IsNodata(t, i) => Missing(t, i)
           /\ Missing(t, i) \in BOOLEAN /\ IsNodata(t, i) \in BOOLEAN
<1>1. DOMAIN t.data = 1 .. n
  BY ShapedIs
<1>2. /\ Optional(t)[i] = IF Missing(t, i) THEN None ELSE t.data[i]
      /\ Contents(t)[i] = IF IsNodata(t, i) THEN None ELSE t.data[i]
  BY <1>1 DEF Optional, Contents
<1>3. CASE Masked(t)
  <2>1. t.mask \in {<<>>} \cup [1 .. n -> BOOLEAN]
    BY <1>3, ShapedIs
  <2>2. /\ Missing(t, i) = M!is_nodata(t, i)
        /\ IsNodata(t, i) = M!is_nodata(t, i)
        /\ M!is_nodata(t, i) = (t.mask # <<>> /\ t.mask[i])
    BY <1>3 DEF Missing, IsNodata, M!is_nodata, M!has_nodata, M!NoMask
  <2>3. CASE t.mask = <<>>
    BY <1>2, <1>3, <2>2, <2>3
  <2>4. CASE t.mask \in [1 .. n -> BOOLEAN] /\ t.mask # <<>>
    <3>1. t.mask[i] \in BOOLEAN
      BY <2>4
    <3> QED BY <1>2, <1>3, <2>2, <2>4, <3>1
  <2> QED BY <2>1, <2>3, <2>4
<1>4. CASE ~Masked(t)
  BY <1>2, <1>4 DEF Missing, IsNodata, D!is_nodata, D!is_nodata_value, D!has_nan
<1> QED BY <1>3, <1>4

\* The rasters that the calls make and the others of the invariants.
LEMMA OKShaped ==
    ASSUME NEW r, RasterOK(r)
    PROVE  /\ Shaped(r, Len(r.data)) /\ r.type \in Types /\ r.nod \in Number \cup {None}
           /\ \A i \in 1 .. Len(r.data) : r.data[i] \in Number
<1>1. CASE Masked(r)
  BY <1>1, MaskedShape DEF Shaped
<1>2. CASE ~Masked(r)
  <2>1. r.data \in Seq(Number)
    BY <1>2 DEF RasterOK, Masked, DenseType, MaskedType
  <2>2. r.data = [i \in 1 .. Len(r.data) |-> r.data[i]]
    BY <2>1
  <2> QED BY <1>2, <2>2, DenseShape DEF Shaped
<1> QED BY <1>1, <1>2

LEMMA MaskedFromDataIs ==
    ASSUME NEW n, NEW type, NEW nod, NEW elements, Given(n, type, nod, elements), NEW i \in 1 .. n
    PROVE  M!FromData(type, nod, elements).data[i] \in {elements[i], NaN}
<1> DEFINE t == M!Raster(type, nod, elements, <<>>)
<1>0. elements = [j \in 1 .. n |-> elements[j]]
  BY DEF Given
<1>1. M!FromData(type, nod, elements) = M!init_nodata_values(t)
  BY DEF M!FromData, M!NoMask
<1>2. t = [storage |-> "masked", type |-> type, nod |-> nod, data |-> elements, mask |-> <<>>]
  BY DEF M!Raster
<1> HIDE DEF t
<1>3. DOMAIN elements = 1 .. n
  BY <1>0
<1>4. t.data = elements /\ M!Cells(t) = 1 .. n
  BY <1>2, <1>3 DEF M!Cells
<1>5. M!init_nodata_values(t).data[i] \in {elements[i], NaN}
  <2>1. CASE t.nod = None
    BY <1>4, <2>1 DEF M!init_nodata_values
  <2>2. CASE t.nod # None
    <3> DEFINE marks == [j \in 1 .. n |-> elements[j] = t.nod \/ (M!has_nan(t.type) /\ elements[j] = NaN)]
               data == [j \in 1 .. n |-> IF M!has_nan(t.type) /\ elements[j] = t.nod THEN NaN ELSE elements[j]]
    <3>1. M!init_nodata_values(t) = [t EXCEPT !.mask = marks, !.data = data]
      BY <1>4, <2>2 DEF M!init_nodata_values
    <3>2. data[i] \in {elements[i], NaN}
      OBVIOUS
    <3> HIDE DEF marks, data
    <3>3. M!init_nodata_values(t).data = data
      BY <1>2, <3>1
    <3> QED BY <3>2, <3>3
  <2> QED BY <2>1, <2>2
<1> QED BY <1>1, <1>5

\* A raster of one storage with these elements.
LEMMA FromDataIs ==
    ASSUME NEW storage \in {"dense", "masked"}, NEW n, NEW type, NEW nod, NEW elements,
           Given(n, type, nod, elements)
    PROVE  LET s == FromData(storage, type, nod, elements)
           IN  /\ Shaped(s, n) /\ (Masked(s) <=> storage = "masked") /\ s.type \in Types
               /\ s.nod \in Number \cup {None}
               /\ \A i \in 1 .. n : s.data[i] \in {elements[i], NaN} /\ s.data[i] \in Number
<1>0. n \in Nat \ {0} /\ \A i \in 1 .. n : elements[i] \in Number
  BY DEF Given
<1>1. CASE storage = "masked"
  <2> DEFINE s == M!FromData(type, nod, elements)
  <2>1. FromData(storage, type, nod, elements) = s
    BY <1>1 DEF FromData
  <2>2. MaskedHolds(s, n, type)
    BY MaskedFromData
  <2>3. \A i \in 1 .. n : s.data[i] \in {elements[i], NaN}
    BY MaskedFromDataIs
  <2> HIDE DEF s
  <2>4. MaskedOf(s, n) /\ \A i \in 1 .. n : s.data[i] \in Number
    BY <2>2 DEF MaskedHolds
  <2>5. Shaped(s, n) /\ Masked(s) /\ s.type \in Types /\ s.nod \in Number \cup {None}
    <3>1. \A i \in 1 .. n : s.data[i] # None
      BY <2>4, ElementsAssumption DEF Number
    <3> QED BY <1>0, <2>4, <3>1 DEF MaskedOf, Masked, Shaped
  <2> QED BY <1>1, <2>1, <2>3, <2>4, <2>5
<1>2. CASE storage = "dense"
  <2> DEFINE s == D!FromData(type, nod, elements)
  <2>1. FromData(storage, type, nod, elements) = s
    BY <1>2 DEF FromData
  <2>2. DenseHolds(s, n, elements)
    BY DenseFromData
  <2> HIDE DEF s
  <2>3. RasterOK(s) /\ ~Masked(s) /\ Len(s.data) = n /\ \A i \in 1 .. n : s.data[i] \in {elements[i], NaN}
    BY <2>2 DEF DenseHolds
  <2>4. /\ Shaped(s, n) /\ s.type \in Types /\ s.nod \in Number \cup {None}
        /\ \A i \in 1 .. n : s.data[i] \in Number
    BY <2>3, OKShaped
  <2> QED BY <1>2, <2>1, <2>3, <2>4
<1> QED BY <1>1, <1>2

LEMMA OthersAre ==
    ASSUME NEW s \in Others
    PROVE  \E type \in Types : \E nod \in NumbersOf(type), k \in 0 .. 2 :
              s = FromData(raster.storage, type, nod, [i \in DOMAIN raster.data |-> (i + k) % 3])
BY DEF Others, Types

LEMMA OtherShaped ==
    ASSUME RasterOK(raster), NEW s \in Others
    PROVE  /\ Shaped(s, Len(raster.data)) /\ (Masked(s) <=> Masked(raster)) /\ s.type \in Types
           /\ s.nod \in Number \cup {None}
           /\ \A i \in 1 .. Len(raster.data) : s.data[i] \in 0 .. 2 \cup {NaN} /\ s.data[i] \in Number
<1>0. PICK type \in Types : \E nod \in NumbersOf(type), k \in 0 .. 2 :
         s = FromData(raster.storage, type, nod, [i \in DOMAIN raster.data |-> (i + k) % 3])
  BY OthersAre
<1>1. PICK nod \in NumbersOf(type), k \in 0 .. 2 :
         s = FromData(raster.storage, type, nod, [i \in DOMAIN raster.data |-> (i + k) % 3])
  BY <1>0
<1> DEFINE n == Len(raster.data)
           elements == [i \in 1 .. n |-> (i + k) % 3]
<1>2. n \in Nat \ {0} /\ DOMAIN raster.data = 1 .. n /\ nod \in Number \cup {None}
  BY OKShaped, ShapedIs, NumbersTyped
<1>3. s = FromData(raster.storage, type, nod, elements)
  BY <1>1, <1>2
<1>4. ASSUME NEW i \in 1 .. n PROVE elements[i] \in 0 .. 2
  <2>1. elements[i] = (i + k) % 3 /\ i \in Int /\ k \in Int
    BY <1>2
  <2> QED BY <2>1
<1>5. elements = [i \in 1 .. n |-> elements[i]]
  OBVIOUS
<1>6. raster.storage \in {"dense", "masked"} /\ (Masked(raster) <=> raster.storage = "masked")
  BY DEF RasterOK, DenseType, MaskedType, Masked
<1> HIDE DEF elements, n
<1>7. Given(n, type, nod, elements)
  BY <1>2, <1>4, <1>5 DEF Given, Number
<1>8. /\ Shaped(s, n) /\ (Masked(s) <=> raster.storage = "masked") /\ s.type \in Types
      /\ s.nod \in Number \cup {None}
      /\ \A i \in 1 .. n : s.data[i] \in {elements[i], NaN} /\ s.data[i] \in Number
  BY <1>3, <1>6, <1>7, FromDataIs
<1> QED BY <1>4, <1>6, <1>8 DEF n

\* How the cells of a raster can be read: as they are, as an iterator sees them,
\* and, where it is not masked out, as the element is.
LEMMA Reads ==
    ASSUME NEW t, NEW n, Shaped(t, n), NEW numbers, InBandNumbers(t) \subseteq numbers, NEW i \in 1 .. n
    PROVE  /\ Contents(t)[i] \in Promise!AsRead(Contents(t)[i], numbers)
           /\ Optional(t)[i] \in Promise!AsRead(Contents(t)[i], numbers)
           /\ (Masked(t) => ~IsNodata(t, i)) => Optional(t)[i] \in Promise!AsRead(t.data[i], numbers)
<1> DEFINE x == t.data[i]
<1>1. t.data[i] # None
  BY ShapedIs
<1>2. ~Masked(t) /\ Missing(t, i) => t.data[i] \in numbers
  BY <1>1, Looks DEF InBandNumbers, has_nan
<1>3. Masked(t) => (Missing(t, i) <=> IsNodata(t, i))
  BY Looks
<1>4. /\ Optional(t)[i] = IF Missing(t, i) THEN None ELSE t.data[i]
      /\ Contents(t)[i] = IF IsNodata(t, i) THEN None ELSE t.data[i]
      /\ IsNodata(t, i) => Missing(t, i)
      /\ Missing(t, i) \in BOOLEAN /\ IsNodata(t, i) \in BOOLEAN
  BY Looks
<1> QED BY <1>2, <1>3, <1>4 DEF Promise!AsRead

\* Other elements in the raster, and another mask.
Having(t, data) == [t EXCEPT !.data = data]
MaskedBy(t, bits) == [t EXCEPT !.mask = bits]
Listed(data, n) == data = [i \in 1 .. n |-> data[i]]
Row(data, n) == Listed(data, n) /\ \A i \in 1 .. n : data[i] # None

LEMMA WithData ==
    ASSUME NEW t, NEW n, Shaped(t, n), NEW data, Row(data, n)
    PROVE  LET u == Having(t, data)
           IN  /\ Shaped(u, n) /\ (Masked(u) <=> Masked(t)) /\ u.type = t.type /\ u.nod = t.nod
               /\ u.data = data /\ (Masked(t) => u.mask = t.mask)
               /\ InBandNumbers(u) = InBandNumbers(t)
<1> DEFINE u == Having(t, data)
<1>0. n \in Nat \ {0}
  BY ShapedIs
<1>1. CASE Masked(t)
  <2>1. t = [storage |-> "masked", type |-> t.type, nod |-> t.nod, data |-> t.data, mask |-> t.mask]
    BY <1>1, ShapedIs
  <2>2. u = [storage |-> "masked", type |-> t.type, nod |-> t.nod, data |-> data, mask |-> t.mask]
    BY <2>1 DEF Having
  <2> HIDE DEF u
  <2>3. u.type = t.type /\ u.nod = t.nod /\ u.data = data /\ u.mask = t.mask /\ u.storage = "masked"
    BY <2>2
  <2>4. Masked(u) /\ InBandNumbers(u) = InBandNumbers(t)
    BY <1>1, <2>3 DEF Masked, InBandNumbers
  <2>5. Shaped(u, n)
    BY <1>0, <1>1, <2>2, <2>3, ShapedIs DEF Shaped, Row, Listed
  <2> QED BY <1>1, <2>3, <2>4, <2>5 DEF u
<1>2. CASE ~Masked(t)
  <2>1. t = [storage |-> "dense", type |-> t.type, nod |-> t.nod, data |-> t.data]
    BY <1>2, ShapedIs
  <2>2. u = [storage |-> "dense", type |-> t.type, nod |-> t.nod, data |-> data]
    BY <2>1 DEF Having
  <2> HIDE DEF u
  <2>3. u.type = t.type /\ u.nod = t.nod /\ u.data = data /\ u.storage = "dense"
    BY <2>2
  <2>4. ~Masked(u) /\ InBandNumbers(u) = InBandNumbers(t)
    BY <1>2, <2>3 DEF Masked, InBandNumbers
  <2>5. Shaped(u, n)
    BY <1>0, <2>2, <2>3 DEF Shaped, Row, Listed
  <2> QED BY <1>2, <2>3, <2>4, <2>5 DEF u
<1> QED BY <1>1, <1>2

LEMMA WithMask ==
    ASSUME NEW t, NEW n, Shaped(t, n), Masked(t), NEW bits \in [1 .. n -> BOOLEAN]
    PROVE  LET u == MaskedBy(t, bits)
           IN  /\ Shaped(u, n) /\ Masked(u) /\ u.type = t.type /\ u.nod = t.nod
               /\ u.data = t.data /\ u.mask = bits
<1> DEFINE u == MaskedBy(t, bits)
<1>1. /\ t = [storage |-> "masked", type |-> t.type, nod |-> t.nod, data |-> t.data, mask |-> t.mask]
      /\ n \in Nat \ {0}
  BY ShapedIs
<1>2. u = [storage |-> "masked", type |-> t.type, nod |-> t.nod, data |-> t.data, mask |-> bits]
  BY <1>1 DEF MaskedBy
<1>3. t.data = [i \in 1 .. n |-> t.data[i]] /\ \A i \in 1 .. n : t.data[i] # None
  BY DEF Shaped
<1> HIDE DEF u
<1>4. u.type = t.type /\ u.nod = t.nod /\ u.data = t.data /\ u.mask = bits /\ u.storage = "masked"
  BY <1>2
<1>5. Shaped(u, n) /\ Masked(u)
  BY <1>1, <1>2, <1>3, <1>4 DEF Shaped, Masked
<1> QED BY <1>4, <1>5 DEF u

\* Nodata in a raster of any type has a place: the number of the metadata, or NaN.
LEMMA InBandRead ==
    ASSUME NEW t, NEW n, Shaped(t, n), ~Masked(t), NEW i \in 1 .. n, t.data[i] = D!InBand(t),
           t.type = "float" \/ t.nod # None
    PROVE  Optional(t)[i] = None
BY Looks DEF D!InBand, D!has_nan

\* What is put is there.
LEMMA PutIs ==
    ASSUME NEW t, NEW n, Shaped(t, n), NEW out, Listed(out, n), MayPut(t, out)
    PROVE  /\ InBandNumbers(Put(t, out)) = InBandNumbers(t)
           /\ \A i \in 1 .. n : \A numbers : InBandNumbers(t) \subseteq numbers =>
                 Optional(Put(t, out))[i] \in Promise!AsRead(out[i], numbers)
           /\ Shaped(Put(t, out), n) /\ Put(t, out).nod = t.nod /\ Put(t, out).type = t.type
           /\ Masked(Put(t, out)) <=> Masked(t)
           /\ \A i \in 1 .. n : out[i] = None => Missing(Put(t, out), i)
<1> DEFINE u == Put(t, out)
<1>0. DOMAIN t.data = 1 .. n /\ DOMAIN out = 1 .. n /\ \A i \in 1 .. n : t.data[i] # None
  BY ShapedIs DEF Listed
<1> SUFFICES /\ InBandNumbers(u) = InBandNumbers(t)
             /\ Shaped(u, n) /\ u.nod = t.nod /\ u.type = t.type /\ (Masked(u) <=> Masked(t))
             /\ \A i \in 1 .. n :
                   /\ out[i] = None => Missing(u, i)
                   /\ out[i] # None => u.data[i] = out[i] /\ (Masked(u) => ~IsNodata(u, i))
  <2> HIDE DEF u
  <2>1. \A i \in 1 .. n : out[i] = None => Optional(u)[i] = None
    BY Looks
  <2>2. \A i \in 1 .. n : out[i] = None => \A numbers : Optional(u)[i] \in Promise!AsRead(out[i], numbers)
    BY <2>1 DEF Promise!AsRead
  <2>3. \A i \in 1 .. n : out[i] # None => \A numbers :
           InBandNumbers(u) \subseteq numbers => Optional(u)[i] \in Promise!AsRead(out[i], numbers)
    BY Reads
  <2> QED BY <2>2, <2>3 DEF u
<1>1. CASE Masked(t)
  <2> DEFINE data == [i \in 1 .. n |-> IF out[i] = None THEN t.data[i] ELSE out[i]]
             bits == [i \in 1 .. n |-> out[i] = None]
             v == Having(t, data)
  <2>1. Row(data, n)
    BY <1>0 DEF Row, Listed
  <2>2. \A i \in 1 .. n : out[i] # None => data[i] = out[i]
    OBVIOUS
  <2>3. bits \in [1 .. n -> BOOLEAN] /\ \A i \in 1 .. n : bits[i] <=> out[i] = None
    BY Zenon
  <2>4. u = [t EXCEPT !.data = data, !.mask = IF t.mask # <<>> THEN bits ELSE t.mask]
    BY <1>0, <1>1 DEF Put, M!has_nodata, M!NoMask
  <2>5. /\ Shaped(v, n) /\ Masked(v) /\ v.type = t.type /\ v.nod = t.nod
        /\ v.data = data /\ v.mask = t.mask /\ InBandNumbers(v) = InBandNumbers(t)
    <3> HIDE DEF data
    <3> QED BY <1>1, <2>1, WithData
  <2>6. u = MaskedBy(v, IF t.mask # <<>> THEN bits ELSE t.mask)
    BY <2>4 DEF Having, MaskedBy
  <2> HIDE DEF u, v, data, bits
  <2>7. CASE t.mask # <<>>
    <3>1. u = MaskedBy(v, bits)
      BY <2>6, <2>7
    <3>2. /\ Shaped(u, n) /\ Masked(u) /\ u.type = v.type /\ u.nod = v.nod
          /\ u.data = data /\ u.mask = bits
      BY <2>3, <2>5, <3>1, WithMask
    <3>3. InBandNumbers(u) = InBandNumbers(t)
      BY <1>1, <3>2 DEF InBandNumbers
    <3>4. bits # <<>>
      BY <2>3, ShapedIs, MaskOrNone
    <3>5. \A i \in 1 .. n : (Missing(u, i) <=> out[i] = None) /\ (IsNodata(u, i) <=> out[i] = None)
      BY <2>3, <3>2, <3>4, Looks
    <3> QED BY <1>1, <2>2, <2>5, <3>2, <3>3, <3>5
  <2>8. CASE t.mask = <<>>
    <3>1. u = MaskedBy(v, v.mask)
      BY <2>5, <2>6, <2>8
    <3>2. u = v
      <4>1. v = [storage |-> "masked", type |-> v.type, nod |-> v.nod, data |-> v.data, mask |-> v.mask]
        BY <2>5, ShapedIs
      <4> QED BY <3>1, <4>1 DEF MaskedBy
    <3>3. \A i \in 1 .. n : out[i] # None
      BY <1>0, <1>1, <2>8 DEF MayPut, M!has_nodata, M!NoMask
    <3>4. \A i \in 1 .. n : ~IsNodata(u, i)
      BY <2>5, <2>8, <3>2, Looks
    <3> QED BY <1>1, <2>2, <2>5, <3>2, <3>3, <3>4
  <2> QED BY <2>7, <2>8
<1>2. CASE ~Masked(t)
  <2> DEFINE data == [i \in 1 .. n |-> IF out[i] = None THEN D!InBand(t) ELSE out[i]]
  <2>1. u = Having(t, data)
    BY <1>0, <1>2 DEF Put, Having
  <2>2. \A i \in 1 .. n : out[i] = None => t.type = "float" \/ t.nod # None
    BY <1>0, <1>2 DEF MayPut, has_nan
  <2>3. t.type = "float" \/ t.nod # None => D!InBand(t) # None
    BY ElementsAssumption DEF D!InBand, D!has_nan
  <2>4. Row(data, n)
    BY <2>2, <2>3 DEF Row, Listed
  <2>5. \A i \in 1 .. n : data[i] = IF out[i] = None THEN D!InBand(t) ELSE out[i]
    OBVIOUS
  <2> HIDE DEF u, data
  <2>6. /\ Shaped(u, n) /\ ~Masked(u) /\ u.type = t.type /\ u.nod = t.nod /\ u.data = data
        /\ InBandNumbers(u) = InBandNumbers(t)
    BY <1>2, <2>1, <2>4, WithData
  <2>7. D!InBand(u) = D!InBand(t)
    BY <2>6 DEF D!InBand
  <2>8. \A i \in 1 .. n : out[i] = None => Optional(u)[i] = None
    BY <2>2, <2>5, <2>6, <2>7, InBandRead
  <2>9. \A i \in 1 .. n : out[i] = None => Missing(u, i)
    <3>1. \A i \in 1 .. n : u.data[i] # None
      BY <2>6, ShapedIs
    <3> QED BY <2>6, <2>8, <3>1, Looks
  <2> QED BY <1>2, <2>5, <2>6, <2>9
<1> QED BY <1>1, <1>2

\* What is marked is nodata, and the rest is what it was.
SomeMarked(u, t, n, cells) ==
    /\ Shaped(u, n) /\ (Masked(u) <=> Masked(t)) /\ u.type = t.type /\ u.nod = t.nod
    /\ InBandNumbers(u) = InBandNumbers(t)
    /\ \A i \in 1 .. n :
          /\ Optional(u)[i] = IF i \in cells THEN None ELSE Optional(t)[i]
          /\ i \notin cells \/ Masked(t) => u.data[i] = t.data[i]
          /\ i \in cells /\ ~Masked(t) => u.data[i] = D!InBand(t)
          /\ Masked(t) => (IsNodata(u, i) <=> i \in cells \/ IsNodata(t, i))

LEMMA MarkedIs ==
    ASSUME NEW t, NEW n, Shaped(t, n), NEW cells, cells \subseteq 1 .. n,
           cells = {} \/ Masked(t) \/ t.type = "float" \/ t.nod # None
    PROVE  SomeMarked(Marked(t, cells), t, n, cells)
<1> DEFINE u == Marked(t, cells)
<1>0. DOMAIN t.data = 1 .. n /\ n \in Nat \ {0} /\ \A i \in 1 .. n : t.data[i] # None
  BY ShapedIs
<1>1. CASE cells = {}
  <2>1. u = t
    BY <1>1 DEF Marked
  <2> QED BY <1>1, <2>1 DEF SomeMarked
<1>2. CASE cells # {} /\ Masked(t)
  <2> DEFINE bits == [i \in 1 .. n |-> i \in cells \/ M!is_nodata(t, i)]
  <2>1. u = MaskedBy(t, bits)
    BY <1>0, <1>2 DEF Marked, MaskedBy
  <2>2. \A i \in 1 .. n : IsNodata(t, i) = M!is_nodata(t, i) /\ IsNodata(t, i) \in BOOLEAN
    BY <1>2, Looks DEF IsNodata
  <2>3. bits \in [1 .. n -> BOOLEAN] /\ \A i \in 1 .. n : bits[i] <=> i \in cells \/ IsNodata(t, i)
    BY <2>2
  <2>4. bits # <<>>
    <3> HIDE DEF bits
    <3> QED BY <1>0, <2>3, MaskOrNone
  <2> HIDE DEF u, bits
  <2>5. /\ Shaped(u, n) /\ Masked(u) /\ u.type = t.type /\ u.nod = t.nod
        /\ u.data = t.data /\ u.mask = bits
    BY <1>2, <2>1, <2>3, WithMask
  <2>6. InBandNumbers(u) = InBandNumbers(t)
    BY <1>2, <2>5 DEF InBandNumbers
  <2>7. ASSUME NEW i \in 1 .. n
        PROVE  /\ IsNodata(u, i) <=> i \in cells \/ IsNodata(t, i)
               /\ Missing(u, i) <=> i \in cells \/ Missing(t, i)
    <3>1. Missing(u, i) = IsNodata(u, i) /\ Missing(t, i) = IsNodata(t, i)
      BY <1>2, <2>5 DEF Missing, IsNodata
    <3>2. IsNodata(u, i) <=> bits[i]
      BY <2>4, <2>5, Looks
    <3> QED BY <2>3, <3>1, <3>2
  <2>8. \A i \in 1 .. n : Optional(u)[i] = IF i \in cells THEN None ELSE Optional(t)[i]
    BY <2>5, <2>7, Looks
  <2> QED BY <1>2, <2>5, <2>6, <2>7, <2>8 DEF u, SomeMarked
<1>3. CASE cells # {} /\ ~Masked(t)
  <2> DEFINE data == [i \in 1 .. n |-> IF i \in cells THEN D!InBand(t) ELSE t.data[i]]
  <2>1. u = Having(t, data)
    BY <1>0, <1>3 DEF Marked, Having
  <2>2. t.type = "float" \/ t.nod # None
    BY <1>3
  <2>3. D!InBand(t) # None
    BY <2>2, ElementsAssumption DEF D!InBand, D!has_nan
  <2>4. Row(data, n) /\ \A i \in 1 .. n : data[i] = IF i \in cells THEN D!InBand(t) ELSE t.data[i]
    BY <1>0, <2>3 DEF Row, Listed
  <2> HIDE DEF u, data
  <2>5. /\ Shaped(u, n) /\ ~Masked(u) /\ u.type = t.type /\ u.nod = t.nod /\ u.data = data
        /\ InBandNumbers(u) = InBandNumbers(t)
    BY <1>3, <2>1, <2>4, WithData
  <2>6. D!InBand(u) = D!InBand(t)
    BY <2>5 DEF D!InBand
  <2>7. \A i \in 1 .. n : i \in cells => Optional(u)[i] = None
    BY <2>2, <2>4, <2>5, <2>6, InBandRead
  <2>8. \A i \in 1 .. n : i \notin cells => Optional(u)[i] = Optional(t)[i]
    BY <1>3, <2>4, <2>5, Looks
  <2> QED BY <1>3, <2>4, <2>5, <2>7, <2>8 DEF u, SomeMarked
<1> QED BY <1>1, <1>2, <1>3

\* A raster made of metadata has nothing masked out.
AllShown(u, r, n, type, nod) ==
    /\ Shaped(u, n) /\ (Masked(u) <=> Masked(r)) /\ u.type = type /\ u.nod = nod
    /\ \A i \in 1 .. n : Masked(u) => ~IsNodata(u, i)
    /\ Masked(u) => (u.mask = <<>> <=> nod = None)

LEMMA MadeIs ==
    ASSUME NEW r, NEW n, Shaped(r, n), NEW type, NEW nod
    PROVE  AllShown(Made(r, type, nod), r, n, type, nod)
<1> DEFINE u == Made(r, type, nod)
           zeros == [i \in 1 .. n |-> 0]
<1>0. DOMAIN r.data = 1 .. n /\ n \in Nat \ {0} /\ 0 # None /\ NaN # None
  BY ShapedIs, ElementsAssumption
<1>1. zeros = [i \in 1 .. n |-> zeros[i]] /\ \A i \in 1 .. n : zeros[i] # None
  BY <1>0
<1>2. CASE Masked(r)
  <2> DEFINE bits == IF nod = None THEN <<>> ELSE [i \in 1 .. n |-> FALSE]
  <2>1. u = M!Raster(type, nod, zeros, bits)
    BY <1>0, <1>2 DEF Made, M!NoMask, M!All, M!Cells
  <2>2. u = [storage |-> "masked", type |-> type, nod |-> nod, data |-> zeros, mask |-> bits]
    BY <2>1 DEF M!Raster
  <2>3. bits \in {<<>>} \cup [1 .. n -> BOOLEAN] /\ \A i \in 1 .. n : ~(bits # <<>> /\ bits[i])
    OBVIOUS
  <2>7. bits = <<>> <=> nod = None
    BY <1>0, <2>3, MaskOrNone
  <2> HIDE DEF u, zeros, bits
  <2>4. u.storage = "masked" /\ u.type = type /\ u.nod = nod /\ u.data = zeros /\ u.mask = bits
    BY <2>2
  <2>5. Shaped(u, n) /\ Masked(u)
    BY <1>0, <1>1, <2>2, <2>3, <2>4 DEF Shaped, Masked
  <2>6. \A i \in 1 .. n : ~IsNodata(u, i)
    BY <2>3, <2>4, <2>5, Looks
  <2> QED BY <1>2, <2>4, <2>5, <2>6, <2>7 DEF u, AllShown
<1>3. CASE ~Masked(r)
  <2> DEFINE t == D!Raster(type, nod, zeros)
  <2>1. u = D!init_nodata_values(t)
    BY <1>0, <1>3 DEF Made, D!FromData
  <2>2. t = [storage |-> "dense", type |-> type, nod |-> nod, data |-> zeros]
    BY DEF D!Raster
  <2> HIDE DEF u, t, zeros
  <2>3. t.storage = "dense" /\ t.type = type /\ t.nod = nod /\ t.data = zeros
    BY <2>2
  <2>4. Shaped(t, n) /\ ~Masked(t)
    BY <1>0, <1>1, <2>2, <2>3 DEF Shaped, Masked
  <2>5. Shaped(u, n) /\ ~Masked(u) /\ u.type = type /\ u.nod = nod
    <3> DEFINE data == [i \in 1 .. n |-> IF t.data[i] = t.nod THEN NaN ELSE t.data[i]]
    <3>1. D!Cells(t) = 1 .. n
      BY <2>4, ShapedIs DEF D!Cells
    <3>2. Row(data, n)
      BY <1>0, <1>1, <2>3 DEF Row, Listed
    <3>3. u = t \/ u = Having(t, data)
      BY <2>1, <3>1 DEF D!init_nodata_values, Having
    <3> HIDE DEF data
    <3>4. CASE u = Having(t, data)
      BY <2>3, <2>4, <3>2, <3>4, WithData
    <3> QED BY <2>3, <2>4, <3>3, <3>4
  <2> QED BY <1>3, <2>5 DEF u, AllShown
<1> QED BY <1>2, <1>3

\* An element of a raster made anew, before and after some are marked.
LEMMA MadeHaving ==
    ASSUME NEW r, NEW n, Shaped(r, n), NEW type, NEW nod, NEW data, Row(data, n)
    PROVE  LET u == Having(Made(r, type, nod), data)
           IN  /\ AllShown(u, r, n, type, nod) /\ u.data = data
               /\ \A i \in 1 .. n : \A numbers : InBandNumbers(u) \subseteq numbers =>
                     Optional(u)[i] \in Promise!AsRead(data[i], numbers)
<1> DEFINE t == Made(r, type, nod)
           u == Having(t, data)
<1>1. AllShown(t, r, n, type, nod)
  BY MadeIs
<1> HIDE DEF t
<1>2. /\ Shaped(u, n) /\ (Masked(u) <=> Masked(t)) /\ u.type = t.type /\ u.nod = t.nod
      /\ u.data = data /\ (Masked(t) => u.mask = t.mask)
  BY <1>1, WithData DEF AllShown
<1> HIDE DEF u
<1>3. \A i \in 1 .. n : Masked(u) => ~IsNodata(u, i)
  BY <1>1, <1>2, Looks DEF AllShown
<1>4. \A i \in 1 .. n : \A numbers : InBandNumbers(u) \subseteq numbers =>
         Optional(u)[i] \in Promise!AsRead(data[i], numbers)
  BY <1>2, <1>3, Reads
<1> QED BY <1>1, <1>2, <1>3, <1>4 DEF u, t, AllShown

\* Two rasters of n cells in the same storage.
Pair(r, s, n) ==
    /\ Shaped(r, n) /\ Shaped(s, n) /\ (Masked(s) <=> Masked(r))
    /\ r.type \in Types /\ s.type \in Types
    /\ r.nod \in Number \cup {None} /\ s.nod \in Number \cup {None}
    /\ \A i \in 1 .. n : r.data[i] \in Number /\ s.data[i] \in Number

LEMMA PairIs ==
    ASSUME RasterOK(raster)
    PROVE  /\ Pair(raster, raster, Len(raster.data))
           /\ \A s \in Others : Pair(raster, s, Len(raster.data))
<1>1. Pair(raster, raster, Len(raster.data))
  BY OKShaped DEF Pair
<1>2. ASSUME NEW s \in Others PROVE Pair(raster, s, Len(raster.data))
  BY OKShaped, OtherShaped DEF Pair
<1> QED BY <1>1, <1>2

\* Cell i of t, with contents x and y of those of r and s, holds w.
Shown(t, r, s, i, x, y, w) ==
    /\ x \in Promise!AsRead(Contents(r)[i], NumbersIn(r, s, t))
    /\ y \in Promise!AsRead(Contents(s)[i], NumbersIn(r, s, t))
    /\ Optional(t)[i] \in Promise!AsRead(w, NumbersIn(r, s, t))

\* Optional values are put, and cells are marked.
LEMMA PutShown ==
    ASSUME NEW n, NEW r, NEW s, Pair(r, s, n), NEW t, Shaped(t, n), NEW out, Listed(out, n),
           MayPut(t, out), NEW i \in 1 .. n
    PROVE  Shown(Put(t, out), r, s, i, Optional(r)[i], Optional(s)[i], out[i])
<1>1. /\ InBandNumbers(Put(t, out)) = InBandNumbers(t)
      /\ \A numbers : InBandNumbers(t) \subseteq numbers =>
            Optional(Put(t, out))[i] \in Promise!AsRead(out[i], numbers)
  BY PutIs
<1> DEFINE u == Put(t, out)
           numbers == NumbersIn(r, s, u)
<1> HIDE DEF u
<1>2. InBandNumbers(r) \subseteq numbers /\ InBandNumbers(s) \subseteq numbers /\ InBandNumbers(u) \subseteq numbers
  BY DEF NumbersIn
<1>3. Shaped(r, n) /\ Shaped(s, n)
  BY DEF Pair
<1> HIDE DEF numbers
<1>4. /\ Optional(r)[i] \in Promise!AsRead(Contents(r)[i], numbers)
      /\ Optional(s)[i] \in Promise!AsRead(Contents(s)[i], numbers)
  BY <1>2, <1>3, Reads
<1>5. Optional(u)[i] \in Promise!AsRead(out[i], numbers)
  BY <1>1, <1>2 DEF u
<1> QED BY <1>4, <1>5 DEF Shown, u, numbers

LEMMA MarkShown ==
    ASSUME NEW n, NEW r, NEW s, Pair(r, s, n), NEW cells, cells \subseteq 1 .. n,
           cells = {} \/ Masked(r) \/ r.type = "float" \/ r.nod # None, NEW i \in 1 .. n
    PROVE  Shown(Marked(r, cells), r, s, i, Optional(r)[i], Optional(s)[i],
                 IF i \in cells THEN None ELSE Optional(r)[i])
<1> DEFINE u == Marked(r, cells)
           numbers == NumbersIn(r, s, u)
<1>3. Shaped(r, n) /\ Shaped(s, n)
  BY DEF Pair
<1>0. SomeMarked(u, r, n, cells)
  BY <1>3, MarkedIs
<1> HIDE DEF u
<1>1. Optional(u)[i] = IF i \in cells THEN None ELSE Optional(r)[i]
  BY <1>0 DEF SomeMarked
<1>2. InBandNumbers(r) \subseteq numbers /\ InBandNumbers(s) \subseteq numbers
  BY DEF NumbersIn
<1> HIDE DEF numbers
<1>4. /\ Optional(r)[i] \in Promise!AsRead(Contents(r)[i], numbers)
      /\ Optional(s)[i] \in Promise!AsRead(Contents(s)[i], numbers)
  BY <1>2, <1>3, Reads
<1>5. Optional(u)[i] \in Promise!AsRead(IF i \in cells THEN None ELSE Optional(r)[i], numbers)
  BY <1>1 DEF Promise!AsRead
<1> QED BY <1>4, <1>5 DEF Shown, u, numbers

\* A cell in which what is wanted is the element, or nodata.
LEMMA ElementShown ==
    ASSUME NEW n, NEW r, NEW s, Pair(r, s, n), NEW t, Shaped(t, n), NEW i \in 1 .. n, NEW x, NEW y, NEW w,
           x \in {Contents(r)[i], Optional(r)[i]}, y \in {Contents(s)[i], Optional(s)[i]},
           \/ w = t.data[i] /\ (Masked(t) => ~IsNodata(t, i))
           \/ w = Optional(t)[i]
    PROVE  Shown(t, r, s, i, x, y, w)
<1> DEFINE numbers == NumbersIn(r, s, t)
<1>1. /\ InBandNumbers(r) \subseteq numbers /\ InBandNumbers(s) \subseteq numbers
      /\ InBandNumbers(t) \subseteq numbers
  BY DEF NumbersIn
<1>2. Shaped(r, n) /\ Shaped(s, n)
  BY DEF Pair
<1> HIDE DEF numbers
<1>3. x \in Promise!AsRead(Contents(r)[i], numbers)
  BY <1>1, <1>2, Reads
<1>4. y \in Promise!AsRead(Contents(s)[i], numbers)
  BY <1>1, <1>2, Reads
<1>5. Optional(t)[i] \in Promise!AsRead(w, numbers)
  <2>1. CASE w = t.data[i] /\ (Masked(t) => ~IsNodata(t, i))
    BY <1>1, <2>1, Reads
  <2>2. CASE w = Optional(t)[i]
    BY <2>2 DEF Promise!AsRead
  <2> QED BY <2>1, <2>2
<1> QED BY <1>3, <1>4, <1>5 DEF Shown, numbers

-----------------------------------------------------------------------------
(* Cell by cell: masks *)

LEMMA MasksHold ==
    ASSUME NEW n, NEW r, NEW s, Pair(r, s, n)
    PROVE  MasksAgree(r, s)
<1>1. /\ Shaped(r, n) /\ Shaped(s, n) /\ r.nod \in Number \cup {None}
      /\ DOMAIN r.data = 1 .. n /\ DOMAIN s.data = 1 .. n
      /\ \A i \in 1 .. n : r.data[i] # None /\ s.data[i] # None /\ s.data[i] \in Number
  BY ShapedIs DEF Pair
<1>2. \A i \in 1 .. n : /\ Optional(r)[i] = IF Missing(r, i) THEN None ELSE r.data[i]
                        /\ Optional(s)[i] = IF Missing(s, i) THEN None ELSE s.data[i]
  BY <1>1, Looks
<1>3. \A i \in 1 .. n : Missing(s, i) <=> Optional(s)[i] = None
  BY <1>1, <1>2
<1> DEFINE optional == [i \in DOMAIN r.data |-> IF Missing(s, i) THEN None ELSE Optional(r)[i]]
<1>4. ASSUME MayPut(r, optional)
      PROVE  Agrees(apply_mask(r, s), r, s, LAMBDA x, y : IF y = None THEN None ELSE x)
  <2>1. /\ apply_mask(r, s) = Put(r, optional) /\ Listed(optional, n)
        /\ \A i \in 1 .. n : optional[i] = IF Missing(s, i) THEN None ELSE Optional(r)[i]
    BY <1>1 DEF apply_mask, Listed
  <2> HIDE DEF optional
  <2>2. \A i \in 1 .. n : Shown(apply_mask(r, s), r, s, i, Optional(r)[i], Optional(s)[i], optional[i])
    BY <1>1, <1>4, <2>1, PutShown
  <2>3. \A i \in 1 .. n : optional[i] = IF Optional(s)[i] = None THEN None ELSE Optional(r)[i]
    BY <1>3, <2>1
  <2> QED BY <1>1, <2>2, <2>3 DEF Agrees, Shown
<1>5. Agrees(erase_outside_mask(r, s), r, s,
             LAMBDA x, y : IF y \in {0, None}
                           THEN IF r.nod # None \/ x = None THEN None ELSE 0 ELSE x)
  <2> DEFINE erased == {i \in 1 .. n : s.data[i] = 0 \/ IsNodata(s, i)}
             zero == IF r.nod = None THEN 0 ELSE nodata_for_type(r.type)
             data == [i \in 1 .. n |-> IF i \in erased THEN zero ELSE r.data[i]]
             t == Having(r, data)
             u == erase_outside_mask(r, s)
  <2>1. u = IF r.nod = None THEN t ELSE Marked(t, erased)
    BY <1>1 DEF erase_outside_mask, Having
  <2>2. zero # None
    BY ElementsAssumption DEF nodata_for_type
  <2>3. Row(data, n) /\ \A i \in 1 .. n : data[i] = IF i \in erased THEN zero ELSE r.data[i]
    BY <1>1, <2>2 DEF Row, Listed
  <2>4. \A i \in 1 .. n : i \in erased <=> Contents(s)[i] \in {0, None}
    BY <1>1, Looks
  <2>5. erased \subseteq 1 .. n
    OBVIOUS
  <2> HIDE DEF data, erased
  <2>6. /\ Shaped(t, n) /\ (Masked(t) <=> Masked(r)) /\ t.type = r.type /\ t.nod = r.nod
        /\ t.data = data /\ (Masked(r) => t.mask = r.mask)
    BY <1>1, <2>3, WithData
  <2> HIDE DEF t
  <2>7. CASE r.nod = None
    <3>1. u = t /\ zero = 0
      BY <2>1, <2>7
    <3> HIDE DEF u, zero
    <3>2. ASSUME NEW i \in 1 .. n
          PROVE  Shown(u, r, s, i, Contents(r)[i], Contents(s)[i],
                       IF Contents(s)[i] \in {0, None} THEN IF Contents(r)[i] = None THEN None ELSE 0
                       ELSE Contents(r)[i])
      <4> DEFINE w == IF Contents(s)[i] \in {0, None} THEN IF Contents(r)[i] = None THEN None ELSE 0
                      ELSE Contents(r)[i]
      <4>1. IsNodata(t, i) <=> IsNodata(r, i)
        <5>1. CASE Masked(r)
          BY <1>1, <2>6, <5>1, Looks
        <5>2. CASE ~Masked(r)
          BY <1>1, <2>6, <2>7, <5>2, Looks
        <5> QED BY <5>1, <5>2
      <4>2. Contents(r)[i] = IF IsNodata(r, i) THEN None ELSE r.data[i]
        BY <1>1, Looks
      <4>3. CASE IsNodata(r, i)
        <5>1. Optional(t)[i] = None
          BY <2>6, <4>1, <4>3, Looks
        <5>2. w = None
          BY <4>2, <4>3
        <5> HIDE DEF w
        <5> QED BY <2>6, <3>1, <5>1, <5>2, ElementShown DEF w
      <4>4. CASE ~IsNodata(r, i)
        <5>1. w = t.data[i] /\ ~IsNodata(t, i)
          BY <1>1, <2>3, <2>4, <2>6, <3>1, <4>1, <4>2, <4>4
        <5> HIDE DEF w
        <5> QED BY <2>6, <3>1, <5>1, ElementShown DEF w
      <4> QED BY <4>3, <4>4
    <3> QED BY <1>1, <2>7, <3>2 DEF Agrees, Shown, u
  <2>8. CASE r.nod # None
    <3>1. u = Marked(t, erased)
      BY <2>1, <2>8
    <3>2. SomeMarked(u, t, n, erased)
      BY <2>5, <2>6, <2>8, <3>1, MarkedIs
    <3> HIDE DEF u
    <3>3. ASSUME NEW i \in 1 .. n
          PROVE  Shown(u, r, s, i, Optional(r)[i], Contents(s)[i],
                       IF Contents(s)[i] \in {0, None} THEN None ELSE Optional(r)[i])
      <4>1. Optional(u)[i] = IF i \in erased THEN None ELSE Optional(t)[i]
        BY <3>2 DEF SomeMarked
      <4>2. i \notin erased => Optional(t)[i] = Optional(r)[i]
        BY <1>1, <2>3, <2>6, Looks
      <4>3. Optional(u)[i] = IF Contents(s)[i] \in {0, None} THEN None ELSE Optional(r)[i]
        BY <2>4, <4>1, <4>2
      <4>4. Shaped(u, n)
        BY <3>2 DEF SomeMarked
      <4> QED BY <4>3, <4>4, ElementShown
    <3> QED BY <1>1, <2>8, <3>3 DEF Agrees, Shown, u
  <2> QED BY <2>7, <2>8
<1>6. ASSUME MayMask(r, s)
      PROVE  Agrees(mask(r, s), r, s, LAMBDA x, y :
                       IF maskFunction(IF y = None THEN s.nod ELSE y) THEN x ELSE None)
  <2> DEFINE cells == SkippedByMask(r, s)
  <2>1. /\ \A i \in 1 .. n : i \in cells <=> ~maskFunction(IF Optional(s)[i] = None THEN s.nod ELSE Optional(s)[i])
        /\ cells \subseteq 1 .. n
    BY <1>1, <1>2, <1>3 DEF SkippedByMask
  <2>2. mask(r, s) = Marked(r, cells) /\ MayMark(r, cells)
    BY <1>6 DEF mask, MayMask
  <2> HIDE DEF cells
  <2>3. \A i \in 1 .. n : Shown(mask(r, s), r, s, i, Optional(r)[i], Optional(s)[i],
                                IF i \in cells THEN None ELSE Optional(r)[i])
    <3>1. cells = {} \/ Masked(r) \/ r.nod # None
      BY <2>2 DEF MayMark, D!MayMark
    <3>2. \A i \in 1 .. n : Shown(Marked(r, cells), r, s, i, Optional(r)[i], Optional(s)[i],
                                  IF i \in cells THEN None ELSE Optional(r)[i])
      BY <2>1, <3>1, MarkShown
    <3> QED BY <2>2, <3>2
  <2> QED BY <1>1, <2>1, <2>3 DEF Agrees, Shown
<1>7. /\ Covered(s) = {i \in 1 .. n : Optional(s)[i] # None}
      /\ Positive(s) = {i \in 1 .. n : Optional(s)[i] \notin {None, NaN} /\ Optional(s)[i] > 0}
  <2>1. Covered(s) = {i \in 1 .. n : Optional(s)[i] # None}
    BY <1>1, <1>3 DEF Covered
  <2>2. \A i \in 1 .. n : Optional(s)[i] # None =>
           (Holds("greater", s.data[i], 0) <=> Optional(s)[i] # NaN /\ Optional(s)[i] > 0)
    BY <1>1, <1>2, ElementsAssumption DEF Holds, Number
  <2> QED BY <2>1, <2>2 DEF Positive
<1>8. ASSUME MayMark(r, DOMAIN r.data)
      PROVE  /\ Agrees(inside_mask(r, s), r, s, LAMBDA x, y : IF y = None THEN None ELSE x)
             /\ Agrees(outside_mask(r, s), r, s, LAMBDA x, y : IF y = None THEN x ELSE None)
             /\ Agrees(exclude_mask(s, r), r, s, LAMBDA x, y :
                       IF y \notin {None, NaN} /\ y > 0 THEN None ELSE x)
  <2>1. Masked(r) \/ r.nod # None
    <3>1. 1 \in DOMAIN r.data
      BY <1>1 DEF Shaped
    <3> QED BY <1>8, <3>1 DEF MayMark, D!MayMark
  <2>2. \A cells : cells \subseteq 1 .. n => \A i \in 1 .. n :
           Shown(Marked(r, cells), r, s, i, Optional(r)[i], Optional(s)[i],
                 IF i \in cells THEN None ELSE Optional(r)[i])
    BY <2>1, MarkShown
  <2>3. Agrees(inside_mask(r, s), r, s, LAMBDA x, y : IF y = None THEN None ELSE x)
    <3> DEFINE cells == DOMAIN r.data \ Covered(s)
    <3>1. inside_mask(r, s) = Marked(r, cells)
      BY DEF inside_mask
    <3>2. cells \subseteq 1 .. n /\ \A i \in 1 .. n : i \in cells <=> Optional(s)[i] = None
      BY <1>1, <1>7
    <3> HIDE DEF cells
    <3> QED BY <1>1, <2>2, <3>1, <3>2 DEF Agrees, Shown
  <2>4. Agrees(outside_mask(r, s), r, s, LAMBDA x, y : IF y = None THEN x ELSE None)
    <3> DEFINE cells == Covered(s)
    <3>1. outside_mask(r, s) = Marked(r, cells)
      BY DEF outside_mask
    <3>2. cells \subseteq 1 .. n /\ \A i \in 1 .. n : i \in cells <=> Optional(s)[i] # None
      BY <1>7
    <3> HIDE DEF cells
    <3> QED BY <1>1, <2>2, <3>1, <3>2 DEF Agrees, Shown
  <2>5. Agrees(exclude_mask(s, r), r, s, LAMBDA x, y :
                  IF y \notin {None, NaN} /\ y > 0 THEN None ELSE x)
    <3> DEFINE cells == Positive(s)
    <3>1. exclude_mask(s, r) = Marked(r, cells)
      BY DEF exclude_mask
    <3>2. /\ cells \subseteq 1 .. n
          /\ \A i \in 1 .. n : i \in cells <=> Optional(s)[i] \notin {None, NaN} /\ Optional(s)[i] > 0
      BY <1>7
    <3> HIDE DEF cells
    <3> QED BY <1>1, <2>2, <3>1, <3>2 DEF Agrees, Shown
  <2> QED BY <2>3, <2>4, <2>5
<1>9. Agrees(include_mask(s, r), r, s, LAMBDA x, y : IF y \notin {None, NaN} /\ y > 0 THEN 1 ELSE x)
  <2> DEFINE cells == Positive(s)
             data == [i \in 1 .. n |-> IF i \in cells THEN 1 ELSE r.data[i]]
             bits == [i \in DOMAIN r.mask |-> r.mask[i] /\ i \notin cells]
             t == Having(r, data)
             u == include_mask(s, r)
  <2>1. u = IF Masked(r) /\ r.mask # <<>> THEN [t EXCEPT !.mask = [i \in DOMAIN @ |-> @[i] /\ i \notin cells]] ELSE t
    BY <1>1 DEF include_mask, Having, M!has_nodata, M!NoMask
  <2>2. Row(data, n) /\ \A i \in 1 .. n : data[i] = IF i \in cells THEN 1 ELSE r.data[i]
    BY <1>1, ElementsAssumption DEF Row, Listed
  <2>3. \A i \in 1 .. n : i \in cells <=> Optional(s)[i] \notin {None, NaN} /\ Optional(s)[i] > 0
    BY <1>7
  <2> HIDE DEF data, cells
  <2>4. /\ Shaped(t, n) /\ (Masked(t) <=> Masked(r)) /\ t.type = r.type /\ t.nod = r.nod
        /\ t.data = data /\ (Masked(r) => t.mask = r.mask)
    BY <1>1, <2>2, WithData
  <2> HIDE DEF t
  <2>5. /\ Shaped(u, n)
        /\ \A i \in 1 .. n : /\ i \in cells => u.data[i] = 1 /\ (Masked(u) => ~IsNodata(u, i))
                             /\ i \notin cells => Optional(u)[i] = Optional(r)[i]
    <3>1. CASE Masked(r) /\ r.mask # <<>>
      <4>1. u = MaskedBy(t, bits)
        BY <2>1, <2>4, <3>1 DEF MaskedBy
      <4>2. r.mask \in [1 .. n -> BOOLEAN]
        BY <1>1, <3>1, ShapedIs
      <4>3. bits \in [1 .. n -> BOOLEAN] /\ \A i \in 1 .. n : bits[i] <=> r.mask[i] /\ i \notin cells
        BY <4>2
      <4> HIDE DEF u, bits
      <4>4. /\ Shaped(u, n) /\ Masked(u) /\ u.data = t.data /\ u.mask = bits
        BY <2>4, <3>1, <4>1, <4>3, WithMask
      <4>5. bits # <<>>
        BY <1>1, <4>3, MaskOrNone, ShapedIs
      <4>6. \A i \in 1 .. n : (IsNodata(u, i) <=> bits[i]) /\ (Missing(u, i) <=> bits[i])
        BY <4>4, <4>5, Looks
      <4>7. \A i \in 1 .. n : Missing(r, i) <=> r.mask[i]
        BY <1>1, <3>1, Looks
      <4>8. \A i \in 1 .. n : Optional(u)[i] = IF Missing(u, i) THEN None ELSE u.data[i]
        BY <4>4, Looks
      <4> QED BY <1>2, <2>2, <2>4, <4>3, <4>4, <4>6, <4>7, <4>8
    <3>2. CASE ~(Masked(r) /\ r.mask # <<>>)
      <4>1. u = t
        BY <2>1, <3>2
      <4> HIDE DEF u
      <4>2. \A i \in 1 .. n : Masked(u) => ~IsNodata(u, i)
        BY <2>4, <3>2, <4>1, Looks
      <4>3. ASSUME NEW i \in 1 .. n, i \notin cells PROVE Optional(u)[i] = Optional(r)[i]
        <5>1. u.data[i] = r.data[i]
          BY <2>2, <2>4, <4>1, <4>3
        <5> QED BY <1>1, <2>4, <4>1, <5>1, Looks
      <4> QED BY <2>2, <2>4, <4>1, <4>2, <4>3
    <3> QED BY <3>1, <3>2
  <2> HIDE DEF u
  <2>6. \A i \in 1 .. n : Shown(u, r, s, i, Optional(r)[i], Optional(s)[i],
                                IF i \in cells THEN 1 ELSE Optional(r)[i])
    <3> SUFFICES ASSUME NEW i \in 1 .. n
                 PROVE  Shown(u, r, s, i, Optional(r)[i], Optional(s)[i],
                              IF i \in cells THEN 1 ELSE Optional(r)[i])
      OBVIOUS
    <3>1. CASE i \in cells
      <4>1. Shaped(u, n) /\ u.data[i] = 1 /\ (Masked(u) => ~IsNodata(u, i))
        BY <2>5, <3>1
      <4>2. Shown(u, r, s, i, Optional(r)[i], Optional(s)[i], u.data[i])
        BY <4>1, ElementShown
      <4> QED BY <3>1, <4>1, <4>2
    <3>2. CASE i \notin cells
      <4>1. Shaped(u, n) /\ Optional(u)[i] = Optional(r)[i]
        BY <2>5, <3>2
      <4>2. Shown(u, r, s, i, Optional(r)[i], Optional(s)[i], Optional(u)[i])
        BY <4>1, ElementShown
      <4> QED BY <3>2, <4>1, <4>2
    <3> QED BY <3>1, <3>2
  <2> QED BY <1>1, <2>3, <2>6 DEF Agrees, Shown, u
<1> QED BY <1>4, <1>5, <1>6, <1>8, <1>9 DEF MasksAgree

-----------------------------------------------------------------------------
(* Cell by cell: conditions *)

LEMMA ConditionShaped ==
    ASSUME RasterOK(raster), NEW c \in Conditions
    PROVE  Shaped(c, Len(raster.data))
<1>1. PICK k \in 0 .. 2 : c = FromData(raster.storage, "uint", 2, [i \in DOMAIN raster.data |-> (i + k) % 3])
  BY DEF Conditions
<1> DEFINE n == Len(raster.data)
           elements == [i \in 1 .. n |-> (i + k) % 3]
<1>2. n \in Nat \ {0} /\ DOMAIN raster.data = 1 .. n
  BY OKShaped, ShapedIs
<1>3. c = FromData(raster.storage, "uint", 2, elements)
  BY <1>1, <1>2
<1>4. ASSUME NEW i \in 1 .. n PROVE elements[i] \in Int
  <2>1. elements[i] = (i + k) % 3 /\ i \in Int /\ k \in Int
    BY <1>2
  <2> QED BY <2>1
<1>5. elements = [i \in 1 .. n |-> elements[i]]
  OBVIOUS
<1>6. raster.storage \in {"dense", "masked"}
  BY DEF RasterOK, DenseType, MaskedType
<1> HIDE DEF elements, n
<1>7. Given(n, "uint", 2, elements)
  BY <1>2, <1>4, <1>5 DEF Given, Number, Types
<1>8. Shaped(c, n)
  BY <1>3, <1>6, <1>7, FromDataIs
<1> QED BY <1>8 DEF n

\* A raster that had no number gets one, which can show only where it is dense.
LEMMA WithNumberIs ==
    ASSUME NEW r, NEW n, Shaped(r, n), r.type \in Types
    PROVE  LET v == WithNumber(r)
           IN  /\ Shaped(v, n) /\ (Masked(v) <=> Masked(r)) /\ v.type = r.type /\ v.nod # None
               /\ v.data = r.data
               /\ \A i \in 1 .. n : /\ Missing(r, i) => Missing(v, i)
                                    /\ Masked(r) => (Missing(v, i) <=> Missing(r, i))
<1> DEFINE v == WithNumber(r)
           nod == Largest(r.type)
<1>1. nod # None
  BY FloatMaxAssumption, ElementsAssumption DEF Largest
<1>2. CASE r.nod # None
  <2>1. v = r
    BY <1>2 DEF WithNumber
  <2> QED BY <1>2, <2>1
<1>3. CASE r.nod = None
  <2>0. /\ n \in Nat \ {0} /\ r.data = [i \in 1 .. n |-> r.data[i]]
        /\ \A i \in 1 .. n : r.data[i] # None
    BY DEF Shaped
  <2>1. v = [r EXCEPT !.nod = nod]
    BY <1>3 DEF WithNumber
  <2> HIDE DEF v, nod
  <2>2. CASE Masked(r)
    <3>1. r = [storage |-> "masked", type |-> r.type, nod |-> r.nod, data |-> r.data, mask |-> r.mask]
      BY <2>2, ShapedIs
    <3>2. v = [storage |-> "masked", type |-> r.type, nod |-> nod, data |-> r.data, mask |-> r.mask]
      BY <2>1, <3>1
    <3>3. v.storage = "masked" /\ v.type = r.type /\ v.nod = nod /\ v.data = r.data /\ v.mask = r.mask
      BY <3>2
    <3>4. r.mask \in {<<>>} \cup [1 .. n -> BOOLEAN]
      BY <2>2, ShapedIs
    <3>5. Shaped(v, n) /\ Masked(v)
      BY <2>0, <3>2, <3>3, <3>4 DEF Shaped, Masked
    <3>6. \A i \in 1 .. n : Missing(v, i) <=> Missing(r, i)
      BY <2>2, <3>3, <3>5, Looks
    <3> QED BY <1>1, <2>2, <3>3, <3>5, <3>6 DEF v
  <2>3. CASE ~Masked(r)
    <3>1. r = [storage |-> "dense", type |-> r.type, nod |-> r.nod, data |-> r.data]
      BY <2>3, ShapedIs
    <3>2. v = [storage |-> "dense", type |-> r.type, nod |-> nod, data |-> r.data]
      BY <2>1, <3>1
    <3>3. v.storage = "dense" /\ v.type = r.type /\ v.nod = nod /\ v.data = r.data
      BY <3>2
    <3>5. Shaped(v, n) /\ ~Masked(v)
      BY <2>0, <3>2, <3>3 DEF Shaped, Masked
    <3>6. \A i \in 1 .. n : Missing(r, i) => Missing(v, i)
      BY <1>3, <2>3, <3>3, <3>5, Looks
    <3> QED BY <1>1, <2>3, <3>3, <3>5, <3>6 DEF v
  <2> QED BY <2>2, <2>3
<1> QED BY <1>2, <1>3

LEMMA IfThenHolds ==
    ASSUME NEW n, NEW r, NEW s, Pair(r, s, n), \A i \in DOMAIN s.data : ~IsNodata(s, i)
    PROVE  Agrees(if_then(s, r), r, s, LAMBDA x, y : IF y = 0 THEN None ELSE x)
<1>1. /\ Shaped(r, n) /\ Shaped(s, n) /\ r.type \in Types
      /\ DOMAIN r.data = 1 .. n /\ DOMAIN s.data = 1 .. n
  BY ShapedIs DEF Pair
<1> DEFINE v == WithNumber(r)
           cells == {i \in 1 .. n : s.data[i] = 0}
           t == Marked(v, cells)
<1>2. if_then(s, r) = t
  BY <1>1 DEF if_then
<1>3. /\ Shaped(v, n) /\ (Masked(v) <=> Masked(r)) /\ v.type = r.type /\ v.nod # None
      /\ v.data = r.data
      /\ \A i \in 1 .. n : /\ Missing(r, i) => Missing(v, i)
                           /\ Masked(r) => (Missing(v, i) <=> Missing(r, i))
  BY <1>1, WithNumberIs
<1>4. \A i \in 1 .. n : Contents(s)[i] = s.data[i]
  BY <1>1, Looks
<1>5. cells \subseteq 1 .. n /\ \A i \in 1 .. n : i \in cells <=> Contents(s)[i] = 0
  BY <1>4
<1> HIDE DEF cells, v
<1>6. SomeMarked(t, v, n, cells)
  BY <1>3, <1>5, MarkedIs
<1> HIDE DEF t
<1>7. ASSUME NEW i \in 1 .. n
      PROVE  Shown(t, r, s, i, Optional(r)[i], Contents(s)[i], IF i \in cells THEN None ELSE Optional(r)[i])
  <2>1. /\ Shaped(t, n) /\ (Masked(t) <=> Masked(v))
        /\ Optional(t)[i] = IF i \in cells THEN None ELSE Optional(v)[i]
        /\ i \notin cells => t.data[i] = v.data[i]
        /\ Masked(v) => (IsNodata(t, i) <=> i \in cells \/ IsNodata(v, i))
    BY <1>6 DEF SomeMarked
  <2>2. /\ Optional(r)[i] = IF Missing(r, i) THEN None ELSE r.data[i]
        /\ Optional(v)[i] = IF Missing(v, i) THEN None ELSE v.data[i]
        /\ IsNodata(v, i) => Missing(v, i)
    BY <1>1, <1>3, Looks
  <2>3. CASE i \in cells \/ Missing(r, i)
    <3>1. Optional(t)[i] = None /\ (IF i \in cells THEN None ELSE Optional(r)[i]) = None
      BY <1>3, <2>1, <2>2, <2>3
    <3>2. Shown(t, r, s, i, Optional(r)[i], Contents(s)[i], Optional(t)[i])
      BY <2>1, ElementShown
    <3> QED BY <3>1, <3>2
  <2>4. CASE i \notin cells /\ ~Missing(r, i)
    <3>1. Optional(r)[i] = t.data[i] /\ (Masked(t) => ~IsNodata(t, i))
      BY <1>3, <2>1, <2>2, <2>4
    <3>2. Shown(t, r, s, i, Optional(r)[i], Contents(s)[i], t.data[i])
      BY <2>1, <3>1, ElementShown
    <3> QED BY <2>4, <3>1, <3>2
  <2> QED BY <2>3, <2>4
<1> QED BY <1>1, <1>2, <1>5, <1>7 DEF Agrees, Shown

LEMMA IfThenElseHolds ==
    ASSUME NEW n, NEW r, NEW s, Pair(r, s, n), NEW c, Shaped(c, n), NEW i \in 1 .. n
    PROVE  Shown(if_then_else(c, r, s), r, s, i, Contents(r)[i], Contents(s)[i],
                 CASE Contents(c)[i] = None -> None
                   [] Contents(c)[i] = 0 -> Contents(s)[i]
                   [] OTHER -> Contents(r)[i])
<1>1. /\ Shaped(r, n) /\ Shaped(s, n) /\ (Masked(s) <=> Masked(r)) /\ DOMAIN r.data = 1 .. n
      /\ r.nod \in Number \cup {None} /\ s.nod \in Number \cup {None}
      /\ \A j \in 1 .. n : r.data[j] # None /\ s.data[j] # None
  BY ShapedIs DEF Pair
<1> DEFINE type == Widest(r.type, s.type)
           nod == CASE r.nod # None -> r.nod
                    [] r.nod = None /\ s.nod # None -> s.nod
                    [] OTHER -> Largest(type)
           from(j) == IF c.data[j] # 0 THEN r ELSE s
           missing == {j \in 1 .. n : IsNodata(c, j) \/ IsNodata(from(j), j)}
           made == Made(r, type, nod)
           data == [j \in 1 .. n |-> IF j \in missing THEN made.data[j] ELSE from(j).data[j]]
           t == if_then_else(c, r, s)
           filled == Having(made, data)
<1>2. nod # None
  <2>1. Largest(type) # None
    BY FloatMaxAssumption, ElementsAssumption DEF Largest
  <2> HIDE DEF type
  <2> QED BY <2>1
<1>3. AllShown(made, r, n, type, nod)
  BY <1>1, MadeIs
<1>4. DOMAIN made.data = 1 .. n /\ \A j \in 1 .. n : made.data[j] # None
  <2> HIDE DEF made
  <2> QED BY <1>3, ShapedIs DEF AllShown
<1>5. t = Marked(filled, missing)
  <2>1. t = Marked([made EXCEPT !.data = [j \in DOMAIN @ |-> IF j \in missing THEN @[j] ELSE from(j).data[j]]],
                   missing)
    BY <1>1 DEF if_then_else
  <2> HIDE DEF made, missing, from
  <2> QED BY <1>4, <2>1 DEF Having
<1>6. Row(data, n) /\ \A j \in 1 .. n : j \notin missing => data[j] = from(j).data[j]
  <2>1. \A j \in 1 .. n : from(j).data[j] # None
    BY <1>1
  <2> HIDE DEF made, missing, from
  <2> QED BY <1>4, <2>1 DEF Row, Listed
<1>7. missing \subseteq 1 .. n /\ (i \in missing <=> IsNodata(c, i) \/ IsNodata(from(i), i))
  OBVIOUS
<1>8. from(i) = r \/ from(i) = s
  OBVIOUS
<1>9. from(i) = IF c.data[i] # 0 THEN r ELSE s
  OBVIOUS
<1> HIDE DEF t, data, missing, from, nod, type
<1>10. AllShown(filled, r, n, type, nod) /\ filled.data = data
  BY <1>1, <1>6, MadeHaving
<1> HIDE DEF filled, made
<1>11. SomeMarked(t, filled, n, missing)
  BY <1>2, <1>5, <1>7, <1>10, MarkedIs DEF AllShown
<1>12. /\ Shaped(t, n) /\ (Masked(t) <=> Masked(filled))
       /\ Optional(t)[i] = IF i \in missing THEN None ELSE Optional(filled)[i]
       /\ i \notin missing => t.data[i] = filled.data[i]
       /\ Masked(filled) => (IsNodata(t, i) <=> i \in missing \/ IsNodata(filled, i))
  BY <1>11 DEF SomeMarked
<1> DEFINE w == CASE Contents(c)[i] = None -> None
                  [] Contents(c)[i] = 0 -> Contents(s)[i]
                  [] OTHER -> Contents(r)[i]
<1>13. /\ Contents(c)[i] = IF IsNodata(c, i) THEN None ELSE c.data[i]
       /\ Contents(r)[i] = IF IsNodata(r, i) THEN None ELSE r.data[i]
       /\ Contents(s)[i] = IF IsNodata(s, i) THEN None ELSE s.data[i]
       /\ c.data[i] # None /\ 0 # None
  BY <1>1, Looks, ShapedIs, ElementsAssumption
<1>14. w = IF i \in missing THEN None ELSE from(i).data[i]
  <2>1. CASE IsNodata(c, i)
    BY <1>7, <1>13, <2>1
  <2>2. CASE ~IsNodata(c, i) /\ c.data[i] = 0
    <3>1. from(i) = s /\ w = Contents(s)[i]
      BY <1>9, <1>13, <2>2
    <3> HIDE DEF w
    <3> QED BY <1>7, <1>13, <2>2, <3>1
  <2>3. CASE ~IsNodata(c, i) /\ c.data[i] # 0
    <3>1. from(i) = r /\ w = Contents(r)[i]
      BY <1>9, <1>13, <2>3
    <3> HIDE DEF w
    <3> QED BY <1>7, <1>13, <2>3, <3>1
  <2> QED BY <2>1, <2>2, <2>3
<1> HIDE DEF w
<1>15. CASE i \in missing
  <2>1. Optional(t)[i] = w
    BY <1>12, <1>14, <1>15
  <2>2. Shown(t, r, s, i, Contents(r)[i], Contents(s)[i], w)
    BY <1>12, <2>1, ElementShown
  <2> QED BY <2>2 DEF w, t
<1>16. CASE i \notin missing
  <2>1. w = t.data[i] /\ (Masked(t) => ~IsNodata(t, i))
    BY <1>6, <1>10, <1>12, <1>14, <1>16 DEF AllShown
  <2>2. Shown(t, r, s, i, Contents(r)[i], Contents(s)[i], w)
    BY <1>12, <2>1, ElementShown
  <2> QED BY <2>2 DEF w, t
<1> QED BY <1>15, <1>16

LEMMA ConditionsHold ==
    ASSUME RasterOK(raster), NEW s \in Others
    PROVE  ConditionsAgree(raster, s)
<1> DEFINE n == Len(raster.data)
           r == raster
<1>1. Pair(r, s, n) /\ DOMAIN r.data = 1 .. n
  BY PairIs, OKShaped, ShapedIs
<1>2. (\A i \in DOMAIN s.data : ~IsNodata(s, i)) =>
         Agrees(if_then(s, r), r, s, LAMBDA x, y : IF y = 0 THEN None ELSE x)
  BY <1>1, IfThenHolds
<1>3. ASSUME NEW c \in Conditions, NEW i \in DOMAIN r.data
      PROVE  \E x \in Promise!AsRead(Contents(r)[i], NumbersIn(r, s, if_then_else(c, r, s))),
                y \in Promise!AsRead(Contents(s)[i], NumbersIn(r, s, if_then_else(c, r, s))) :
                   Optional(if_then_else(c, r, s))[i] \in
                      Promise!AsRead(CASE Contents(c)[i] = None -> None
                                       [] Contents(c)[i] = 0 -> y
                                       [] OTHER -> x, NumbersIn(r, s, if_then_else(c, r, s)))
  <2>1. Shaped(c, n)
    BY ConditionShaped
  <2> HIDE DEF n
  <2>2. Shown(if_then_else(c, r, s), r, s, i, Contents(r)[i], Contents(s)[i],
                 CASE Contents(c)[i] = None -> None
                   [] Contents(c)[i] = 0 -> Contents(s)[i]
                   [] OTHER -> Contents(r)[i])
    BY <1>1, <2>1, IfThenElseHolds
  <2> QED BY <2>2, Zenon DEF Shown
<1> QED BY <1>2, <1>3 DEF ConditionsAgree

-----------------------------------------------------------------------------
(* Cell by cell: replacements *)

LEMMA MayPutFewer ==
    ASSUME NEW t, NEW n, NEW out, NEW other, Listed(out, n), Listed(other, n), MayPut(t, other),
           \A i \in 1 .. n : out[i] = None => other[i] = None
    PROVE  MayPut(t, out)
<1>1. DOMAIN out = 1 .. n /\ DOMAIN other = 1 .. n
  BY DEF Listed
<1> QED BY <1>1 DEF MayPut

LEMMA MayPutAll ==
    ASSUME NEW t, NEW n, NEW out, Listed(out, n), \A i \in 1 .. n : out[i] # None
    PROVE  MayPut(t, out)
<1>1. DOMAIN out = 1 .. n
  BY DEF Listed
<1> QED BY <1>1 DEF MayPut

\* What is computed is put into a raster made of the metadata.
LEMMA PerformedShown ==
    ASSUME NEW n, NEW r, NEW s, Pair(r, s, n), NEW type, NEW nod, NEW out, Listed(out, n),
           MayPut(Made(r, type, nod), out), NEW i \in 1 .. n
    PROVE  Shown(Put(Made(r, type, nod), out), r, s, i, Optional(r)[i], Optional(s)[i], out[i])
<1> DEFINE t == Made(r, type, nod)
<1>1. AllShown(t, r, n, type, nod)
  BY MadeIs DEF Pair
<1> HIDE DEF t
<1>2. Shaped(t, n)
  BY <1>1 DEF AllShown
<1>3. MayPut(t, out)
  BY DEF t
<1>4. Shown(Put(t, out), r, s, i, Optional(r)[i], Optional(s)[i], out[i])
  BY <1>2, <1>3, PutShown
<1> QED BY <1>4 DEF t

LEMMA ScalarIs ==
    ASSUME NEW r, NEW v \in ElementsOf(r.type) \ {NaN}
    PROVE  v \in Int /\ v # None
BY StorageAssumption, ElementsAssumption DEF ElementsOf

LEMMA NodataTold ==
    ASSUME NEW n, NEW r, Pair(r, r, n)
    PROVE  /\ Agrees(is_nodata_raster(r), r, r, LAMBDA x, y : Bool(x = None))
           /\ Agrees(is_data(r), r, r, LAMBDA x, y : Bool(x # None))
           /\ MayPut(r, Constant(r, None)) => Agrees(make_nodata(r), r, r, LAMBDA x, y : None)
<1>1. /\ Shaped(r, n) /\ DOMAIN r.data = 1 .. n
      /\ \A i \in 1 .. n : Missing(r, i) <=> Optional(r)[i] = None
  BY Looks, ShapedIs DEF Pair
<1>2. Bool(TRUE) # None /\ Bool(FALSE) # None
  BY ElementsAssumption DEF Bool
<1>3. Agrees(is_nodata_raster(r), r, r, LAMBDA x, y : Bool(x = None))
  <2> DEFINE out == [i \in 1 .. n |-> Bool(Missing(r, i))]
  <2>1. is_nodata_raster(r) = Put(Made(r, "byte", None), out)
    BY <1>1 DEF is_nodata_raster
  <2>2. \A i \in 1 .. n : out[i] = Bool(Optional(r)[i] = None)
    <3>1. \A i \in 1 .. n : out[i] = Bool(Missing(r, i))
      OBVIOUS
    <3> HIDE DEF out
    <3> QED BY <1>1, <3>1 DEF Bool
  <2>3. Listed(out, n) /\ \A i \in 1 .. n : out[i] # None
    <3>1. out = [i \in 1 .. n |-> out[i]]
      OBVIOUS
    <3> HIDE DEF out
    <3> QED BY <2>2, <3>1, ElementsAssumption DEF Listed, Bool
  <2> HIDE DEF out
  <2>4. MayPut(Made(r, "byte", None), out)
    BY <2>3, MayPutAll
  <2>5. \A i \in 1 .. n : Shown(is_nodata_raster(r), r, r, i, Optional(r)[i], Optional(r)[i], out[i])
    BY <2>1, <2>3, <2>4, PerformedShown
  <2> QED BY <1>1, <2>2, <2>5 DEF Agrees, Shown
<1>4. Agrees(is_data(r), r, r, LAMBDA x, y : Bool(x # None))
  <2> DEFINE out == [i \in 1 .. n |-> Bool(~Missing(r, i))]
  <2>1. is_data(r) = Put(Made(r, "byte", None), out)
    BY <1>1 DEF is_data
  <2>2. \A i \in 1 .. n : out[i] = Bool(Optional(r)[i] # None)
    <3>1. \A i \in 1 .. n : out[i] = Bool(~Missing(r, i))
      OBVIOUS
    <3> HIDE DEF out
    <3> QED BY <1>1, <3>1 DEF Bool
  <2>3. Listed(out, n) /\ \A i \in 1 .. n : out[i] # None
    <3>1. out = [i \in 1 .. n |-> out[i]]
      OBVIOUS
    <3> HIDE DEF out
    <3> QED BY <2>2, <3>1, ElementsAssumption DEF Listed, Bool
  <2> HIDE DEF out
  <2>4. MayPut(Made(r, "byte", None), out)
    BY <2>3, MayPutAll
  <2>5. \A i \in 1 .. n : Shown(is_data(r), r, r, i, Optional(r)[i], Optional(r)[i], out[i])
    BY <2>1, <2>3, <2>4, PerformedShown
  <2> QED BY <1>1, <2>2, <2>5 DEF Agrees, Shown
<1>5. ASSUME MayPut(r, Constant(r, None))
      PROVE  Agrees(make_nodata(r), r, r, LAMBDA x, y : None)
  <2> DEFINE out == Constant(r, None)
  <2>1. Listed(out, n) /\ \A i \in 1 .. n : out[i] = None
    BY <1>1 DEF Listed, Constant
  <2>2. make_nodata(r) = Put(r, out)
    BY DEF make_nodata
  <2> HIDE DEF out
  <2>3. MayPut(r, out)
    BY <1>5 DEF out
  <2>4. \A i \in 1 .. n : Shown(make_nodata(r), r, r, i, Optional(r)[i], Optional(r)[i], out[i])
    BY <1>1, <2>1, <2>2, <2>3, PutShown
  <2> QED BY <1>1, <2>1, <2>4 DEF Agrees, Shown
<1> QED BY <1>3, <1>4, <1>5

LEMMA ReplacedShown ==
    ASSUME NEW n, NEW r, Pair(r, r, n), NEW v \in ElementsOf(r.type) \ {NaN}
    PROVE  /\ Agrees(replace_nodata(r, v), r, r, LAMBDA x, y : IF x = None THEN v ELSE x)
           /\ has_nodata(r) =>
                 Agrees(turn_value_into_nodata(r, v), r, r, LAMBDA x, y : IF x = v THEN None ELSE x)
<1>0. v \in Int /\ v # None
  BY ScalarIs
<1>1. /\ Shaped(r, n) /\ DOMAIN r.data = 1 .. n /\ \A i \in 1 .. n : r.data[i] # None
      /\ \A i \in 1 .. n : Optional(r)[i] = IF Missing(r, i) THEN None ELSE r.data[i]
  BY Looks, ShapedIs DEF Pair
<1>2. Agrees(replace_nodata(r, v), r, r, LAMBDA x, y : IF x = None THEN v ELSE x)
  <2> DEFINE out == [i \in 1 .. n |-> IF Missing(r, i) THEN v ELSE r.data[i]]
  <2>1. replace_nodata(r, v) = Put(r, out)
    BY <1>1 DEF replace_nodata
  <2>2. \A i \in 1 .. n : out[i] = IF Optional(r)[i] = None THEN v ELSE Optional(r)[i]
    BY <1>1
  <2>3. Listed(out, n) /\ \A i \in 1 .. n : out[i] # None
    BY <1>0, <1>1 DEF Listed
  <2> HIDE DEF out
  <2>4. MayPut(r, out)
    BY <2>3, MayPutAll
  <2>5. \A i \in 1 .. n : Shown(Put(r, out), r, r, i, Optional(r)[i], Optional(r)[i], out[i])
    BY <1>1, <2>3, <2>4, PutShown
  <2> QED BY <1>1, <2>1, <2>2, <2>5 DEF Agrees, Shown
<1>3. ASSUME has_nodata(r)
      PROVE  Agrees(turn_value_into_nodata(r, v), r, r, LAMBDA x, y : IF x = v THEN None ELSE x)
  <2> DEFINE out == [i \in 1 .. n |-> IF r.data[i] = v THEN None ELSE Optional(r)[i]]
  <2>1. turn_value_into_nodata(r, v) = Put(r, out)
    BY <1>1 DEF turn_value_into_nodata
  <2>2. \A i \in 1 .. n : out[i] = IF Optional(r)[i] = v THEN None ELSE Optional(r)[i]
    BY <1>0, <1>1
  <2>3. Listed(out, n)
    BY DEF Listed
  <2> HIDE DEF out
  <2>4. MayPut(r, out)
    BY <1>3 DEF MayPut, has_nodata, D!has_nodata, D!is_nodata
  <2>5. \A i \in 1 .. n : Shown(Put(r, out), r, r, i, Optional(r)[i], Optional(r)[i], out[i])
    BY <1>1, <2>3, <2>4, PutShown
  <2> QED BY <1>1, <2>1, <2>2, <2>5 DEF Agrees, Shown
<1> QED BY <1>2, <1>3

LEMMA ValueReplaced ==
    ASSUME NEW n, NEW r, Pair(r, r, n), NEW v \in ElementsOf(r.type) \ {NaN},
           IF Masked(r) THEN r.mask = <<>> ELSE v # r.nod
    PROVE  Agrees(replace_value(r, v, 1), r, r, LAMBDA x, y : IF x = v THEN 1 ELSE x)
<1>0. v \in Int /\ v # None /\ v # NaN /\ 1 # None
  BY ScalarIs, ElementsAssumption
<1>1. /\ Shaped(r, n) /\ DOMAIN r.data = 1 .. n /\ \A i \in 1 .. n : r.data[i] # None
      /\ \A i \in 1 .. n : Optional(r)[i] = IF Missing(r, i) THEN None ELSE r.data[i]
  BY Looks, ShapedIs DEF Pair
<1> DEFINE made == Made(r, r.type, r.nod)
           data == [i \in 1 .. n |-> IF r.data[i] = v THEN 1 ELSE r.data[i]]
           t == Having(made, data)
<1>2. AllShown(made, r, n, r.type, r.nod)
  BY <1>1, MadeIs
<1>3. replace_value(r, v, 1) = t
  <2>1. replace_value(r, v, 1) = [made EXCEPT !.data = [i \in DOMAIN @ |-> IF r.data[i] = v THEN 1 ELSE r.data[i]]]
    BY DEF replace_value
  <2> HIDE DEF made
  <2>2. DOMAIN made.data = 1 .. n
    BY <1>2, ShapedIs DEF AllShown
  <2> QED BY <2>1, <2>2 DEF Having
<1>4. Row(data, n) /\ \A i \in 1 .. n : data[i] = IF r.data[i] = v THEN 1 ELSE r.data[i]
  BY <1>0, <1>1 DEF Row, Listed
<1> HIDE DEF data
<1>5. AllShown(t, r, n, r.type, r.nod) /\ t.data = data
  BY <1>1, <1>4, MadeHaving
<1> HIDE DEF t, made
<1>6. /\ Shaped(t, n) /\ (Masked(t) <=> Masked(r)) /\ t.type = r.type /\ t.nod = r.nod
      /\ \A i \in 1 .. n : Masked(t) => ~IsNodata(t, i)
  BY <1>5 DEF AllShown
<1>7. ASSUME NEW i \in 1 .. n
      PROVE  Shown(t, r, r, i, Optional(r)[i], Optional(r)[i], IF Optional(r)[i] = v THEN 1 ELSE Optional(r)[i])
  <2>1. CASE Missing(r, i)
    <3>1. ~Masked(r)
      BY <1>1, <2>1, Looks
    <3>2. r.data[i] # v
      BY <1>0, <1>1, <2>1, <3>1, Looks
    <3>3. Missing(t, i)
      BY <1>1, <1>4, <1>5, <1>6, <2>1, <3>1, <3>2, Looks
    <3>4. Optional(t)[i] = None
      BY <1>6, <3>3, Looks
    <3>5. Shown(t, r, r, i, Optional(r)[i], Optional(r)[i], Optional(t)[i])
      BY <1>6, ElementShown
    <3> QED BY <1>0, <1>1, <2>1, <3>4, <3>5
  <2>2. CASE ~Missing(r, i)
    <3>1. t.data[i] = IF Optional(r)[i] = v THEN 1 ELSE Optional(r)[i]
      BY <1>1, <1>4, <1>5, <2>2
    <3>2. Shown(t, r, r, i, Optional(r)[i], Optional(r)[i], t.data[i])
      BY <1>6, ElementShown
    <3> QED BY <3>1, <3>2
  <2> QED BY <2>1, <2>2
<1> QED BY <1>1, <1>3, <1>7 DEF Agrees, Shown

LEMMA OfTwoExtremes ==
    ASSUME NEW x \in Int, NEW v \in Int
    PROVE  /\ Max({x, v}) = IF x < v THEN v ELSE x
           /\ Min({x, v}) = IF x > v THEN v ELSE x
<1>1. IsFiniteSet({x, v})
  <2>1. IsFiniteSet({x} \cup {v})
    BY FS_Singleton, FS_Union
  <2>2. {x} \cup {v} = {x, v}
    OBVIOUS
  <2> QED BY <2>1, <2>2
<1>2. /\ Max({x, v}) \in {x, v} /\ \A y \in {x, v} : Max({x, v}) >= y
      /\ Min({x, v}) \in {x, v} /\ \A y \in {x, v} : Min({x, v}) <= y
  <2>1. {x, v} \in SUBSET Int /\ {x, v} # {}
    OBVIOUS
  <2> DEFINE both == {x, v}
  <2> HIDE DEF both
  <2>2. IsFiniteSet(both) /\ both \in SUBSET Int /\ both # {}
    BY <1>1, <2>1 DEF both
  <2>3. /\ Max(both) \in both /\ \A y \in both : Max(both) >= y
        /\ Min(both) \in both /\ \A y \in both : Min(both) <= y
    BY <2>2, FiniteExtremes
  <2> QED BY <2>3 DEF both
<1> DEFINE least == Min({x, v})
           most == Max({x, v})
<1> HIDE DEF least, most
<1>3. /\ most \in {x, v} /\ most >= x /\ most >= v
      /\ least \in {x, v} /\ least <= x /\ least <= v
  BY <1>2 DEF least, most
<1>4. /\ most = IF x < v THEN v ELSE x
      /\ least = IF x > v THEN v ELSE x
  BY <1>3
<1> QED BY <1>4 DEF least, most

LEMMA ClipsShown ==
    ASSUME NEW n, NEW r, Pair(r, r, n), NEW v \in ElementsOf(r.type) \ {NaN},
           MayPut(Made(r, r.type, r.nod), Optional(r))
    PROVE  /\ Agrees(clip_low(r, v), r, r,
                     LAMBDA x, y : IF x \in {None, NaN} THEN x ELSE Max({x, v}))
           /\ Agrees(clip_high(r, v), r, r,
                     LAMBDA x, y : IF x \in {None, NaN} THEN x ELSE Min({x, v}))
           /\ v > 0 => Agrees(clip(r, 1, v), r, r, LAMBDA x, y :
                     IF x \in {None, NaN} THEN x ELSE Min({Max({x, 1}), v}))
<1>0. v \in Int /\ v # None /\ NaN \notin Int /\ None \notin Int /\ NaN # None
  BY ScalarIs, ElementsAssumption
<1>1. /\ Shaped(r, n) /\ DOMAIN r.data = 1 .. n /\ \A i \in 1 .. n : r.data[i] # None
      /\ \A i \in 1 .. n : Optional(r)[i] = IF Missing(r, i) THEN None ELSE r.data[i]
      /\ \A i \in 1 .. n : r.data[i] \in Int \cup {NaN}
      /\ \A i \in 1 .. n : Missing(r, i) <=> Optional(r)[i] = None
  BY Looks, ShapedIs DEF Pair, Number
<1>2. Listed(Optional(r), n)
  BY <1>1 DEF Optional, Listed
<1> DEFINE t == Made(r, r.type, r.nod)
<1>3. ASSUME NEW out, Listed(out, n), \A i \in 1 .. n : out[i] = None => Optional(r)[i] = None
      PROVE  \A i \in 1 .. n : Shown(Put(t, out), r, r, i, Optional(r)[i], Optional(r)[i], out[i])
  <2>1. MayPut(t, out)
    <3> HIDE DEF t
    <3>1. MayPut(t, Optional(r))
      BY DEF t
    <3> QED BY <1>2, <1>3, <3>1, MayPutFewer
  <2> QED BY <1>3, <2>1, PerformedShown
<1>4. Agrees(clip_low(r, v), r, r,
             LAMBDA x, y : IF x \in {None, NaN} THEN x ELSE Max({x, v}))
  <2> DEFINE out == [i \in 1 .. n |->
                        IF ~Missing(r, i) /\ Holds("less", r.data[i], v) THEN v ELSE Optional(r)[i]]
  <2>1. clip_low(r, v) = Put(t, out)
    BY <1>1 DEF clip_low, Performed
  <2>2. Listed(out, n) /\ \A i \in 1 .. n : out[i] =
           IF ~Missing(r, i) /\ Holds("less", r.data[i], v) THEN v ELSE Optional(r)[i]
    BY DEF Listed
  <2> HIDE DEF out, t
  <2>3. ASSUME NEW i \in 1 .. n
        PROVE  out[i] = IF Optional(r)[i] \in {None, NaN} THEN Optional(r)[i] ELSE Max({Optional(r)[i], v})
    <3>1. CASE Missing(r, i) \/ r.data[i] = NaN
      BY <1>0, <1>1, <2>2, <3>1 DEF Holds
    <3>2. CASE ~Missing(r, i) /\ r.data[i] \in Int
      <4>1. Optional(r)[i] = r.data[i] /\ Max({r.data[i], v}) = IF r.data[i] < v THEN v ELSE r.data[i]
        BY <1>0, <1>1, <3>2, OfTwoExtremes
      <4>2. Holds("less", r.data[i], v) <=> r.data[i] < v
        BY <1>0, <3>2 DEF Holds
      <4> QED BY <1>0, <2>2, <3>2, <4>1, <4>2
    <3> QED BY <1>1, <3>1, <3>2
  <2>4. \A i \in 1 .. n : out[i] = None => Optional(r)[i] = None
    BY <1>0, <1>1, <2>2
  <2>5. \A i \in 1 .. n : Shown(Put(t, out), r, r, i, Optional(r)[i], Optional(r)[i], out[i])
    BY <1>3, <2>2, <2>4
  <2> QED BY <1>1, <2>1, <2>3, <2>5 DEF Agrees, Shown
<1>5. Agrees(clip_high(r, v), r, r,
             LAMBDA x, y : IF x \in {None, NaN} THEN x ELSE Min({x, v}))
  <2> DEFINE out == [i \in 1 .. n |->
                        IF ~Missing(r, i) /\ Holds("greater", r.data[i], v) THEN v ELSE Optional(r)[i]]
  <2>1. clip_high(r, v) = Put(t, out)
    BY <1>1 DEF clip_high, Performed
  <2>2. Listed(out, n) /\ \A i \in 1 .. n : out[i] =
           IF ~Missing(r, i) /\ Holds("greater", r.data[i], v) THEN v ELSE Optional(r)[i]
    BY DEF Listed
  <2> HIDE DEF out, t
  <2>3. ASSUME NEW i \in 1 .. n
        PROVE  out[i] = IF Optional(r)[i] \in {None, NaN} THEN Optional(r)[i] ELSE Min({Optional(r)[i], v})
    <3>1. CASE Missing(r, i) \/ r.data[i] = NaN
      BY <1>0, <1>1, <2>2, <3>1 DEF Holds
    <3>2. CASE ~Missing(r, i) /\ r.data[i] \in Int
      <4>1. Optional(r)[i] = r.data[i] /\ Min({r.data[i], v}) = IF r.data[i] > v THEN v ELSE r.data[i]
        BY <1>0, <1>1, <3>2, OfTwoExtremes
      <4>2. Holds("greater", r.data[i], v) <=> r.data[i] > v
        BY <1>0, <3>2 DEF Holds
      <4> QED BY <1>0, <2>2, <3>2, <4>1, <4>2
    <3> QED BY <1>1, <3>1, <3>2
  <2>4. \A i \in 1 .. n : out[i] = None => Optional(r)[i] = None
    BY <1>0, <1>1, <2>2
  <2>5. \A i \in 1 .. n : Shown(Put(t, out), r, r, i, Optional(r)[i], Optional(r)[i], out[i])
    BY <1>3, <2>2, <2>4
  <2> QED BY <1>1, <2>1, <2>3, <2>5 DEF Agrees, Shown
<1>6. ASSUME v > 0
      PROVE  Agrees(clip(r, 1, v), r, r, LAMBDA x, y :
                    IF x \in {None, NaN} THEN x ELSE Min({Max({x, 1}), v}))
  <2> DEFINE out == [i \in 1 .. n |->
                        CASE Missing(r, i) -> None
                          [] ~Missing(r, i) /\ Holds("less", r.data[i], 1) -> 1
                          [] ~Missing(r, i) /\ Holds("greater", r.data[i], v) -> v
                          [] OTHER -> r.data[i]]
  <2>1. clip(r, 1, v) = Put(t, out)
    BY <1>1 DEF clip, Performed
  <2>2. Listed(out, n)
    BY DEF Listed
  <2>a. ASSUME NEW i \in 1 .. n
        PROVE  /\ Missing(r, i) => out[i] = None
               /\ ~Missing(r, i) /\ r.data[i] = NaN => out[i] = NaN
               /\ ~Missing(r, i) /\ r.data[i] \in Int =>
                     out[i] = IF r.data[i] < 1 THEN 1 ELSE IF r.data[i] > v THEN v ELSE r.data[i]
    <3>1. out[i] = CASE Missing(r, i) -> None
                     [] ~Missing(r, i) /\ Holds("less", r.data[i], 1) -> 1
                     [] ~Missing(r, i) /\ Holds("greater", r.data[i], v) -> v
                     [] OTHER -> r.data[i]
      OBVIOUS
    <3>2. r.data[i] = NaN => ~Holds("less", r.data[i], 1) /\ ~Holds("greater", r.data[i], v)
      BY DEF Holds
    <3>3. r.data[i] \in Int => /\ Holds("less", r.data[i], 1) <=> r.data[i] < 1
                               /\ Holds("greater", r.data[i], v) <=> r.data[i] > v
      BY <1>0 DEF Holds
    <3> HIDE DEF out
    <3>4. CASE Missing(r, i)
      BY <3>1, <3>4
    <3>5. CASE ~Missing(r, i) /\ r.data[i] = NaN
      BY <1>0, <3>1, <3>2, <3>5
    <3>6. CASE ~Missing(r, i) /\ r.data[i] \in Int /\ r.data[i] < 1
      BY <1>0, <1>6, <3>1, <3>3, <3>6
    <3>7. CASE ~Missing(r, i) /\ r.data[i] \in Int /\ ~(r.data[i] < 1)
      BY <1>0, <1>6, <3>1, <3>3, <3>7
    <3> QED BY <1>0, <3>4, <3>5, <3>6, <3>7
  <2> HIDE DEF out, t
  <2>3. ASSUME NEW i \in 1 .. n
        PROVE  out[i] = IF Optional(r)[i] \in {None, NaN} THEN Optional(r)[i]
                        ELSE Min({Max({Optional(r)[i], 1}), v})
    <3>1. CASE Missing(r, i) \/ r.data[i] = NaN
      BY <1>0, <1>1, <2>a, <3>1
    <3>2. CASE ~Missing(r, i) /\ r.data[i] \in Int
      <4>1. Optional(r)[i] = r.data[i] /\ Max({r.data[i], 1}) = IF r.data[i] < 1 THEN 1 ELSE r.data[i]
        BY <1>0, <1>1, <3>2, OfTwoExtremes
      <4>2. Max({r.data[i], 1}) \in Int
        BY <3>2, <4>1
      <4>3. Min({Max({r.data[i], 1}), v}) = IF Max({r.data[i], 1}) > v THEN v ELSE Max({r.data[i], 1})
        BY <1>0, <4>2, OfTwoExtremes
      <4>4. out[i] = IF r.data[i] < 1 THEN 1 ELSE IF r.data[i] > v THEN v ELSE r.data[i]
        BY <2>a, <3>2
      <4>5. CASE r.data[i] < 1
        BY <1>0, <1>6, <3>2, <4>1, <4>3, <4>4, <4>5
      <4>6. CASE ~(r.data[i] < 1)
        BY <1>0, <1>6, <3>2, <4>1, <4>3, <4>4, <4>6
      <4> QED BY <4>5, <4>6
    <3> QED BY <1>1, <3>1, <3>2
  <2>4. \A i \in 1 .. n : out[i] = None => Optional(r)[i] = None
    <3> SUFFICES ASSUME NEW i \in 1 .. n, ~Missing(r, i) PROVE out[i] # None
      BY <1>1
    <3> QED BY <1>0, <1>1, <2>a
  <2>5. \A i \in 1 .. n : Shown(Put(t, out), r, r, i, Optional(r)[i], Optional(r)[i], out[i])
    BY <1>3, <2>2, <2>4
  <2> QED BY <1>1, <2>1, <2>3, <2>5 DEF Agrees, Shown
<1> QED BY <1>4, <1>5, <1>6

LEMMA ReplacementsHold ==
    ASSUME NEW n, NEW r, Pair(r, r, n)
    PROVE  ReplacementsAgree(r)
<1>1. ASSUME NEW v \in ElementsOf(r.type) \ {NaN}
      PROVE  /\ Agrees(replace_nodata(r, v), r, r, LAMBDA x, y : IF x = None THEN v ELSE x)
             /\ has_nodata(r) =>
                   Agrees(turn_value_into_nodata(r, v), r, r, LAMBDA x, y : IF x = v THEN None ELSE x)
  BY ReplacedShown DEF Agrees
<1>2. ASSUME NEW v \in ElementsOf(r.type) \ {NaN},
             IF Masked(r) THEN r.mask = <<>> ELSE v # r.nod
      PROVE  Agrees(replace_value(r, v, 1), r, r, LAMBDA x, y : IF x = v THEN 1 ELSE x)
  BY <1>2, ValueReplaced DEF Agrees
<1>3. ASSUME NEW v \in ElementsOf(r.type) \ {NaN},
             MayPut(Made(r, r.type, r.nod), Optional(r))
      PROVE  /\ Agrees(clip_low(r, v), r, r,
                       LAMBDA x, y : IF x \in {None, NaN} THEN x ELSE Max({x, v}))
             /\ Agrees(clip_high(r, v), r, r,
                       LAMBDA x, y : IF x \in {None, NaN} THEN x ELSE Min({x, v}))
             /\ v > 0 => Agrees(clip(r, 1, v), r, r, LAMBDA x, y :
                       IF x \in {None, NaN} THEN x ELSE Min({Max({x, 1}), v}))
  BY <1>3, ClipsShown DEF Agrees
<1> QED BY <1>1, <1>2, <1>3, NodataTold DEF ReplacementsAgree

-----------------------------------------------------------------------------
(* Cell by cell: combinations *)

LEMMA PowHolds ==
    ASSUME NEW n, NEW r, NEW s, Pair(r, s, n),
           MayPut(Made(r, "float", r.nod),
                  [i \in DOMAIN r.data |-> IF Missing(r, i) \/ Missing(s, i) THEN None
                                           ELSE Power(r.data[i], s.data[i])])
    PROVE  Agrees(pow(r, s), r, s, LAMBDA x, y : IF None \in {x, y} THEN None ELSE Power(x, y))
<1>1. /\ Shaped(r, n) /\ Shaped(s, n) /\ DOMAIN r.data = 1 .. n
      /\ \A i \in 1 .. n : /\ Optional(r)[i] = IF Missing(r, i) THEN None ELSE r.data[i]
                           /\ Optional(s)[i] = IF Missing(s, i) THEN None ELSE s.data[i]
      /\ \A i \in 1 .. n : r.data[i] # None /\ s.data[i] # None
  BY Looks, ShapedIs DEF Pair
<1> DEFINE t == Made(r, "float", r.nod)
           out == [i \in 1 .. n |-> IF Missing(r, i) \/ Missing(s, i) THEN None ELSE Power(r.data[i], s.data[i])]
<1>3. pow(r, s) = Put(t, out)
  BY <1>1 DEF pow, Performed
<1>4. Listed(out, n)
  BY DEF Listed
<1>5. \A i \in 1 .. n : out[i] = IF None \in {Optional(r)[i], Optional(s)[i]} THEN None
                                 ELSE Power(Optional(r)[i], Optional(s)[i])
  BY <1>1
<1>7. MayPut(t, out)
  BY <1>1
<1> HIDE DEF out
<1>8. \A i \in 1 .. n : Shown(Put(t, out), r, s, i, Optional(r)[i], Optional(s)[i], out[i])
  BY <1>4, <1>7, PerformedShown
<1> HIDE DEF t
<1> QED BY <1>1, <1>3, <1>5, <1>8 DEF Agrees, Shown

\* The elements of a result, nodata where either raster has nodata.
LEMMA EitherShown ==
    ASSUME NEW n, NEW r, NEW s, Pair(r, s, n), NodataInEither(r, s) = {} \/ r.nod # None,
           NEW data, Row(data, n), NEW i \in 1 .. n
    PROVE  LET t == Marked([Made(r, r.type, r.nod) EXCEPT !.data = data], NodataInEither(r, s))
           IN  Shown(t, r, s, i, Contents(r)[i], Contents(s)[i],
                     IF None \in {Contents(r)[i], Contents(s)[i]} THEN None ELSE data[i])
<1> DEFINE made == Having(Made(r, r.type, r.nod), data)
           cells == NodataInEither(r, s)
           t == Marked(made, cells)
<1>1. t = Marked([Made(r, r.type, r.nod) EXCEPT !.data = data], NodataInEither(r, s))
  BY DEF Having
<1>2. /\ Shaped(r, n) /\ Shaped(s, n) /\ DOMAIN r.data = 1 .. n
      /\ Contents(r)[i] = IF IsNodata(r, i) THEN None ELSE r.data[i]
      /\ Contents(s)[i] = IF IsNodata(s, i) THEN None ELSE s.data[i]
      /\ r.data[i] # None /\ s.data[i] # None
  BY Looks, ShapedIs DEF Pair
<1>3. AllShown(made, r, n, r.type, r.nod) /\ made.data = data
  BY <1>2, MadeHaving
<1>4. cells \subseteq 1 .. n /\ (i \in cells <=> None \in {Contents(r)[i], Contents(s)[i]})
  BY <1>2 DEF NodataInEither
<1>5. cells = {} \/ r.nod # None
  OBVIOUS
<1> HIDE DEF made, cells
<1>6. SomeMarked(t, made, n, cells)
  BY <1>3, <1>4, <1>5, MarkedIs DEF AllShown
<1> HIDE DEF t
<1>7. /\ Shaped(t, n) /\ (Masked(t) <=> Masked(made))
      /\ i \in cells => Optional(t)[i] = None
      /\ i \notin cells => t.data[i] = data[i]
      /\ i \notin cells /\ Masked(t) => ~IsNodata(t, i)
  BY <1>3, <1>6 DEF SomeMarked, AllShown
<1> DEFINE w == IF None \in {Contents(r)[i], Contents(s)[i]} THEN None ELSE data[i]
<1>8. \/ w = t.data[i] /\ (Masked(t) => ~IsNodata(t, i))
      \/ w = Optional(t)[i]
  BY <1>4, <1>7
<1> HIDE DEF w
<1>9. Shown(t, r, s, i, Contents(r)[i], Contents(s)[i], w)
  BY <1>7, <1>8, ElementShown
<1> QED BY <1>1, <1>9 DEF w

LEMMA ExtremesHold ==
    ASSUME NEW n, NEW r, NEW s, Pair(r, s, n), NodataInEither(r, s) = {} \/ r.nod # None
    PROVE  /\ Agrees(minimum(r, s), r, s, LAMBDA x, y :
                     IF None \in {x, y} THEN None ELSE IF NaN \in {x, y} THEN x ELSE Min({x, y}))
           /\ Agrees(maximum(r, s), r, s, LAMBDA x, y :
                     IF None \in {x, y} THEN None ELSE IF NaN \in {x, y} THEN x ELSE Max({x, y}))
<1>0. NaN # None /\ NaN \notin Int /\ None \notin Int
  BY ElementsAssumption
<1>1. /\ Shaped(r, n) /\ Shaped(s, n) /\ DOMAIN r.data = 1 .. n
      /\ \A i \in 1 .. n : r.data[i] \in Int \cup {NaN} /\ s.data[i] \in Int \cup {NaN}
      /\ \A i \in 1 .. n : /\ Contents(r)[i] = IF IsNodata(r, i) THEN None ELSE r.data[i]
                           /\ Contents(s)[i] = IF IsNodata(s, i) THEN None ELSE s.data[i]
      /\ DOMAIN Made(r, r.type, r.nod).data = 1 .. n
  <2>1. AllShown(Made(r, r.type, r.nod), r, n, r.type, r.nod)
    BY MadeIs DEF Pair
  <2> DEFINE made == Made(r, r.type, r.nod)
  <2> HIDE DEF made
  <2>2. DOMAIN made.data = 1 .. n
    BY <2>1, ShapedIs DEF AllShown, made
  <2> QED BY <2>2, Looks, ShapedIs DEF Pair, Number, made
<1>2. ASSUME NEW x \in Int \cup {NaN}, NEW y \in Int \cup {NaN}
      PROVE  /\ Lesser(x, y) = IF NaN \in {x, y} THEN x ELSE Min({x, y})
             /\ Greater(x, y) = IF NaN \in {x, y} THEN x ELSE Max({x, y})
             /\ Lesser(x, y) # None /\ Greater(x, y) # None
  <2>1. CASE NaN \in {x, y}
    BY <1>0, <2>1 DEF Lesser, Greater, Holds
  <2>2. CASE NaN \notin {x, y}
    <3>1. x \in Int /\ y \in Int
      BY <2>2
    <3>2. (Holds("less", y, x) <=> x > y) /\ (Holds("less", x, y) <=> x < y)
      BY <1>0, <3>1 DEF Holds
    <3>3. Max({x, y}) = (IF x < y THEN y ELSE x) /\ Min({x, y}) = (IF x > y THEN y ELSE x)
      BY <3>1, OfTwoExtremes
    <3> QED BY <1>0, <2>2, <3>1, <3>2, <3>3 DEF Lesser, Greater
  <2> QED BY <2>1, <2>2
<1>3. Agrees(minimum(r, s), r, s, LAMBDA x, y :
             IF None \in {x, y} THEN None ELSE IF NaN \in {x, y} THEN x ELSE Min({x, y}))
  <2> DEFINE data == [i \in 1 .. n |-> Lesser(r.data[i], s.data[i])]
  <2>1. minimum(r, s) = Marked([Made(r, r.type, r.nod) EXCEPT !.data = data], NodataInEither(r, s))
    BY <1>1 DEF minimum
  <2>2. Row(data, n) /\ \A i \in 1 .. n : data[i] = Lesser(r.data[i], s.data[i])
    BY <1>1, <1>2 DEF Row, Listed
  <2> HIDE DEF data
  <2>3. \A i \in 1 .. n : Shown(minimum(r, s), r, s, i, Contents(r)[i], Contents(s)[i],
                     IF None \in {Contents(r)[i], Contents(s)[i]} THEN None ELSE data[i])
    BY <2>1, <2>2, EitherShown
  <2>4. ASSUME NEW i \in 1 .. n
        PROVE  (IF None \in {Contents(r)[i], Contents(s)[i]} THEN None ELSE data[i])
             = IF None \in {Contents(r)[i], Contents(s)[i]} THEN None
               ELSE IF NaN \in {Contents(r)[i], Contents(s)[i]} THEN Contents(r)[i]
               ELSE Min({Contents(r)[i], Contents(s)[i]})
    <3>1. r.data[i] \in Int \cup {NaN} /\ s.data[i] \in Int \cup {NaN}
      BY <1>1
    <3>2. Lesser(r.data[i], s.data[i]) =
             IF NaN \in {r.data[i], s.data[i]} THEN r.data[i] ELSE Min({r.data[i], s.data[i]})
      BY <1>2, <3>1, Zenon
    <3>3. data[i] = Lesser(r.data[i], s.data[i])
      BY <2>2
    <3>4. None \notin {Contents(r)[i], Contents(s)[i]} =>
             Contents(r)[i] = r.data[i] /\ Contents(s)[i] = s.data[i]
      BY <1>1
    <3> QED BY <3>2, <3>3, <3>4, Zenon
  <2>5. ASSUME NEW i \in 1 .. n
        PROVE  Shown(minimum(r, s), r, s, i, Contents(r)[i], Contents(s)[i],
                     IF None \in {Contents(r)[i], Contents(s)[i]} THEN None
                     ELSE IF NaN \in {Contents(r)[i], Contents(s)[i]} THEN Contents(r)[i]
                     ELSE Min({Contents(r)[i], Contents(s)[i]}))
    BY <2>3, <2>4, Zenon
  <2> QED BY <1>1, <2>5, Zenon DEF Agrees, Shown
<1>4. Agrees(maximum(r, s), r, s, LAMBDA x, y :
             IF None \in {x, y} THEN None ELSE IF NaN \in {x, y} THEN x ELSE Max({x, y}))
  <2> DEFINE data == [i \in 1 .. n |-> Greater(r.data[i], s.data[i])]
  <2>1. maximum(r, s) = Marked([Made(r, r.type, r.nod) EXCEPT !.data = data], NodataInEither(r, s))
    BY <1>1 DEF maximum
  <2>2. Row(data, n) /\ \A i \in 1 .. n : data[i] = Greater(r.data[i], s.data[i])
    BY <1>1, <1>2 DEF Row, Listed
  <2> HIDE DEF data
  <2>3. \A i \in 1 .. n : Shown(maximum(r, s), r, s, i, Contents(r)[i], Contents(s)[i],
                     IF None \in {Contents(r)[i], Contents(s)[i]} THEN None ELSE data[i])
    BY <2>1, <2>2, EitherShown
  <2>4. ASSUME NEW i \in 1 .. n
        PROVE  (IF None \in {Contents(r)[i], Contents(s)[i]} THEN None ELSE data[i])
             = IF None \in {Contents(r)[i], Contents(s)[i]} THEN None
               ELSE IF NaN \in {Contents(r)[i], Contents(s)[i]} THEN Contents(r)[i]
               ELSE Max({Contents(r)[i], Contents(s)[i]})
    <3>1. r.data[i] \in Int \cup {NaN} /\ s.data[i] \in Int \cup {NaN}
      BY <1>1
    <3>2. Greater(r.data[i], s.data[i]) =
             IF NaN \in {r.data[i], s.data[i]} THEN r.data[i] ELSE Max({r.data[i], s.data[i]})
      BY <1>2, <3>1, Zenon
    <3>3. data[i] = Greater(r.data[i], s.data[i])
      BY <2>2
    <3>4. None \notin {Contents(r)[i], Contents(s)[i]} =>
             Contents(r)[i] = r.data[i] /\ Contents(s)[i] = s.data[i]
      BY <1>1
    <3> QED BY <3>2, <3>3, <3>4, Zenon
  <2>5. ASSUME NEW i \in 1 .. n
        PROVE  Shown(maximum(r, s), r, s, i, Contents(r)[i], Contents(s)[i],
                     IF None \in {Contents(r)[i], Contents(s)[i]} THEN None
                     ELSE IF NaN \in {Contents(r)[i], Contents(s)[i]} THEN Contents(r)[i]
                     ELSE Max({Contents(r)[i], Contents(s)[i]}))
    BY <2>3, <2>4, Zenon
  <2> QED BY <1>1, <2>5, Zenon DEF Agrees, Shown
<1> QED BY <1>3, <1>4

\* A raster of float without nodata, of one number.
LEMMA FilledIs ==
    ASSUME NEW storage, NEW n \in Nat \ {0}, NEW v \in Int
    PROVE  LET t == Filled(storage, "float", NaN, n, v)
           IN  /\ Shaped(t, n) /\ (Masked(t) <=> storage = "masked") /\ t.type = "float" /\ t.nod = NaN
               /\ Masked(t) => t.mask = <<>>
<1> DEFINE t == Filled(storage, "float", NaN, n, v)
           data == [i \in 1 .. n |-> v]
<1>0. v # NaN /\ v # None /\ NaN # None
  BY ElementsAssumption
<1>1. data = [i \in 1 .. n |-> data[i]] /\ DOMAIN data = 1 .. n /\ \A i \in 1 .. n : data[i] # None
  BY <1>0
<1>2. CASE storage = "masked"
  <2>1. t = [storage |-> "masked", type |-> "float", nod |-> NaN, data |-> data, mask |-> <<>>]
    BY <1>0, <1>2 DEF Filled, M!Filled, M!fill, M!Raster, M!NoMask, M!All, M!Cells
  <2> HIDE DEF t, data
  <2>2. t.type = "float" /\ t.nod = NaN /\ t.data = data /\ t.mask = <<>> /\ t.storage = "masked"
    BY <2>1
  <2>3. Shaped(t, n) /\ Masked(t)
    BY <1>1, <2>1, <2>2 DEF Shaped, Masked
  <2> QED BY <1>2, <2>2, <2>3 DEF t
<1>3. CASE storage # "masked"
  <2>1. t = [storage |-> "dense", type |-> "float", nod |-> NaN, data |-> data]
    BY <1>0, <1>3 DEF Filled, D!Filled, D!Raster
  <2> HIDE DEF t, data
  <2>2. t.type = "float" /\ t.nod = NaN /\ t.data = data /\ t.storage = "dense"
    BY <2>1
  <2>3. Shaped(t, n) /\ ~Masked(t)
    BY <1>1, <2>1, <2>2 DEF Shaped, Masked
  <2> QED BY <1>3, <2>2, <2>3 DEF t
<1> QED BY <1>2, <1>3

LEMMA FloatComputed ==
    ASSUME NEW x \in Number, NEW y \in Number, NEW op \in {"plus", "multiplies"}
    PROVE  Compute("float", op, x, y) \in Number
BY ElementsAssumption DEF Compute, Number

LEMMA FloatDivided ==
    ASSUME NEW x \in Number, NEW v \in Int, v > 0
    PROVE  /\ Compute("float", "divides", x, v) \in Number
           /\ x = NaN => Compute("float", "divides", x, v) = NaN
<1>1. CASE x = NaN
  BY <1>1 DEF Compute, Number
<1>2. CASE x # NaN
  <2>1. x \in Int /\ NaN \notin {x, v}
    BY <1>2, ElementsAssumption DEF Number
  <2>2. Compute("float", "divides", x, v) = Quotient("float", x, v)
    BY <2>1 DEF Compute
  <2>3. Quotient("float", x, v) \in Int
    BY <2>1 DEF Quotient, Fraction
  <2> QED BY <1>2, <2>2, <2>3 DEF Number
<1> QED BY <1>1, <1>2

LEMMA ScaledIs ==
    ASSUME NEW t, NEW n, Shaped(t, n), t.type = "float", NEW v \in Int, v > 0,
           \A i \in 1 .. n : t.data[i] \in Number
    PROVE  LET u == WithScalar(t, "divides", v)
           IN  /\ Shaped(u, n) /\ (Masked(u) <=> Masked(t)) /\ u.type = "float" /\ u.nod = t.nod
               /\ \A i \in 1 .. n : /\ u.data[i] = Compute("float", "divides", t.data[i], v)
                                    /\ Masked(u) => (IsNodata(u, i) <=> IsNodata(t, i))
<1> DEFINE u == WithScalar(t, "divides", v)
           data == [i \in 1 .. n |-> Compute("float", "divides", t.data[i], v)]
<1>1. DOMAIN t.data = 1 .. n
  BY ShapedIs
<1>2. u = Having(t, data)
  <2>1. CASE Masked(t)
    <3>1. u = [t EXCEPT !.data = [i \in 1 .. n |-> M!Element("float", "divides", t.data[i], v)]]
      BY <1>1, <2>1 DEF WithScalar, M!perform_scalar_operation, M!Cells
    <3>2. \A i \in 1 .. n : M!Element("float", "divides", t.data[i], v) = Compute("float", "divides", t.data[i], v)
      BY SameElements DEF M!Element
    <3> QED BY <3>1, <3>2 DEF Having
  <2>2. CASE ~Masked(t)
    <3>1. u = [t EXCEPT !.data = [i \in 1 .. n |-> D!Compute("float", "divides", t.data[i], v)]]
      BY <1>1, <2>2 DEF WithScalar, D!perform_scalar_operation, D!Cells, D!has_nan
    <3>2. \A i \in 1 .. n : D!Compute("float", "divides", t.data[i], v) = Compute("float", "divides", t.data[i], v)
      BY SameElements
    <3> QED BY <3>1, <3>2 DEF Having
  <2> QED BY <2>1, <2>2
<1>3. Row(data, n) /\ \A i \in 1 .. n : data[i] = Compute("float", "divides", t.data[i], v)
  <2>1. \A i \in 1 .. n : Compute("float", "divides", t.data[i], v) \in Number
    BY FloatDivided
  <2> QED BY <2>1, ElementsAssumption DEF Row, Listed, Number
<1> HIDE DEF data, u
<1>4. /\ Shaped(u, n) /\ (Masked(u) <=> Masked(t)) /\ u.type = t.type /\ u.nod = t.nod
      /\ u.data = data /\ (Masked(t) => u.mask = t.mask)
  BY <1>2, <1>3, WithData
<1>5. \A i \in 1 .. n : Masked(u) => (IsNodata(u, i) <=> IsNodata(t, i))
  BY <1>4, Looks
<1> QED BY <1>3, <1>4, <1>5 DEF u

\* Some elements of a raster of float are computed, and marked, and divided.
LEMMA FloatsMarked ==
    ASSUME NEW storage, NEW n \in Nat \ {0}, NEW v \in Int, NEW data, Listed(data, n),
           \A i \in 1 .. n : data[i] \in Number, NEW cells, cells \subseteq 1 .. n
    PROVE  LET t == Marked([Filled(storage, "float", NaN, n, v) EXCEPT !.data = data], cells)
           IN  /\ Shaped(t, n) /\ (Masked(t) <=> storage = "masked") /\ t.type = "float" /\ t.nod = NaN
               /\ \A i \in 1 .. n : /\ i \notin cells => t.data[i] = data[i]
                                    /\ i \in cells /\ ~Masked(t) => t.data[i] = NaN
                                    /\ Masked(t) => (IsNodata(t, i) <=> i \in cells) /\ t.data[i] = data[i]
                                    /\ t.data[i] \in Number
<1> DEFINE filled == Filled(storage, "float", NaN, n, v)
           made == Having(filled, data)
           t == Marked(made, cells)
<1>1. t = Marked([Filled(storage, "float", NaN, n, v) EXCEPT !.data = data], cells)
  BY DEF Having
<1>2. /\ Shaped(filled, n) /\ (Masked(filled) <=> storage = "masked") /\ filled.type = "float"
      /\ filled.nod = NaN /\ (Masked(filled) => filled.mask = <<>>)
  BY FilledIs
<1>3. Row(data, n)
  BY ElementsAssumption DEF Row, Number
<1> HIDE DEF filled
<1>4. /\ Shaped(made, n) /\ (Masked(made) <=> Masked(filled)) /\ made.type = filled.type
      /\ made.nod = filled.nod /\ made.data = data /\ (Masked(filled) => made.mask = filled.mask)
  BY <1>2, <1>3, WithData
<1>5. \A i \in 1 .. n : Masked(made) => ~IsNodata(made, i)
  BY <1>2, <1>4, Looks
<1> HIDE DEF made
<1>6. SomeMarked(t, made, n, cells)
  BY <1>2, <1>4, MarkedIs
<1> HIDE DEF t
<1>7. D!InBand(made) = NaN
  BY <1>2, <1>4 DEF D!InBand, D!has_nan
<1>8. /\ Shaped(t, n) /\ (Masked(t) <=> storage = "masked") /\ t.type = "float" /\ t.nod = NaN
  BY <1>2, <1>4, <1>6 DEF SomeMarked
<1>9. ASSUME NEW i \in 1 .. n
      PROVE  /\ i \notin cells => t.data[i] = data[i]
             /\ i \in cells /\ ~Masked(t) => t.data[i] = NaN
             /\ Masked(t) => (IsNodata(t, i) <=> i \in cells) /\ t.data[i] = data[i]
             /\ t.data[i] \in Number
  BY <1>4, <1>5, <1>6, <1>7 DEF SomeMarked, Number
<1> QED BY <1>1, <1>8, <1>9 DEF t

LEMMA SumHolds ==
    ASSUME NEW n, NEW r, NEW s, Pair(r, s, n), r.storage = "masked" <=> Masked(r)
    PROVE  Agrees(weighted_sum(r, s, 1, 2), r, s, LAMBDA x, y :
              IF Compute("float", "plus", IF x = None THEN 0 ELSE x,
                         Compute("float", "multiplies", IF y = None THEN 0 ELSE y, 2)) = 0 THEN None
              ELSE Compute("float", "divides",
                         Compute("float", "plus", IF x = None THEN 0 ELSE x,
                                 Compute("float", "multiplies", IF y = None THEN 0 ELSE y, 2)), 3))
<1>1. /\ Shaped(r, n) /\ Shaped(s, n) /\ DOMAIN r.data = 1 .. n /\ n \in Nat \ {0} /\ Len(r.data) = n
      /\ \A i \in 1 .. n : /\ Contents(r)[i] = IF IsNodata(r, i) THEN None ELSE r.data[i]
                           /\ Contents(s)[i] = IF IsNodata(s, i) THEN None ELSE s.data[i]
                           /\ r.data[i] # None /\ s.data[i] # None
                           /\ r.data[i] \in Number /\ s.data[i] \in Number
  <2>1. Len(r.data) = n
    <3>1. r.data = [i \in 1 .. n |-> r.data[i]] /\ n \in Nat
      BY DEF Pair, Shaped
    <3> DEFINE data == r.data
    <3> HIDE DEF data
    <3>2. data = [i \in 1 .. n |-> data[i]]
      BY <3>1 DEF data
    <3>3. Len(data) = n
      BY <3>1, <3>2
    <3> QED BY <3>3 DEF data
  <2> QED BY <2>1, Looks, ShapedIs DEF Pair
<1> DEFINE first(x) == IF x = None THEN 0 ELSE x
           second(y) == Compute("float", "multiplies", IF y = None THEN 0 ELSE y, 2)
           summed(x, y) == Compute("float", "plus", first(x), second(y))
           term(x, i, w) == IF IsNodata(x, i) THEN 0 ELSE Compute("float", "multiplies", x.data[i], w)
           sums == [i \in 1 .. n |-> Compute("float", "plus", term(r, i, 1), term(s, i, 2))]
           cells == {i \in 1 .. n : sums[i] = 0}
           t == Marked([Filled(r.storage, "float", NaN, n, 0) EXCEPT !.data = sums], cells)
           u == WithScalar(t, "divides", 3)
<1>2. weighted_sum(r, s, 1, 2) = u
  <2>1. 1 + 2 = 3 /\ DOMAIN sums = 1 .. n
    OBVIOUS
  <2> QED BY <1>1, <2>1 DEF weighted_sum
<1>3. ASSUME NEW i \in 1 .. n
      PROVE  /\ term(r, i, 1) = first(Contents(r)[i]) /\ first(Contents(r)[i]) \in Number
             /\ term(s, i, 2) = second(Contents(s)[i]) /\ second(Contents(s)[i]) \in Number
  <2>1. term(r, i, 1) = first(Contents(r)[i]) /\ first(Contents(r)[i]) \in Number
    <3>1. CASE IsNodata(r, i)
      BY <1>1, <3>1 DEF Number
    <3>2. CASE ~IsNodata(r, i)
      <4>1. Compute("float", "multiplies", r.data[i], 1) = r.data[i]
        <5>1. CASE r.data[i] = NaN
          BY <5>1 DEF Compute
        <5>2. CASE r.data[i] \in Int
          BY <5>2, ElementsAssumption DEF Compute
        <5> QED BY <1>1, <5>1, <5>2 DEF Number
      <4> QED BY <1>1, <3>2, <4>1
    <3> QED BY <3>1, <3>2
  <2>2. term(s, i, 2) = second(Contents(s)[i])
    <3>1. CASE IsNodata(s, i)
      <4>1. Compute("float", "multiplies", 0, 2) = 0
        BY ElementsAssumption DEF Compute
      <4> QED BY <1>1, <3>1, <4>1
    <3>2. CASE ~IsNodata(s, i)
      BY <1>1, <3>2
    <3> QED BY <3>1, <3>2
  <2>3. second(Contents(s)[i]) \in Number
    <3>1. first(Contents(s)[i]) \in Number /\ 2 \in Number
      BY <1>1 DEF Number
    <3> QED BY <3>1, FloatComputed
  <2> QED BY <2>1, <2>2, <2>3
<1>4. \A i \in 1 .. n : /\ sums[i] = summed(Contents(r)[i], Contents(s)[i])
                        /\ sums[i] \in Number
  <2>1. ASSUME NEW i \in 1 .. n
        PROVE  sums[i] = summed(Contents(r)[i], Contents(s)[i]) /\ sums[i] \in Number
    <3>1. sums[i] = Compute("float", "plus", term(r, i, 1), term(s, i, 2))
      OBVIOUS
    <3>2. /\ term(r, i, 1) = first(Contents(r)[i]) /\ first(Contents(r)[i]) \in Number
          /\ term(s, i, 2) = second(Contents(s)[i]) /\ second(Contents(s)[i]) \in Number
      BY <1>3
    <3> HIDE DEF sums, term, first, second
    <3>3. sums[i] = Compute("float", "plus", first(Contents(r)[i]), second(Contents(s)[i]))
      BY <3>1, <3>2
    <3>4. Compute("float", "plus", first(Contents(r)[i]), second(Contents(s)[i])) \in Number
      BY <3>2, FloatComputed
    <3> QED BY <3>3, <3>4
  <2> QED BY <2>1
<1>5. Listed(sums, n) /\ cells \subseteq 1 .. n
  BY DEF Listed
<1>6. \A i \in 1 .. n : i \in cells <=> sums[i] = 0
  OBVIOUS
<1> HIDE DEF sums, cells, term
<1>7. /\ Shaped(t, n) /\ (Masked(t) <=> r.storage = "masked") /\ t.type = "float" /\ t.nod = NaN
      /\ \A i \in 1 .. n : /\ i \notin cells => t.data[i] = sums[i]
                           /\ i \in cells /\ ~Masked(t) => t.data[i] = NaN
                           /\ Masked(t) => (IsNodata(t, i) <=> i \in cells) /\ t.data[i] = sums[i]
                           /\ t.data[i] \in Number
  <2>1. \A i \in 1 .. n : sums[i] \in Number
    BY <1>4
  <2>2. n \in Nat \ {0} /\ 0 \in Int
    BY <1>1
  <2> DEFINE storage == r.storage
             v == Marked([Filled(storage, "float", NaN, n, 0) EXCEPT !.data = sums], cells)
  <2>3. t = v
    OBVIOUS
  <2> HIDE DEF storage, t
  <2>4. /\ Shaped(v, n) /\ (Masked(v) <=> storage = "masked") /\ v.type = "float" /\ v.nod = NaN
        /\ \A i \in 1 .. n : /\ i \notin cells => v.data[i] = sums[i]
                             /\ i \in cells /\ ~Masked(v) => v.data[i] = NaN
                             /\ Masked(v) => (IsNodata(v, i) <=> i \in cells) /\ v.data[i] = sums[i]
                             /\ v.data[i] \in Number
    BY <1>5, <2>1, <2>2, FloatsMarked
  <2> QED BY <2>3, <2>4 DEF storage
<1> HIDE DEF t
<1>8. /\ Shaped(u, n) /\ (Masked(u) <=> Masked(t)) /\ u.type = "float" /\ u.nod = t.nod
      /\ \A i \in 1 .. n : /\ u.data[i] = Compute("float", "divides", t.data[i], 3)
                           /\ Masked(u) => (IsNodata(u, i) <=> IsNodata(t, i))
  BY <1>7, ScaledIs
<1> HIDE DEF u
<1> DEFINE wanted(x, y) == IF summed(x, y) = 0 THEN None ELSE Compute("float", "divides", summed(x, y), 3)
<1>9. ASSUME NEW i \in 1 .. n
      PROVE  Shown(u, r, s, i, Contents(r)[i], Contents(s)[i], wanted(Contents(r)[i], Contents(s)[i]))
  <2> DEFINE z == summed(Contents(r)[i], Contents(s)[i])
             w == IF z = 0 THEN None ELSE Compute("float", "divides", z, 3)
  <2>1. sums[i] = z /\ (i \in cells <=> z = 0)
    BY <1>4, <1>6
  <2> HIDE DEF z
  <2>2. CASE i \in cells
    <3>1. Optional(u)[i] = None
      <4>1. CASE Masked(u)
        BY <1>7, <1>8, <2>2, <4>1, Looks
      <4>2. CASE ~Masked(u)
        <5>1. u.data[i] = NaN
          <6>1. Compute("float", "divides", NaN, 3) = NaN
            BY DEF Compute
          <6> QED BY <1>7, <1>8, <2>2, <4>2, <6>1
        <5> QED BY <1>8, <4>2, <5>1, Looks
      <4> QED BY <4>1, <4>2
    <3>2. w = Optional(u)[i]
      BY <2>1, <2>2, <3>1
    <3> HIDE DEF w
    <3>3. Shown(u, r, s, i, Contents(r)[i], Contents(s)[i], w)
      BY <1>8, <3>2, ElementShown
    <3> QED BY <3>3 DEF w, z
  <2>3. CASE i \notin cells
    <3>1. w = u.data[i] /\ (Masked(u) => ~IsNodata(u, i))
      BY <1>7, <1>8, <2>1, <2>3
    <3> HIDE DEF w
    <3>2. Shown(u, r, s, i, Contents(r)[i], Contents(s)[i], w)
      BY <1>8, <3>1, ElementShown
    <3> QED BY <3>2 DEF w, z
  <2> QED BY <2>2, <2>3
<1>10. Agrees(u, r, s, LAMBDA x, y : wanted(x, y))
  <2>1. ASSUME NEW i \in 1 .. n
        PROVE  Shown(u, r, s, i, Contents(r)[i], Contents(s)[i], wanted(Contents(r)[i], Contents(s)[i]))
    BY <1>9
  <2> HIDE DEF wanted
  <2> QED BY <1>1, <2>1, Zenon DEF Agrees, Shown
<1> QED BY <1>2, <1>10

\* A product is NaN where an element is, and where it is not the square counts.
LEMMA ProductIs ==
    ASSUME NEW x \in Number, NEW y \in Number
    PROVE  LET z == Compute("float", "multiplies", Power(x, 1), Power(y, 2))
           IN  /\ z \in Number /\ (NaN \in {x, y} => z = NaN) /\ (NaN \notin {x, y} => z = x * (y * y))
<1>0. NaN \notin Int
  BY ElementsAssumption
<1>1. Power(x, 1) = x
  BY <1>0 DEF Power, Number
<1>2. Power(y, 2) = IF y = NaN THEN NaN ELSE y * y
  BY <1>0 DEF Power, Number
<1>3. CASE NaN \in {x, y}
  BY <1>0, <1>1, <1>2, <1>3 DEF Compute, Number
<1>4. CASE NaN \notin {x, y}
  <2>1. x \in Int /\ y \in Int /\ y * y \in Int
    BY <1>4 DEF Number
  <2> DEFINE q == y * y
  <2>2. Power(y, 2) = q /\ q \in Int
    BY <1>2, <1>4, <2>1
  <2> HIDE DEF q
  <2>3. NaN \notin {x, q}
    BY <1>0, <2>1, <2>2
  <2>4. Compute("float", "multiplies", x, q) = x * q
    BY <2>3 DEF Compute
  <2>5. x * q \in Int
    BY <2>1, <2>2
  <2> QED BY <1>1, <1>4, <2>2, <2>4, <2>5 DEF Number, q
<1> QED BY <1>3, <1>4

BestProduct(r, s, best) == best = Max({Products(r, s, 1, 2)[i] : i \in DOMAIN r.data} \ {NaN})

LEMMA ProductHolds ==
    ASSUME NEW n, NEW r, NEW s, Pair(r, s, n), ~Masked(r), r.type = "float", s.type = "float",
           MayMultiply(r, s, 1, 2),
           NEW best, BestProduct(r, s, best)
    PROVE  Agrees(weighted_product(r, s, 1, 2), r, s, LAMBDA x, y :
              IF None \in {x, y} THEN None
              ELSE IF NaN \in {x, y} THEN NaN
              ELSE IF best > 0 THEN Compute("float", "divides", x * (y * y), best) ELSE x * (y * y))
<1>0. NaN \notin Int /\ None \notin Int /\ NaN # None
  BY ElementsAssumption
<1>1. /\ Shaped(r, n) /\ Shaped(s, n) /\ DOMAIN r.data = 1 .. n /\ n \in Nat \ {0} /\ Len(r.data) = n
      /\ \A i \in 1 .. n : /\ r.data[i] # None /\ s.data[i] # None
                           /\ r.data[i] \in Number /\ s.data[i] \in Number
                           /\ Contents(r)[i] \in {r.data[i], None} /\ Contents(s)[i] \in {s.data[i], None}
                           /\ Contents(r)[i] = None => r.data[i] = NaN
                           /\ Contents(s)[i] = None => s.data[i] = NaN
  <2>1. Len(r.data) = n
    <3>1. r.data = [i \in 1 .. n |-> r.data[i]] /\ n \in Nat
      BY DEF Pair, Shaped
    <3> DEFINE data == r.data
    <3> HIDE DEF data
    <3>2. data = [i \in 1 .. n |-> data[i]]
      BY <3>1 DEF data
    <3>3. Len(data) = n
      BY <3>1, <3>2
    <3> QED BY <3>3 DEF data
  <2>2. Shaped(r, n) /\ Shaped(s, n) /\ ~Masked(s) /\ n \in Nat \ {0} /\ DOMAIN r.data = 1 .. n
    BY ShapedIs DEF Pair
  <2>3. ASSUME NEW i \in 1 .. n
        PROVE  /\ r.data[i] # None /\ s.data[i] # None
               /\ Contents(r)[i] \in {r.data[i], None} /\ Contents(s)[i] \in {s.data[i], None}
               /\ Contents(r)[i] = None => r.data[i] = NaN
               /\ Contents(s)[i] = None => s.data[i] = NaN
    BY <2>2, Looks, ShapedIs
  <2> QED BY <2>1, <2>2, <2>3 DEF Pair
<1> DEFINE products == [i \in 1 .. n |-> Compute("float", "multiplies", Power(r.data[i], 1), Power(s.data[i], 2))]
           values == {products[i] : i \in 1 .. n} \ {NaN}
           cells == {i \in 1 .. n : products[i] = NaN}
           t == Marked([Filled(r.storage, "float", NaN, n, 1) EXCEPT !.data = products], cells)
           u == IF best > 0 THEN WithScalar(t, "divides", best) ELSE t
<1>2. Products(r, s, 1, 2) = products
  BY <1>1 DEF Products
<1>7. best = Max(values)
  <2>1. {Products(r, s, 1, 2)[i] : i \in DOMAIN r.data} \ {NaN} = values
    BY <1>1, <1>2
  <2> QED BY <2>1 DEF BestProduct
<1>3. weighted_product(r, s, 1, 2) = u
  <2>1. DOMAIN products = 1 .. n
    OBVIOUS
  <2> HIDE DEF products
  <2> QED BY <1>1, <1>2, <1>7, <2>1 DEF weighted_product
<1>4. \A i \in 1 .. n : /\ products[i] \in Number
                        /\ NaN \in {r.data[i], s.data[i]} => products[i] = NaN
                        /\ NaN \notin {r.data[i], s.data[i]} => products[i] = r.data[i] * (s.data[i] * s.data[i])
  BY <1>1, ProductIs
<1>5. best \in Int
  <2>1. IsFiniteSet({products[i] : i \in 1 .. n})
    <3> HIDE DEF products
    <3>1. IsFiniteSet(1 .. n)
      BY <1>1, FS_Interval
    <3> QED BY <3>1, FiniteImages
  <2> DEFINE all == {products[i] : i \in 1 .. n}
  <2>2. \E i \in 1 .. n : products[i] # NaN
    BY <1>1, <1>2 DEF MayMultiply
  <2>3. all \in SUBSET Number
    BY <1>4
  <2>4. values = all \ {NaN}
    OBVIOUS
  <2>5. values # {}
    BY <2>2
  <2> HIDE DEF all, values
  <2>6. IsFiniteSet(values) /\ values \in SUBSET Int
    <3>1. values \in SUBSET all /\ values \in SUBSET Int
      BY <2>3, <2>4 DEF Number
    <3> QED BY <2>1, <3>1, FS_Subset DEF all
  <2> QED BY <1>7, <2>5, <2>6, FiniteExtremes
<1>6. Listed(products, n) /\ cells \subseteq 1 .. n /\ \A i \in 1 .. n : i \in cells <=> products[i] = NaN
  BY DEF Listed
<1> HIDE DEF products, cells, values
<1>8. /\ Shaped(t, n) /\ ~Masked(t) /\ t.type = "float" /\ t.nod = NaN
      /\ \A i \in 1 .. n : t.data[i] = products[i]
  <2> DEFINE storage == r.storage
             one == 1
             v == Marked([Filled(storage, "float", NaN, n, one) EXCEPT !.data = products], cells)
  <2>1. \A i \in 1 .. n : products[i] \in Number
    BY <1>4
  <2>2. n \in Nat \ {0} /\ one \in Int /\ storage # "masked"
    BY <1>1 DEF Masked
  <2>3. t = v
    OBVIOUS
  <2> HIDE DEF storage, t, one
  <2>4. /\ Shaped(v, n) /\ (Masked(v) <=> storage = "masked") /\ v.type = "float" /\ v.nod = NaN
        /\ \A i \in 1 .. n : /\ i \notin cells => v.data[i] = products[i]
                             /\ i \in cells /\ ~Masked(v) => v.data[i] = NaN
                             /\ Masked(v) => (IsNodata(v, i) <=> i \in cells) /\ v.data[i] = products[i]
                             /\ v.data[i] \in Number
    <3>1. Listed(products, n) /\ cells \subseteq 1 .. n
      BY <1>6
    <3> QED BY <2>1, <2>2, <3>1, FloatsMarked
  <2> QED BY <1>6, <2>2, <2>3, <2>4
<1> HIDE DEF t
<1>9. /\ Shaped(u, n) /\ ~Masked(u) /\ u.type = "float" /\ u.nod = NaN
      /\ \A i \in 1 .. n : u.data[i] = IF best > 0 THEN Compute("float", "divides", products[i], best) ELSE products[i]
  <2>1. CASE best > 0
    <3> DEFINE v == WithScalar(t, "divides", best)
    <3>1. u = v
      BY <2>1
    <3> HIDE DEF u, v
    <3>2. \A i \in 1 .. n : t.data[i] \in Number
      BY <1>4, <1>8
    <3>3. /\ Shaped(v, n) /\ (Masked(v) <=> Masked(t)) /\ v.type = "float" /\ v.nod = t.nod
          /\ \A i \in 1 .. n : v.data[i] = Compute("float", "divides", t.data[i], best)
      BY <1>5, <1>8, <2>1, <3>2, ScaledIs DEF v
    <3> QED BY <1>8, <2>1, <3>1, <3>3
  <2>2. CASE ~(best > 0)
    BY <1>8, <2>2
  <2> QED BY <2>1, <2>2
<1> HIDE DEF u
<1> DEFINE scaled(z) == IF best > 0 THEN Compute("float", "divides", z, best) ELSE z
           wanted(x, y) == IF None \in {x, y} THEN None ELSE IF NaN \in {x, y} THEN NaN
                           ELSE IF best > 0 THEN Compute("float", "divides", x * (y * y), best) ELSE x * (y * y)
<1>10. ASSUME NEW i \in 1 .. n
       PROVE  Shown(u, r, s, i, Contents(r)[i], Contents(s)[i], wanted(Contents(r)[i], Contents(s)[i]))
  <2> DEFINE w == wanted(Contents(r)[i], Contents(s)[i])
  <2>1. CASE NaN \in {r.data[i], s.data[i]}
    <3>1. u.data[i] = NaN
      <4>1. best > 0 => Compute("float", "divides", NaN, best) = NaN
        BY DEF Compute
      <4> QED BY <1>4, <1>9, <2>1, <4>1
    <3>2. Optional(u)[i] = None
      BY <1>9, <3>1, Looks
    <3>3. w = None \/ w = NaN
      BY <1>1, <2>1
    <3> HIDE DEF w
    <3>4. Shown(u, r, s, i, Contents(r)[i], Contents(s)[i], w)
      BY <1>9, <3>1, <3>2, <3>3, ElementShown
    <3> QED BY <3>4 DEF w
  <2>2. CASE NaN \notin {r.data[i], s.data[i]}
    <3>1. Contents(r)[i] = r.data[i] /\ Contents(s)[i] = s.data[i]
      BY <1>1, <2>2
    <3>2. w = IF best > 0 THEN Compute("float", "divides", r.data[i] * (s.data[i] * s.data[i]), best)
              ELSE r.data[i] * (s.data[i] * s.data[i])
      BY <1>1, <2>2, <3>1
    <3>3. products[i] = r.data[i] * (s.data[i] * s.data[i])
      BY <1>4, <2>2
    <3> HIDE DEF w
    <3>4. w = u.data[i]
      BY <1>9, <3>2, <3>3
    <3>5. Shown(u, r, s, i, Contents(r)[i], Contents(s)[i], w)
      BY <1>9, <3>4, ElementShown
    <3> QED BY <3>5 DEF w
  <2> QED BY <2>1, <2>2
<1>11. Agrees(u, r, s, LAMBDA x, y : wanted(x, y))
  <2>1. ASSUME NEW i \in 1 .. n
        PROVE  Shown(u, r, s, i, Contents(r)[i], Contents(s)[i], wanted(Contents(r)[i], Contents(s)[i]))
    BY <1>10
  <2> HIDE DEF wanted
  <2> QED BY <1>1, <2>1, Zenon DEF Agrees, Shown
<1> QED BY <1>3, <1>11

LEMMA CombinationsHold ==
    ASSUME RasterOK(raster), NEW s \in Others
    PROVE  CombinationsAgree(raster, s)
<1> DEFINE n == Len(raster.data)
<1>1. Pair(raster, s, n) /\ (raster.storage = "masked" <=> Masked(raster))
  BY PairIs DEF Masked
<1> HIDE DEF n
<1> DEFINE r == raster
           powered == [i \in DOMAIN r.data |-> IF Missing(r, i) \/ Missing(s, i) THEN None
                                                ELSE Power(r.data[i], s.data[i])]
           best == Max({Products(r, s, 1, 2)[i] : i \in DOMAIN r.data} \ {NaN})
           either(x, y, z) == IF None \in {x, y} THEN None ELSE z
           summed(x, y) == Compute("float", "plus", IF x = None THEN 0 ELSE x,
                                                    Compute("float", "multiplies", IF y = None THEN 0 ELSE y, 2))
<1>2. r.type = s.type /\ MayPut(Made(r, "float", r.nod), powered) =>
         Agrees(pow(r, s), r, s, LAMBDA x, y : either(x, y, Power(x, y)))
  BY <1>1, PowHolds DEF Agrees
<1>3. r.type = s.type /\ (NodataInEither(r, s) = {} \/ r.nod # None) =>
         /\ Agrees(minimum(r, s), r, s, LAMBDA x, y :
                   either(x, y, IF NaN \in {x, y} THEN x ELSE Min({x, y})))
         /\ Agrees(maximum(r, s), r, s, LAMBDA x, y :
                   either(x, y, IF NaN \in {x, y} THEN x ELSE Max({x, y})))
  BY <1>1, ExtremesHold, Zenon DEF Agrees
<1>4. Agrees(weighted_sum(r, s, 1, 2), r, s, LAMBDA x, y :
             IF summed(x, y) = 0 THEN None ELSE Compute("float", "divides", summed(x, y), 3))
  BY <1>1, SumHolds
<1>5. r.type = "float" /\ s.type = "float" /\ ~Masked(r) /\ MayMultiply(r, s, 1, 2) =>
         Agrees(weighted_product(r, s, 1, 2), r, s, LAMBDA x, y :
                either(x, y, IF NaN \in {x, y} THEN NaN
                             ELSE IF best > 0 THEN Compute("float", "divides", x * (y * y), best)
                             ELSE x * (y * y)))
  <2>1. BestProduct(r, s, best)
    BY DEF BestProduct
  <2> HIDE DEF best
  <2> QED BY <1>1, <2>1, ProductHolds, Zenon DEF Agrees
<1> QED BY <1>2, <1>3, <1>4, <1>5 DEF CombinationsAgree

-----------------------------------------------------------------------------
(* Cell by cell: summaries *)

LEMMA PartsCounted ==
    ASSUME NEW S, IsFiniteSet(S), NEW T, T \subseteq S
    PROVE  /\ IsFiniteSet(T) /\ IsFiniteSet(S \ T)
           /\ Cardinality(S) \in Nat /\ Cardinality(T) \in Nat /\ Cardinality(S \ T) \in Nat
           /\ Cardinality(S) = Cardinality(T) + Cardinality(S \ T)
<1>1. IsFiniteSet(T) /\ IsFiniteSet(S \ T)
  BY FS_Subset, S \ T \in SUBSET S
<1>2. Cardinality(S) \in Nat /\ Cardinality(T) \in Nat /\ Cardinality(S \ T) \in Nat
  BY <1>1, FS_CardinalityType
<1>3. Cardinality(S \ T) = Cardinality(S) - Cardinality(S \cap T)
  BY FS_Difference
<1>4. S \cap T = T
  OBVIOUS
<1> QED BY <1>1, <1>2, <1>3, <1>4

\* What the iterators pass by are the cells of the counts, without a NaN.
LEMMA CellsCounted ==
    ASSUME NEW n, NEW r, Pair(r, r, n), NEW i \in 1 .. n, r.data[i] # NaN
    PROVE  Missing(r, i) <=> IsNodata(r, i)
BY Looks DEF Pair

LEMMA CountsHold ==
    ASSUME NEW n, NEW r, Pair(r, r, n), Len(r.data) = n
    PROVE  LET stats == statistics(r, 2)
               places == {i \in DOMAIN r.data : Contents(r)[i] \in 0..2}
           IN  /\ stats.noDataValues + stats.nanValues + stats.zeroValues + stats.nonZeroValues = Len(r.data)
               /\ stats.negativeValues + stats.countHigh + Cardinality(places) = stats.zeroValues + stats.nonZeroValues
               /\ \A v \in 0..2 : stats.histogram[v] = Quantify(places, LAMBDA i : Contents(r)[i] = v)
               /\ stats.nanValues = 0 => stats.sum = sum(r)
               /\ any_of(r) <=> stats.nonZeroValues > 0 \/ NaN \in DataValues(r)
               /\ all_of(r) <=> stats.zeroValues = 0
<1>0. NaN \notin Int /\ None \notin Int /\ NaN # None
  BY ElementsAssumption
<1>1. /\ Shaped(r, n) /\ n \in Nat \ {0} /\ DOMAIN r.data = 1 .. n
      /\ \A i \in 1 .. n : r.data[i] \in Int \cup {NaN}
      /\ \A i \in 1 .. n : /\ Contents(r)[i] = IF IsNodata(r, i) THEN None ELSE r.data[i]
                           /\ IsNodata(r, i) => Missing(r, i)
                           /\ r.data[i] # NaN => (Missing(r, i) <=> IsNodata(r, i))
  BY Looks, ShapedIs, CellsCounted DEF Pair, Number
<1> DEFINE stats == statistics(r, 2)
           N == 1 .. n
           places == {i \in N : Contents(r)[i] \in 0..2}
           present == {i \in N : ~IsNodata(r, i)}
           numbers == {i \in present : r.data[i] # NaN}
           small == {i \in numbers : r.data[i] \in 0..2}
           zeros == {i \in numbers : r.data[i] = 0}
           others == {i \in numbers : r.data[i] # 0}
           negative == {i \in numbers : r.data[i] < 0}
           high == {i \in numbers : r.data[i] > 2}
<1>2. stats = [noDataValues |-> Cardinality(N \ present),
               nanValues |-> Cardinality(present \ numbers),
               zeroValues |-> Cardinality(zeros),
               nonZeroValues |-> Cardinality(others),
               negativeValues |-> Cardinality(negative),
               countHigh |-> Cardinality(high),
               sum |-> MapThenSumSet(LAMBDA i : r.data[i], numbers),
               histogram |-> [v \in 0..2 |-> Cardinality({i \in small : r.data[i] = v})]]
  BY <1>1 DEF statistics
<1>3. sum(r) = MapThenSumSet(LAMBDA i : r.data[i], present)
  BY <1>1 DEF sum
<1>4. /\ present \subseteq N /\ numbers \subseteq present /\ zeros \subseteq numbers
      /\ others = numbers \ zeros /\ small \subseteq numbers
      /\ \A i \in numbers : r.data[i] \in Int
  BY <1>1
<1>5. negative \subseteq numbers \ small /\ high = (numbers \ small) \ negative
  BY <1>1
<1>6. places = small
  BY <1>0, <1>1
<1>7. \A v \in 0..2 : {i \in small : r.data[i] = v} = {i \in places : Contents(r)[i] = v}
  <2>1. \A i \in small : Contents(r)[i] = r.data[i]
    BY <1>1
  <2> QED BY <1>6, <2>1
<1>8. /\ \A i \in 1 .. n : ~Missing(r, i) => i \in present
      /\ \A i \in 1 .. n : i \in numbers <=> ~Missing(r, i) /\ r.data[i] # NaN
  BY <1>1
<1>9. /\ \A i \in N : i \in zeros <=> i \in numbers /\ r.data[i] = 0
      /\ \A i \in N : i \in others <=> i \in numbers /\ r.data[i] # 0
  BY <1>4
<1> HIDE DEF stats
<1>10. /\ stats.noDataValues = Cardinality(N \ present) /\ stats.nanValues = Cardinality(present \ numbers)
       /\ stats.zeroValues = Cardinality(zeros) /\ stats.nonZeroValues = Cardinality(others)
       /\ stats.negativeValues = Cardinality(negative) /\ stats.countHigh = Cardinality(high)
       /\ stats.sum = MapThenSumSet(LAMBDA i : r.data[i], numbers)
       /\ stats.histogram = [v \in 0..2 |-> Cardinality({i \in small : r.data[i] = v})]
  <2> HIDE DEF zeros, others, negative, high, small, numbers, present
  <2> QED BY <1>2
<1> HIDE DEF present, numbers, zeros, others, negative, high, small
<1>11. IsFiniteSet(N) /\ Cardinality(N) = n
  BY <1>1, FS_Interval
<1> HIDE DEF N
<1>12. /\ IsFiniteSet(present) /\ IsFiniteSet(N \ present) /\ Cardinality(N \ present) \in Nat
       /\ Cardinality(present) \in Nat /\ n = Cardinality(present) + Cardinality(N \ present)
  BY <1>4, <1>11, PartsCounted
<1>13. /\ IsFiniteSet(numbers) /\ IsFiniteSet(present \ numbers) /\ Cardinality(present \ numbers) \in Nat
       /\ Cardinality(numbers) \in Nat /\ Cardinality(present) = Cardinality(numbers) + Cardinality(present \ numbers)
  BY <1>4, <1>12, PartsCounted
<1>14. /\ IsFiniteSet(zeros) /\ IsFiniteSet(others) /\ Cardinality(zeros) \in Nat /\ Cardinality(others) \in Nat
       /\ Cardinality(numbers) = Cardinality(zeros) + Cardinality(others)
  BY <1>4, <1>13, PartsCounted
<1>15. /\ IsFiniteSet(small) /\ IsFiniteSet(numbers \ small) /\ Cardinality(small) \in Nat
       /\ Cardinality(numbers \ small) \in Nat
       /\ Cardinality(numbers) = Cardinality(small) + Cardinality(numbers \ small)
  BY <1>4, <1>13, PartsCounted
<1>16. /\ Cardinality(negative) \in Nat /\ Cardinality(high) \in Nat
       /\ Cardinality(numbers \ small) = Cardinality(negative) + Cardinality(high)
  BY <1>5, <1>15, PartsCounted
<1>17. stats.noDataValues + stats.nanValues + stats.zeroValues + stats.nonZeroValues = Len(r.data)
  BY <1>10, <1>12, <1>13, <1>14
<1>18. stats.negativeValues + stats.countHigh + Cardinality(places) = stats.zeroValues + stats.nonZeroValues
  <2> HIDE DEF places
  <2>1. Cardinality(places) = Cardinality(small)
    BY <1>6
  <2> QED BY <1>10, <1>14, <1>15, <1>16, <2>1
<1>19. \A v \in 0..2 : stats.histogram[v] = Quantify(places, LAMBDA i : Contents(r)[i] = v)
  <2>1. \A v \in 0..2 : stats.histogram[v] = Cardinality({i \in small : r.data[i] = v})
    BY <1>10
  <2> HIDE DEF places
  <2> QED BY <1>7, <2>1 DEF Quantify
<1>20. stats.nanValues = 0 => stats.sum = sum(r)
  <2>1. SUFFICES ASSUME stats.nanValues = 0 PROVE stats.sum = sum(r)
    OBVIOUS
  <2>2. present \ numbers = {}
    BY <1>10, <1>13, <2>1, FS_EmptySet
  <2>3. numbers = present
    BY <1>4, <2>2
  <2> QED BY <1>3, <1>10, <2>3
<1>21. any_of(r) <=> stats.nonZeroValues > 0 \/ NaN \in DataValues(r)
  <2>1. stats.nonZeroValues > 0 <=> others # {}
    BY <1>10, <1>14, FS_EmptySet
  <2>2. any_of(r) <=> \E i \in 1 .. n : ~Missing(r, i) /\ r.data[i] # 0
    BY <1>1 DEF any_of, DataValues, ValueCells
  <2>3. NaN \in DataValues(r) <=> \E i \in 1 .. n : ~Missing(r, i) /\ r.data[i] = NaN
    BY <1>1 DEF DataValues, ValueCells
  <2>4. others # {} <=> \E i \in 1 .. n : ~Missing(r, i) /\ r.data[i] # NaN /\ r.data[i] # 0
    <3>1. others \subseteq 1 .. n
      BY <1>4 DEF N
    <3> QED BY <1>8, <1>9, <3>1 DEF N
  <2> QED BY <1>0, <2>1, <2>2, <2>3, <2>4
<1>22. all_of(r) <=> stats.zeroValues = 0
  <2>1. stats.zeroValues = 0 <=> zeros = {}
    BY <1>10, <1>14, FS_EmptySet
  <2>2. all_of(r) <=> \A i \in 1 .. n : Missing(r, i) \/ r.data[i] # 0
    BY <1>1 DEF all_of, DataValues, ValueCells
  <2>3. zeros = {} <=> \A i \in 1 .. n : Missing(r, i) \/ r.data[i] # 0
    <3>1. zeros \subseteq 1 .. n
      BY <1>4 DEF N
    <3> QED BY <1>0, <1>8, <1>9, <3>1 DEF N
  <2> QED BY <2>1, <2>2, <2>3
<1>23. places = {i \in DOMAIN r.data : Contents(r)[i] \in 0..2}
  BY <1>1 DEF N
<1> HIDE DEF places
<1> QED BY <1>17, <1>18, <1>19, <1>20, <1>21, <1>22, <1>23 DEF stats

LEMMA Quotients ==
    ASSUME NEW x \in Int, NEW y \in Nat \ {0}
    PROVE  x \div y \in Int /\ y * (x \div y) <= x /\ x < y * (x \div y) + y
OBVIOUS

LEMMA ProductsOrdered ==
    ASSUME NEW a \in Int, NEW b \in Int, a <= b, NEW y \in Nat
    PROVE  y * a <= y * b
OBVIOUS

\* A range of d is mapped to 0 to 254: its ends to the ends, and in order.
LEMMA MappedInOrder ==
    ASSUME NEW d \in Nat \ {0}, NEW a \in 0 .. d
    PROVE  LET place(x) == (2 * 254 * x + d) \div (2 * d)
           IN  /\ place(a) \in Int /\ place(0) = 0 /\ place(d) = 254
               /\ \A b \in 0 .. d : a < b => place(a) <= place(b) /\ (d <= 254 => place(a) # place(b))
<1> DEFINE place(x) == (2 * 254 * x + d) \div (2 * d)
           y == 2 * d
<1>0. y \in Nat \ {0} /\ d \in Int /\ a \in Int
  OBVIOUS
<1>1. \A x \in 0 .. d : place(x) \in Int /\ y * place(x) <= 508 * x + d /\ 508 * x + d < y * place(x) + y
  <2> TAKE x \in 0 .. d
  <2> DEFINE z == 508 * x + d
  <2>1. z \in Int /\ z = 2 * 254 * x + d
    OBVIOUS
  <2>2. place(x) = z \div y
    BY <2>1
  <2> HIDE DEF z, y, place
  <2>3. z \div y \in Int /\ y * (z \div y) <= z /\ z < y * (z \div y) + y
    BY <1>0, <2>1, Quotients
  <2> QED BY <2>2, <2>3 DEF z
<1> HIDE DEF place
<1>2. place(0) = 0
  <2> DEFINE q == place(0)
  <2>1. q \in Int /\ y * q <= d /\ d < y * q + y
    BY <1>1
  <2> HIDE DEF q
  <2>2. ~(q >= 1)
    <3> SUFFICES ASSUME q >= 1 PROVE FALSE
      OBVIOUS
    <3>1. y * 1 <= y * q
      BY <1>0, <2>1, ProductsOrdered
    <3> QED BY <2>1, <3>1
  <2>3. ~(q <= -1)
    <3> SUFFICES ASSUME q <= -1 PROVE FALSE
      OBVIOUS
    <3>1. y * q <= y * (-1)
      BY <1>0, <2>1, ProductsOrdered
    <3>2. y * (-1) = -y
      BY <1>0
    <3> QED BY <2>1, <3>1, <3>2
  <2> QED BY <2>1, <2>2, <2>3 DEF q
<1>3. place(d) = 254
  <2> DEFINE q == place(d)
  <2>1. q \in Int /\ y * q <= 508 * d + d /\ 508 * d + d < y * q + y
    BY <1>1
  <2> HIDE DEF q
  <2>2. ~(q >= 255)
    <3> SUFFICES ASSUME q >= 255 PROVE FALSE
      OBVIOUS
    <3>1. y * 255 <= y * q
      BY <1>0, <2>1, ProductsOrdered
    <3> QED BY <2>1, <3>1
  <2>3. ~(q <= 253)
    <3> SUFFICES ASSUME q <= 253 PROVE FALSE
      OBVIOUS
    <3>1. y * q <= y * 253
      BY <1>0, <2>1, ProductsOrdered
    <3> QED BY <2>1, <3>1
  <2> QED BY <2>1, <2>2, <2>3 DEF q
<1>4. ASSUME NEW b \in 0 .. d, a < b
      PROVE  place(a) <= place(b) /\ (d <= 254 => place(a) # place(b))
  <2> DEFINE p == place(a)
             q == place(b)
  <2>1. /\ p \in Int /\ y * p <= 508 * a + d /\ 508 * a + d < y * p + y
        /\ q \in Int /\ y * q <= 508 * b + d /\ 508 * b + d < y * q + y
        /\ b \in Int /\ 508 * a < 508 * b /\ 508 * a + 508 <= 508 * b
    BY <1>1, <1>4
  <2> HIDE DEF p, q
  <2>2. p <= q
    <3> SUFFICES ASSUME q + 1 <= p PROVE FALSE
      BY <2>1
    <3>1. y * (q + 1) <= y * p
      BY <1>0, <2>1, ProductsOrdered
    <3>2. y * (q + 1) = y * q + y
      BY <1>0, <2>1
    <3> HIDE DEF y
    <3>3. y * q \in Int /\ y * p \in Int
      BY <1>0, <2>1
    <3> QED BY <1>0, <2>1, <3>1, <3>2, <3>3
  <2>3. ASSUME d <= 254, p = q PROVE FALSE
    <3>1. y <= 508
      BY <2>3
    <3> HIDE DEF y
    <3>2. y * p \in Int
      BY <1>0, <2>1
    <3> QED BY <1>0, <2>1, <2>3, <3>1, <3>2
  <2> QED BY <2>2, <2>3 DEF p, q
<1>5. place(a) \in Int
  BY <1>1
<1> QED BY <1>2, <1>3, <1>4, <1>5 DEF place

\* What a raster of bytes shows where optional values were put into it.
LEMMA BytesShown ==
    ASSUME NEW r, NEW n, Shaped(r, n), NEW nod, NEW out, Listed(out, n), MayPut(Made(r, "byte", nod), out)
    PROVE  LET t == Put(Made(r, "byte", nod), out)
           IN  \A i \in 1 .. n : /\ out[i] = None => Missing(t, i)
                                 /\ ~Missing(t, i) => Optional(t)[i] = out[i]
                                 /\ Missing(t, i) => out[i] = None \/ t.data[i] = t.nod
<1> DEFINE made == Made(r, "byte", nod)
           t == Put(made, out)
<1>1. AllShown(made, r, n, "byte", nod)
  BY MadeIs
<1> HIDE DEF made
<1>2. Shaped(made, n) /\ made.type = "byte" /\ MayPut(made, out)
  BY <1>1 DEF AllShown, made
<1>3. /\ InBandNumbers(t) = InBandNumbers(made)
      /\ Shaped(t, n) /\ t.nod = made.nod /\ t.type = made.type
      /\ Masked(t) <=> Masked(made)
      /\ \A i \in 1 .. n : out[i] = None => Missing(t, i)
      /\ \A i \in 1 .. n : \A numbers : InBandNumbers(made) \subseteq numbers =>
            Optional(t)[i] \in Promise!AsRead(out[i], numbers)
  BY <1>2, PutIs
<1> HIDE DEF t
<1>4. ASSUME NEW i \in 1 .. n
      PROVE  /\ out[i] = None => Missing(t, i)
             /\ ~Missing(t, i) => Optional(t)[i] = out[i]
             /\ Missing(t, i) => out[i] = None \/ t.data[i] = t.nod
  <2>1. Optional(t)[i] \in Promise!AsRead(out[i], InBandNumbers(made))
    BY <1>3
  <2>2. Optional(t)[i] \in {out[i], None}
    BY <2>1 DEF Promise!AsRead
  <2>3. Optional(t)[i] = IF Missing(t, i) THEN None ELSE t.data[i]
    BY <1>3, Looks
  <2>4. t.data[i] # None
    BY <1>3, ShapedIs
  <2>5. ~Missing(t, i) => Optional(t)[i] = out[i]
    BY <2>2, <2>3, <2>4
  <2>6. CASE Masked(t)
    <3>1. InBandNumbers(made) = {}
      BY <1>3, <2>6 DEF InBandNumbers
    <3>2. Optional(t)[i] = out[i]
      BY <2>1, <3>1 DEF Promise!AsRead
    <3> QED BY <1>3, <2>3, <2>5, <3>2
  <2>7. CASE ~Masked(t)
    <3>1. Missing(t, i) => t.data[i] = t.nod
      BY <1>2, <1>3, <2>7, Looks
    <3> QED BY <1>3, <2>5, <3>1
  <2> QED BY <2>6, <2>7
<1> QED BY <1>4 DEF t, made

LEMMA RangeIs ==
    ASSUME NEW n, NEW r, Pair(r, r, n), MayNormalise(r), DataValues(r) # {}
    PROVE  /\ minmax(r)[1] \in Int /\ minmax(r)[2] \in Int /\ minmax(r)[1] < minmax(r)[2]
           /\ \A v \in DataValues(r) : v \in Int /\ minmax(r)[1] <= v /\ v <= minmax(r)[2]
<1> DEFINE S == DataValues(r)
<1>1. /\ DOMAIN r.data = 1 .. n /\ n \in Nat \ {0} /\ \A i \in 1 .. n : r.data[i] \in Number
  BY ShapedIs DEF Pair
<1>2. NaN \notin S /\ Cardinality(S) # 1 /\ S # {}
  BY DEF MayNormalise
<1>3. S \in SUBSET Int
  BY <1>1, <1>2 DEF DataValues, ValueCells, Number
<1>4. IsFiniteSet(S)
  <2> DEFINE N == 1 .. n
             all == {r.data[i] : i \in N}
  <2>1. IsFiniteSet(N)
    BY <1>1, FS_Interval
  <2>2. S \in SUBSET all
    BY <1>1 DEF DataValues, ValueCells
  <2>3. IsFiniteSet(all)
    <3> DEFINE data == r.data
    <3> HIDE DEF data, N
    <3>1. IsFiniteSet({data[i] : i \in N})
      BY <2>1, FiniteImages
    <3> QED BY <3>1 DEF data
  <2> HIDE DEF all
  <2> QED BY <2>2, <2>3, FS_Subset
<1> HIDE DEF S
<1>5. /\ Max(S) \in S /\ \A y \in S : Max(S) >= y
      /\ Min(S) \in S /\ \A y \in S : Min(S) <= y
  BY <1>2, <1>3, <1>4, FiniteExtremes
<1>6. minmax(r)[1] = Min(S) /\ minmax(r)[2] = Max(S)
  BY DEF minmax, S
<1> DEFINE lo == Min(S)
           hi == Max(S)
<1> HIDE DEF lo, hi
<1>7. lo \in S /\ hi \in S /\ \A y \in S : lo <= y /\ y <= hi
  BY <1>3, <1>5 DEF lo, hi
<1>8. lo \in Int /\ hi \in Int
  BY <1>3, <1>7
<1>9. lo < hi
  <2> SUFFICES ASSUME lo = hi PROVE FALSE
    BY <1>7, <1>8
  <2>1. S = {lo}
    <3>1. \A y \in S : y = lo
      BY <1>3, <1>7, <1>8
    <3> QED BY <1>7, <3>1
  <2>2. Cardinality({lo}) = 1
    BY FS_Singleton
  <2> QED BY <1>2, <2>1, <2>2
<1> QED BY <1>3, <1>6, <1>7, <1>8, <1>9 DEF S, lo, hi

NormalisesAll(r, n, t, z) ==
    \A i, j \in 1 .. n :
       /\ Missing(r, i) => Missing(t, i)
       /\ {i, j} \subseteq ValueCells(r) /\ ~Missing(t, i) /\ ~Missing(t, j) =>
             /\ r.data[i] = minmax(r)[1] => z[i] = 0
             /\ r.data[i] = minmax(r)[2] => z[i] = 254
             /\ r.data[i] < r.data[j] =>
                   z[i] <= z[j] /\ (minmax(r)[2] - minmax(r)[1] <= 254 => z[i] # z[j])
       /\ Missing(t, i) => Missing(r, i) \/ t.data[i] = t.nod

LEMMA NormaliseHolds ==
    ASSUME NEW n, NEW r, Pair(r, r, n), MayNormalise(r), MayPut(Made(r, "byte", r.nod), Optional(r))
    PROVE  NormalisesAll(r, n, normalise_min_max(r, 0, 254), Optional(normalise_min_max(r, 0, 254)))
<1>0. NaN \notin Int /\ None \notin Int /\ NaN # None
  BY ElementsAssumption
<1>1. /\ Shaped(r, n) /\ n \in Nat \ {0} /\ DOMAIN r.data = 1 .. n
      /\ \A i \in 1 .. n : /\ Optional(r)[i] = IF Missing(r, i) THEN None ELSE r.data[i]
                           /\ r.data[i] # None
  BY Looks, ShapedIs DEF Pair
<1> DEFINE nod == nodata_cast("byte", r.nod)
           made == Made(r, "byte", nod)
           t == normalise_min_max(r, 0, 254)
           z == Optional(t)
           lo == minmax(r)[1]
           hi == minmax(r)[2]
           mapped(v) == remap_to_byte(v, lo, hi, 0, 254)
<1>2. Listed(Optional(r), n)
  BY <1>1 DEF Optional, Listed
<1>3. MayPut(made, Optional(r))
  <2> DEFINE other == Made(r, "byte", r.nod)
  <2>1. AllShown(made, r, n, "byte", nod) /\ AllShown(other, r, n, "byte", r.nod)
    BY <1>1, MadeIs
  <2>2. nod = None <=> r.nod = None
    BY <1>0 DEF nodata_cast, ByteMax
  <2>3. MayPut(other, Optional(r))
    OBVIOUS
  <2> HIDE DEF made, other, nod
  <2>4. /\ (Masked(made) <=> Masked(other)) /\ made.type = other.type
        /\ (made.nod = None <=> other.nod = None)
        /\ Masked(made) => (made.mask = <<>> <=> other.mask = <<>>)
    BY <2>1, <2>2 DEF AllShown
  <2> QED BY <2>3, <2>4 DEF MayPut, M!has_nodata, M!NoMask
<1>4. ASSUME NEW out, Listed(out, n), t = Put(made, out),
             \A i \in 1 .. n : out[i] = None <=> Missing(r, i)
      PROVE  \A i \in 1 .. n : /\ Missing(r, i) => Missing(t, i)
                               /\ ~Missing(t, i) => z[i] = out[i]
                               /\ Missing(t, i) => Missing(r, i) \/ t.data[i] = t.nod
  <2>1. \A i \in 1 .. n : out[i] = None => Optional(r)[i] = None
    BY <1>1, <1>4
  <2>2. MayPut(made, out)
    <3> HIDE DEF made
    <3> QED BY <1>2, <1>3, <1>4, <2>1, MayPutFewer
  <2>3. LET u == Put(Made(r, "byte", nod), out)
        IN  \A i \in 1 .. n : /\ out[i] = None => Missing(u, i)
                              /\ ~Missing(u, i) => Optional(u)[i] = out[i]
                              /\ Missing(u, i) => out[i] = None \/ u.data[i] = u.nod
    <3> HIDE DEF nod, t
    <3> QED BY <1>1, <1>4, <2>2, BytesShown
  <2> DEFINE u == Put(made, out)
  <2>4. \A i \in 1 .. n : /\ out[i] = None => Missing(u, i)
                          /\ ~Missing(u, i) => Optional(u)[i] = out[i]
                          /\ Missing(u, i) => out[i] = None \/ u.data[i] = u.nod
    BY <2>3
  <2>5. t = u
    BY <1>4
  <2> HIDE DEF t, u
  <2> QED BY <1>4, <2>4, <2>5
<1>5. CASE DataValues(r) = {}
  <2> DEFINE out == Constant(r, None)
  <2>1. Listed(out, n) /\ \A i \in 1 .. n : out[i] = None
    BY <1>1 DEF Constant, Listed
  <2>2. \A i \in 1 .. n : Missing(r, i)
    BY <1>1, <1>5 DEF DataValues, ValueCells
  <2>3. t = Put(made, out)
    BY <1>5 DEF normalise_min_max
  <2> HIDE DEF out, t, made
  <2>4. \A i \in 1 .. n : Missing(t, i)
    BY <1>4, <2>1, <2>2, <2>3
  <2>5. \A i \in 1 .. n : i \notin ValueCells(r)
    BY <2>2 DEF ValueCells
  <2>6. NormalisesAll(r, n, t, z)
    BY <2>2, <2>4, <2>5 DEF NormalisesAll
  <2> QED BY <2>6 DEF t
<1>6. CASE DataValues(r) # {}
  <2> DEFINE out == [i \in 1 .. n |-> IF Missing(r, i) THEN None ELSE mapped(r.data[i])]
             d == hi - lo
             place(x) == (2 * 254 * x + d) \div (2 * d)
  <2>1. /\ lo \in Int /\ hi \in Int /\ lo < hi
        /\ \A v \in DataValues(r) : v \in Int /\ lo <= v /\ v <= hi
    BY <1>6, RangeIs
  <2>2. d \in Nat \ {0}
    BY <2>1
  <2>3. t = Put(made, out)
    BY <1>1, <1>6 DEF normalise_min_max
  <2>4. ASSUME NEW i \in 1 .. n, ~Missing(r, i)
        PROVE  /\ r.data[i] \in Int /\ r.data[i] - lo \in 0 .. d
               /\ out[i] = place(r.data[i] - lo)
    <3>1. r.data[i] \in DataValues(r)
      BY <1>1, <2>4 DEF DataValues, ValueCells
    <3>2. r.data[i] \in Int /\ r.data[i] - lo \in 0 .. d /\ r.data[i] \in lo .. hi
      BY <2>1, <3>1
    <3>3. mapped(r.data[i]) = 0 + (2 * (254 - 0) * (r.data[i] - lo) + (hi - lo)) \div (2 * (hi - lo))
      <4>1. ~(r.data[i] < lo \/ r.data[i] > hi)
        BY <2>1, <3>2
      <4> HIDE DEF lo, hi
      <4> QED BY <4>1 DEF remap_to_byte
    <3>4. place(r.data[i] - lo) \in Int
      BY <2>2, <3>2, MappedInOrder
    <3>5. mapped(r.data[i]) = place(r.data[i] - lo)
      <4>1. 254 - 0 = 254
        OBVIOUS
      <4> HIDE DEF lo, hi, mapped
      <4> QED BY <3>3, <3>4, <4>1
    <3> QED BY <2>4, <3>2, <3>5
  <2>5. /\ place(0) = 0 /\ place(d) = 254
        /\ \A a, b \in 0 .. d : /\ place(a) \in Int
                                /\ a < b => place(a) <= place(b) /\ (d <= 254 => place(a) # place(b))
    <3> HIDE DEF d
    <3>1. \A a \in 0 .. d :
             /\ place(a) \in Int /\ place(0) = 0 /\ place(d) = 254
             /\ \A b \in 0 .. d : a < b => place(a) <= place(b) /\ (d <= 254 => place(a) # place(b))
      BY <2>2, MappedInOrder
    <3>2. 0 \in 0 .. d
      BY <2>2
    <3> HIDE DEF place
    <3> QED BY <3>1, <3>2
  <2>6. Listed(out, n) /\ \A i \in 1 .. n : out[i] = IF Missing(r, i) THEN None ELSE mapped(r.data[i])
    BY DEF Listed
  <2> HIDE DEF out, place, t, made, d
  <2>7. \A i \in 1 .. n : out[i] = None <=> Missing(r, i)
    <3> TAKE i \in 1 .. n
    <3>1. ~Missing(r, i) => out[i] # None
      <4> SUFFICES ASSUME ~Missing(r, i) PROVE out[i] # None
        OBVIOUS
      <4>1. out[i] = place(r.data[i] - lo) /\ r.data[i] - lo \in 0 .. d
        BY <2>4
      <4>2. place(r.data[i] - lo) \in Int
        BY <2>5, <4>1
      <4> QED BY <1>0, <4>1, <4>2
    <3> HIDE DEF mapped
    <3> QED BY <2>6, <3>1
  <2>8. \A i \in 1 .. n : /\ Missing(r, i) => Missing(t, i)
                          /\ ~Missing(t, i) => z[i] = out[i]
                          /\ Missing(t, i) => Missing(r, i) \/ t.data[i] = t.nod
    BY <1>4, <2>3, <2>6, <2>7
  <2>9. ASSUME NEW i \in 1 .. n, NEW j \in 1 .. n, ~Missing(r, i), ~Missing(r, j), ~Missing(t, i), ~Missing(t, j)
        PROVE  /\ r.data[i] = lo => z[i] = 0
               /\ r.data[i] = hi => z[i] = 254
               /\ r.data[i] < r.data[j] => z[i] <= z[j] /\ (hi - lo <= 254 => z[i] # z[j])
    <3> DEFINE a == r.data[i] - lo
               b == r.data[j] - lo
    <3>1. /\ z[i] = place(a) /\ z[j] = place(b) /\ a \in 0 .. d /\ b \in 0 .. d
          /\ r.data[i] \in Int /\ r.data[j] \in Int
      BY <2>4, <2>8, <2>9
    <3>2. /\ r.data[i] = lo => a = 0
          /\ r.data[i] = hi => a = d
          /\ r.data[i] < r.data[j] => a < b
      BY <2>1, <3>1 DEF d
    <3> HIDE DEF a, b, z
    <3>3. a < b => place(a) <= place(b) /\ (d <= 254 => place(a) # place(b))
      BY <2>5, <3>1
    <3>4. hi - lo = d
      BY DEF d
    <3> HIDE DEF lo, hi
    <3> QED BY <2>5, <3>1, <3>2, <3>3, <3>4
  <2>10. \A i \in 1 .. n : i \in ValueCells(r) <=> ~Missing(r, i)
    BY <1>1 DEF ValueCells
  <2> HIDE DEF z
  <2>11. NormalisesAll(r, n, t, z)
    BY <2>8, <2>9, <2>10 DEF NormalisesAll
  <2> QED BY <2>11 DEF t, z
<1> QED BY <1>5, <1>6

LEMMA SummariesHold ==
    ASSUME NEW n, NEW r, Pair(r, r, n), Len(r.data) = n
    PROVE  SummariesAgree(r)
<1>1. DOMAIN r.data = 1 .. n
  BY ShapedIs DEF Pair
<1>2. MayNormalise(r) /\ MayPut(Made(r, "byte", r.nod), Optional(r)) =>
         NormalisesAll(r, n, normalise_min_max(r, 0, 254), Optional(normalise_min_max(r, 0, 254)))
  BY NormaliseHolds
<1> DEFINE stats == statistics(r, 2)
           places == {i \in DOMAIN r.data : Contents(r)[i] \in 0..2}
<1>3. /\ stats.noDataValues + stats.nanValues + stats.zeroValues + stats.nonZeroValues = Len(r.data)
      /\ stats.negativeValues + stats.countHigh + Cardinality(places) = stats.zeroValues + stats.nonZeroValues
      /\ \A v \in 0..2 : stats.histogram[v] = Quantify(places, LAMBDA i : Contents(r)[i] = v)
      /\ stats.nanValues = 0 => stats.sum = sum(r)
      /\ any_of(r) <=> stats.nonZeroValues > 0 \/ NaN \in DataValues(r)
      /\ all_of(r) <=> stats.zeroValues = 0
  BY CountsHold DEF Quantify
<1> DEFINE t == normalise_min_max(r, 0, 254)
           z == Optional(t)
<1>4. MayNormalise(r) /\ MayPut(Made(r, "byte", r.nod), Optional(r)) =>
         \A i, j \in DOMAIN r.data :
            /\ Missing(r, i) => Missing(t, i)
            /\ {i, j} \subseteq ValueCells(r) /\ ~Missing(t, i) /\ ~Missing(t, j) =>
                  /\ r.data[i] = minmax(r)[1] => z[i] = 0
                  /\ r.data[i] = minmax(r)[2] => z[i] = 254
                  /\ r.data[i] < r.data[j] =>
                        z[i] <= z[j] /\ (minmax(r)[2] - minmax(r)[1] <= 254 => z[i] # z[j])
            /\ Missing(t, i) => Missing(r, i) \/ t.data[i] = t.nod
  <2> HIDE DEF t, z
  <2>1. MayNormalise(r) /\ MayPut(Made(r, "byte", r.nod), Optional(r)) => NormalisesAll(r, n, t, z)
    BY <1>2 DEF t, z
  <2> SUFFICES ASSUME MayNormalise(r), MayPut(Made(r, "byte", r.nod), Optional(r)),
                      NEW i \in 1 .. n, NEW j \in 1 .. n
               PROVE  /\ Missing(r, i) => Missing(t, i)
                      /\ {i, j} \subseteq ValueCells(r) /\ ~Missing(t, i) /\ ~Missing(t, j) =>
                            /\ r.data[i] = minmax(r)[1] => z[i] = 0
                            /\ r.data[i] = minmax(r)[2] => z[i] = 254
                            /\ r.data[i] < r.data[j] =>
                                  z[i] <= z[j] /\ (minmax(r)[2] - minmax(r)[1] <= 254 => z[i] # z[j])
                      /\ Missing(t, i) => Missing(r, i) \/ t.data[i] = t.nod
    BY <1>1
  <2> QED BY <2>1, Zenon DEF NormalisesAll
<1> HIDE DEF stats, places, t, z
<1> QED BY <1>3, <1>4, Zenon DEF SummariesAgree, stats, places, t, z

-----------------------------------------------------------------------------
(* Cell by cell: tables *)

LEMMA LeastIs ==
    ASSUME NEW S \in SUBSET Int, NEW m \in S, \A x \in S : m <= x
    PROVE  Min(S) = m
<1> DEFINE least(x) == x \in S /\ \A y \in S : x <= y
<1>1. \E x \in S : \A y \in S : x <= y
  OBVIOUS
<1>2. Min(S) \in S /\ \A y \in S : Min(S) <= y
  BY <1>1, Zenon DEF Min
<1> DEFINE k == Min(S)
<1> HIDE DEF k
<1>3. k \in S /\ k <= m /\ m <= k
  BY <1>2 DEF k
<1>4. k = m
  BY <1>3
<1> QED BY <1>4 DEF k

\* What a table looks for in a cell, and whether a row has it.
Key(x) == IF x = None THEN NoKey ELSE x
Fits(values, row) == \A k \in DOMAIN values : row[k] = Key(values[k])

LEMMA FirstRow ==
    ASSUME NEW values, NEW mapping, DOMAIN mapping \subseteq Int, NEW first \in DOMAIN mapping,
           Fits(values, mapping[first]),
           \A j \in DOMAIN mapping : Fits(values, mapping[j]) => first <= j
    PROVE  reclass_value(values, mapping) =
              IF mapping[first][Len(values) + 1] = NoKey THEN None ELSE mapping[first][Len(values) + 1]
<1> DEFINE rows == {j \in DOMAIN mapping :
                      \A k \in DOMAIN values : mapping[j][k] = IF values[k] = None THEN NoKey ELSE values[k]}
<1>1. rows = {j \in DOMAIN mapping : Fits(values, mapping[j])}
  BY DEF Fits, Key
<1>2. rows \in SUBSET Int /\ first \in rows /\ \A x \in rows : first <= x
  BY <1>1
<1>3. reclass_value(values, mapping) =
         IF rows = {} \/ mapping[Min(rows)][Len(values) + 1] = NoKey THEN None
         ELSE mapping[Min(rows)][Len(values) + 1]
  BY DEF reclass_value
<1> HIDE DEF rows
<1>4. Min(rows) = first
  BY <1>2, LeastIs
<1> QED BY <1>2, <1>3, <1>4

LEMMA NoRow ==
    ASSUME NEW values, NEW mapping, \A j \in DOMAIN mapping : ~Fits(values, mapping[j])
    PROVE  reclass_value(values, mapping) = None
<1>1. {j \in DOMAIN mapping :
         \A k \in DOMAIN values : mapping[j][k] = IF values[k] = None THEN NoKey ELSE values[k]} = {}
  BY DEF Fits, Key
<1> QED BY <1>1 DEF reclass_value

LEMMA OneFound ==
    ASSUME NEW x \in Number \cup {None}
    PROVE  reclass_value(<<x>>, OfOne) =
              CASE x \in {None, NoKey} -> 7 [] x = 2 -> 5 [] OTHER -> None
<1> DEFINE values == <<x>>
           key == Key(x)
           found == reclass_value(values, OfOne)
<1>0. NoKey = -9999 /\ None \notin Int /\ NaN \notin Int /\ NaN # None
  BY ElementsAssumption DEF NoKey
<1>1. /\ DOMAIN OfOne = 1 .. 4 /\ OfOne[1] = <<NoKey, 7>> /\ OfOne[2] = <<1, NoKey>>
      /\ OfOne[3] = <<2, 5>> /\ OfOne[4] = <<2, 6>>
  BY DEF OfOne
<1>2. values[1] = x /\ DOMAIN values = {1} /\ Len(values) = 1
  OBVIOUS
<1> HIDE DEF values, key, found
<1>3. \A row : Fits(values, row) <=> row[1] = key
  BY <1>2 DEF Fits, key
<1>4. /\ Fits(values, OfOne[1]) <=> key = NoKey
      /\ Fits(values, OfOne[2]) <=> key = 1
      /\ Fits(values, OfOne[3]) <=> key = 2
      /\ Fits(values, OfOne[4]) <=> key = 2
  BY <1>1, <1>3
<1>5. /\ key = NoKey <=> x \in {None, NoKey}
      /\ key = 1 <=> x = 1
      /\ key = 2 <=> x = 2
  BY <1>0 DEF key, Key
<1>6. \A j \in DOMAIN OfOne : j = 1 \/ j = 2 \/ j = 3 \/ j = 4
  BY <1>1
<1>7. ASSUME NEW j \in 1 .. 4, Fits(values, OfOne[j]), \A k \in DOMAIN OfOne : Fits(values, OfOne[k]) => j <= k
      PROVE  found = IF OfOne[j][2] = NoKey THEN None ELSE OfOne[j][2]
  <2>1. DOMAIN OfOne \subseteq Int /\ j \in DOMAIN OfOne
    BY <1>1
  <2>2. found = IF OfOne[j][Len(values) + 1] = NoKey THEN None ELSE OfOne[j][Len(values) + 1]
    BY <1>7, <2>1, FirstRow DEF found
  <2>3. Len(values) + 1 = 2
    BY <1>2
  <2> QED BY <2>2, <2>3
<1>8. OfOne[1][2] = 7 /\ OfOne[2][2] = NoKey /\ OfOne[3][2] = 5 /\ 7 # NoKey /\ 5 # NoKey
  BY <1>0, <1>1
<1>9. /\ key = NoKey => found = 7
      /\ key = 1 => found = None
      /\ key = 2 => found = 5
      /\ key \notin {NoKey, 1, 2} => found = None
  <2>1. ASSUME key = NoKey PROVE found = 7
    <3>1. Fits(values, OfOne[1]) /\ \A k \in DOMAIN OfOne : Fits(values, OfOne[k]) => 1 <= k
      BY <1>4, <1>6, <2>1
    <3> QED BY <1>7, <1>8, <3>1
  <2>2. ASSUME key = 1 PROVE found = None
    <3>1. Fits(values, OfOne[2]) /\ \A k \in DOMAIN OfOne : Fits(values, OfOne[k]) => 2 <= k
      BY <1>0, <1>4, <1>6, <2>2
    <3> QED BY <1>7, <1>8, <3>1
  <2>3. ASSUME key = 2 PROVE found = 5
    <3>1. Fits(values, OfOne[3]) /\ \A k \in DOMAIN OfOne : Fits(values, OfOne[k]) => 3 <= k
      BY <1>0, <1>4, <1>6, <2>3
    <3> QED BY <1>7, <1>8, <3>1
  <2>4. ASSUME key \notin {NoKey, 1, 2} PROVE found = None
    <3>1. \A j \in DOMAIN OfOne : ~Fits(values, OfOne[j])
      BY <1>4, <1>6, <2>4
    <3> QED BY <3>1, NoRow DEF found
  <2> QED BY <2>1, <2>2, <2>3, <2>4
<1>10. found = CASE x \in {None, NoKey} -> 7 [] x = 2 -> 5 [] OTHER -> None
  BY <1>0, <1>5, <1>9
<1> QED BY <1>10 DEF found, values

LEMMA TwoFound ==
    ASSUME NEW x \in Number \cup {None}, NEW y \in Number \cup {None}
    PROVE  LET absent(z) == z \in {None, NoKey}
           IN  reclass_value(<<x, y>>, OfTwo) = CASE absent(x) /\ absent(y) -> 7
                                                  [] x = 1 /\ absent(y) -> 5
                                                  [] x = 2 /\ y = 1 -> 6
                                                  [] OTHER -> None
<1> DEFINE values == <<x, y>>
           a == Key(x)
           b == Key(y)
           found == reclass_value(values, OfTwo)
           wanted == CASE x \in {None, NoKey} /\ y \in {None, NoKey} -> 7
                       [] x = 1 /\ y \in {None, NoKey} -> 5
                       [] x = 2 /\ y = 1 -> 6
                       [] OTHER -> None
<1>0. NoKey = -9999 /\ None \notin Int /\ NaN \notin Int /\ NaN # None
  BY ElementsAssumption DEF NoKey
<1>1. /\ DOMAIN OfTwo = 1 .. 4 /\ OfTwo[1] = <<NoKey, NoKey, 7>> /\ OfTwo[2] = <<1, NoKey, 5>>
      /\ OfTwo[3] = <<0, 2, NoKey>> /\ OfTwo[4] = <<2, 1, 6>>
  BY DEF OfTwo
<1>2. values[1] = x /\ values[2] = y /\ DOMAIN values = {1, 2} /\ Len(values) = 2
  OBVIOUS
<1>5. /\ a = NoKey <=> x \in {None, NoKey}
      /\ a = 0 <=> x = 0
      /\ a = 1 <=> x = 1
      /\ a = 2 <=> x = 2
      /\ b = NoKey <=> y \in {None, NoKey}
      /\ b = 1 <=> y = 1
      /\ b = 2 <=> y = 2
  BY <1>0 DEF Key
<1>a. /\ a = NoKey /\ b = NoKey => wanted = 7
      /\ a = 1 /\ b = NoKey => wanted = 5
      /\ a = 2 /\ b = 1 => wanted = 6
      /\ ~(a = NoKey /\ b = NoKey) /\ ~(a = 1 /\ b = NoKey) /\ ~(a = 2 /\ b = 1) => wanted = None
  <2> HIDE DEF a, b
  <2> QED BY <1>0, <1>5
<1>b. SUFFICES found = wanted
  BY Zenon
<1> HIDE DEF values, a, b, found, wanted
<1>3. \A row : Fits(values, row) <=> row[1] = a /\ row[2] = b
  BY <1>2 DEF Fits, a, b
<1>4. /\ Fits(values, OfTwo[1]) <=> a = NoKey /\ b = NoKey
      /\ Fits(values, OfTwo[2]) <=> a = 1 /\ b = NoKey
      /\ Fits(values, OfTwo[3]) <=> a = 0 /\ b = 2
      /\ Fits(values, OfTwo[4]) <=> a = 2 /\ b = 1
  BY <1>1, <1>3
<1>6. \A j \in DOMAIN OfTwo : j = 1 \/ j = 2 \/ j = 3 \/ j = 4
  BY <1>1
<1>7. ASSUME NEW j \in 1 .. 4, Fits(values, OfTwo[j])
      PROVE  found = IF OfTwo[j][3] = NoKey THEN None ELSE OfTwo[j][3]
  <2>1. \A k \in DOMAIN OfTwo : Fits(values, OfTwo[k]) => j <= k
    BY <1>0, <1>4, <1>6, <1>7
  <2>2. DOMAIN OfTwo \subseteq Int /\ j \in DOMAIN OfTwo
    BY <1>1
  <2>3. found = IF OfTwo[j][Len(values) + 1] = NoKey THEN None ELSE OfTwo[j][Len(values) + 1]
    BY <1>7, <2>1, <2>2, FirstRow DEF found
  <2>4. Len(values) + 1 = 3
    BY <1>2
  <2> QED BY <2>3, <2>4
<1>8. OfTwo[1][3] = 7 /\ OfTwo[2][3] = 5 /\ OfTwo[3][3] = NoKey /\ OfTwo[4][3] = 6
  BY <1>1
<1>9. 7 # NoKey /\ 5 # NoKey /\ 6 # NoKey
  BY <1>0
<1>10. CASE Fits(values, OfTwo[1])
  BY <1>4, <1>7, <1>8, <1>9, <1>10, <1>a
<1>11. CASE Fits(values, OfTwo[2])
  BY <1>4, <1>7, <1>8, <1>9, <1>11, <1>a
<1>12. CASE Fits(values, OfTwo[3])
  BY <1>0, <1>4, <1>7, <1>8, <1>12, <1>a
<1>13. CASE Fits(values, OfTwo[4])
  BY <1>4, <1>7, <1>8, <1>9, <1>13, <1>a
<1>14. CASE \A j \in 1 .. 4 : ~Fits(values, OfTwo[j])
  <2>1. found = None
    BY <1>1, <1>14, NoRow DEF found
  <2>2. /\ ~Fits(values, OfTwo[1]) /\ ~Fits(values, OfTwo[2])
        /\ ~Fits(values, OfTwo[3]) /\ ~Fits(values, OfTwo[4])
    BY <1>14
  <2> QED BY <1>4, <1>a, <2>1, <2>2
<1>15. found = wanted
  BY <1>1, <1>6, <1>10, <1>11, <1>12, <1>13, <1>14
<1> QED BY <1>15

LEMMA ThreeFound ==
    ASSUME NEW x \in Number \cup {None}, NEW y \in Number \cup {None}
    PROVE  LET absent(z) == z \in {None, NoKey}
           IN  reclass_value(<<x, y, x>>, OfThree) = IF absent(x) /\ y = 1 THEN 5 ELSE None
<1> DEFINE values == <<x, y, x>>
           a == Key(x)
           b == Key(y)
           found == reclass_value(values, OfThree)
<1>0. NoKey = -9999 /\ None \notin Int /\ NaN \notin Int /\ NaN # None
  BY ElementsAssumption DEF NoKey
<1>1. DOMAIN OfThree = 1 .. 2 /\ OfThree[1] = <<1, 0, 2, 7>> /\ OfThree[2] = <<NoKey, 1, NoKey, 5>>
  BY DEF OfThree
<1>2. values[1] = x /\ values[2] = y /\ values[3] = x /\ DOMAIN values = {1, 2, 3} /\ Len(values) = 3
  OBVIOUS
<1>5. (a = NoKey <=> x \in {None, NoKey}) /\ (b = 1 <=> y = 1)
  BY <1>0 DEF Key
<1> HIDE DEF values, a, b, found
<1>3. \A row : Fits(values, row) <=> row[1] = a /\ row[2] = b /\ row[3] = a
  BY <1>2 DEF Fits, a, b
<1>4. /\ ~Fits(values, OfThree[1])
      /\ Fits(values, OfThree[2]) <=> a = NoKey /\ b = 1
  <2>1. Fits(values, OfThree[1]) => 1 = a /\ 2 = a
    BY <1>1, <1>3
  <2> QED BY <1>1, <1>3, <2>1
<1>6. \A j \in DOMAIN OfThree : j = 1 \/ j = 2
  BY <1>1
<1>7. CASE a = NoKey /\ b = 1
  <2>1. \A k \in DOMAIN OfThree : Fits(values, OfThree[k]) => 2 <= k
    BY <1>4, <1>6
  <2>2. DOMAIN OfThree \subseteq Int /\ 2 \in DOMAIN OfThree /\ Fits(values, OfThree[2])
    BY <1>1, <1>4, <1>7
  <2>3. found = IF OfThree[2][Len(values) + 1] = NoKey THEN None ELSE OfThree[2][Len(values) + 1]
    BY <2>1, <2>2, FirstRow DEF found
  <2>4. Len(values) + 1 = 4 /\ OfThree[2][4] = 5
    BY <1>1, <1>2
  <2>5. found = 5
    BY <1>0, <2>3, <2>4
  <2> QED BY <1>5, <1>7, <2>5 DEF found, values
<1>8. CASE ~(a = NoKey /\ b = 1)
  <2>1. \A j \in DOMAIN OfThree : ~Fits(values, OfThree[j])
    BY <1>4, <1>6, <1>8
  <2>2. found = None
    BY <2>1, NoRow DEF found
  <2> QED BY <1>5, <1>8, <2>2 DEF found, values
<1> QED BY <1>7, <1>8

\* A raster shaped like r, of its storage, that holds a number of its own for nodata
\* and no element of which is nodata by a mask.
NumberedOf(v, r, n, type, number) ==
    /\ Shaped(v, n) /\ (Masked(v) <=> Masked(r)) /\ v.type = type /\ v.nod = number
    /\ \A i \in 1 .. n : Masked(v) => ~IsNodata(v, i)

\* A raster made of metadata gets another number.
LEMMA MadeNumbered ==
    ASSUME NEW r, NEW n, Shaped(r, n), NEW type, NEW nod, NEW number, number # None
    PROVE  NumberedOf([Made(r, type, nod) EXCEPT !.nod = number], r, n, type, number)
<1> DEFINE made == Made(r, type, nod)
           v == [made EXCEPT !.nod = number]
<1>1. AllShown(made, r, n, type, nod)
  BY MadeIs
<1> HIDE DEF made, v
<1>2. /\ Shaped(made, n) /\ (Masked(made) <=> Masked(r)) /\ made.type = type
      /\ \A i \in 1 .. n : Masked(made) => ~IsNodata(made, i)
  BY <1>1 DEF AllShown
<1>3. /\ n \in Nat \ {0} /\ made.data = [i \in 1 .. n |-> made.data[i]]
      /\ \A i \in 1 .. n : made.data[i] # None
  BY <1>2 DEF Shaped
<1>4. CASE Masked(made)
  <2>1. made = [storage |-> "masked", type |-> made.type, nod |-> made.nod, data |-> made.data, mask |-> made.mask]
    BY <1>2, <1>4, ShapedIs
  <2>2. v = [storage |-> "masked", type |-> made.type, nod |-> number, data |-> made.data, mask |-> made.mask]
    BY <2>1 DEF v
  <2>3. /\ v.storage = "masked" /\ v.type = made.type /\ v.nod = number /\ v.data = made.data
        /\ v.mask = made.mask
    BY <2>2
  <2>4. made.mask \in {<<>>} \cup [1 .. n -> BOOLEAN]
    BY <1>2, <1>4, ShapedIs
  <2>5. Shaped(v, n) /\ Masked(v)
    BY <1>3, <2>2, <2>3, <2>4 DEF Shaped, Masked
  <2>6. \A i \in 1 .. n : IsNodata(v, i) <=> IsNodata(made, i)
    BY <1>2, <1>4, <2>3, <2>5, Looks
  <2> QED BY <1>2, <1>4, <2>3, <2>5, <2>6 DEF NumberedOf, v, made
<1>5. CASE ~Masked(made)
  <2>1. made = [storage |-> "dense", type |-> made.type, nod |-> made.nod, data |-> made.data]
    BY <1>2, <1>5, ShapedIs
  <2>2. v = [storage |-> "dense", type |-> made.type, nod |-> number, data |-> made.data]
    BY <2>1 DEF v
  <2>3. v.storage = "dense" /\ v.type = made.type /\ v.nod = number /\ v.data = made.data
    BY <2>2
  <2>5. Shaped(v, n) /\ ~Masked(v)
    BY <1>3, <2>2, <2>3 DEF Shaped, Masked
  <2> QED BY <1>2, <1>5, <2>3, <2>5 DEF NumberedOf, v, made
<1> QED BY <1>4, <1>5

\* What a table holds for every cell of the first raster.
LEMMA TableShown ==
    ASSUME NEW n, NEW r, NEW s, Pair(r, s, n), NEW type \in {"int", "float"}, NEW mapping, NEW rasters,
           rasters[1] = r, NEW out, Listed(out, n),
           \A i \in 1 .. n : out[i] = reclass_value([k \in DOMAIN rasters |-> Contents(rasters[k])[i]], mapping),
           NEW i \in 1 .. n
    PROVE  Shown(reclass_to(mapping, rasters, type), r, s, i, Contents(r)[i], Contents(s)[i], out[i])
<1> DEFINE number == IF has_nan(type) THEN NaN ELSE NoKey
           numbered == [Made(r, type, r.nod) EXCEPT !.nod = number]
           data == [j \in 1 .. n |-> IF out[j] = None THEN number ELSE out[j]]
           cells == {j \in 1 .. n : out[j] = None}
           filled == Having(numbered, data)
           t == Marked(filled, cells)
<1>0. number # None
  BY ElementsAssumption DEF NoKey
<1>1. Shaped(r, n) /\ Shaped(s, n) /\ DOMAIN r.data = 1 .. n /\ DOMAIN out = 1 .. n
  BY ShapedIs DEF Pair, Listed
<1>2. out = [j \in 1 .. n |-> reclass_value([k \in DOMAIN rasters |-> Contents(rasters[k])[j]], mapping)]
  BY DEF Listed
<1> HIDE DEF number
<1>3. /\ Shaped(numbered, n) /\ (Masked(numbered) <=> Masked(r)) /\ numbered.type = type /\ numbered.nod = number
      /\ \A j \in 1 .. n : Masked(numbered) => ~IsNodata(numbered, j)
  <2> DEFINE nod == r.nod
             kind == type
             v == [Made(r, kind, nod) EXCEPT !.nod = number]
  <2>1. numbered = v /\ kind = type
    OBVIOUS
  <2>2. Shaped(r, n) /\ number # None
    BY <1>0, <1>1
  <2> HIDE DEF nod, kind, numbered
  <2>3. NumberedOf(v, r, n, kind, number)
    BY <2>2, MadeNumbered
  <2> HIDE DEF v
  <2> QED BY <2>1, <2>3 DEF NumberedOf
<1> HIDE DEF numbered
<1>4. reclass_to(mapping, rasters, type) = t
  <2>1. DOMAIN numbered.data = 1 .. n
    BY <1>3, ShapedIs
  <2>2. reclass_to(mapping, rasters, type) =
           LET o == [j \in DOMAIN r.data |-> reclass_value([k \in DOMAIN rasters |-> Contents(rasters[k])[j]], mapping)]
           IN  Marked([numbered EXCEPT !.data = [j \in DOMAIN @ |-> IF o[j] = None THEN number ELSE o[j]]],
                      {j \in DOMAIN o : o[j] = None})
    BY DEF reclass_to, numbered, number
  <2>3. reclass_to(mapping, rasters, type) =
           Marked([numbered EXCEPT !.data = [j \in DOMAIN @ |-> IF out[j] = None THEN number ELSE out[j]]],
                  {j \in DOMAIN out : out[j] = None})
    BY <1>1, <1>2, <2>2
  <2> QED BY <1>1, <2>1, <2>3 DEF Having
<1>5. Row(data, n) /\ \A j \in 1 .. n : j \notin cells => data[j] = out[j]
  BY <1>0 DEF Row, Listed
<1>6. cells \subseteq 1 .. n /\ (i \in cells <=> out[i] = None)
  OBVIOUS
<1> HIDE DEF data, cells, filled, t
<1>7. /\ Shaped(filled, n) /\ (Masked(filled) <=> Masked(numbered)) /\ filled.type = numbered.type
      /\ filled.nod = numbered.nod /\ filled.data = data
      /\ (Masked(numbered) => filled.mask = numbered.mask)
  BY <1>3, <1>5, WithData DEF filled
<1>8. Masked(filled) => ~IsNodata(filled, i)
  BY <1>3, <1>7, Looks
<1>9. SomeMarked(t, filled, n, cells)
  BY <1>0, <1>3, <1>6, <1>7, MarkedIs DEF t
<1>10. /\ Shaped(t, n) /\ (Masked(t) <=> Masked(filled))
       /\ Optional(t)[i] = IF i \in cells THEN None ELSE Optional(filled)[i]
       /\ i \notin cells => t.data[i] = filled.data[i]
       /\ Masked(filled) => (IsNodata(t, i) <=> i \in cells \/ IsNodata(filled, i))
  BY <1>9 DEF SomeMarked
<1>11. \/ out[i] = t.data[i] /\ (Masked(t) => ~IsNodata(t, i))
       \/ out[i] = Optional(t)[i]
  BY <1>5, <1>6, <1>7, <1>8, <1>10
<1> QED BY <1>4, <1>10, <1>11, ElementShown

\* What the tables give.
OneWanted(x, y) == CASE x \in {None, NoKey} -> 7 [] x = 2 -> 5 [] OTHER -> None
TwoWanted(x, y) == CASE x \in {None, NoKey} /\ y \in {None, NoKey} -> 7
                     [] x = 1 /\ y \in {None, NoKey} -> 5
                     [] x = 2 /\ y = 1 -> 6
                     [] OTHER -> None
ThreeWanted(x, y) == IF x \in {None, NoKey} /\ y = 1 THEN 5 ELSE None

LEMMA OneTableHolds ==
    ASSUME NEW n, NEW r, Pair(r, r, n), NEW type \in {"int", "float"}
    PROVE  Agrees(reclass_to(OfOne, <<r>>, type), r, r, OneWanted)
<1>1. /\ DOMAIN r.data = 1 .. n
      /\ \A i \in 1 .. n : Contents(r)[i] \in Number \cup {None}
  BY Looks, ShapedIs DEF Pair
<1> DEFINE rasters == <<r>>
           out == [i \in 1 .. n |-> reclass_value([k \in DOMAIN rasters |-> Contents(rasters[k])[i]], OfOne)]
<1>2. \A i \in 1 .. n : [k \in DOMAIN rasters |-> Contents(rasters[k])[i]] = <<Contents(r)[i]>>
  OBVIOUS
<1>3. rasters[1] = r /\ Listed(out, n) /\ \A i \in 1 .. n :
         out[i] = reclass_value([k \in DOMAIN rasters |-> Contents(rasters[k])[i]], OfOne)
  BY DEF Listed
<1> HIDE DEF out
<1>4. \A i \in 1 .. n : Shown(reclass_to(OfOne, rasters, type), r, r, i, Contents(r)[i], Contents(r)[i], out[i])
  <2> HIDE DEF rasters
  <2> QED BY <1>3, TableShown
<1>5. ASSUME NEW i \in 1 .. n PROVE out[i] = OneWanted(Contents(r)[i], Contents(r)[i])
  <2>1. out[i] = reclass_value(<<Contents(r)[i]>>, OfOne)
    BY <1>2, <1>3, Zenon
  <2> DEFINE x == Contents(r)[i]
  <2>2. x \in Number \cup {None}
    BY <1>1
  <2> HIDE DEF x
  <2>3. reclass_value(<<x>>, OfOne) = OneWanted(x, x)
    BY <2>2, OneFound DEF OneWanted
  <2> QED BY <2>1, <2>3 DEF x
<1> HIDE DEF rasters
<1>6. Agrees(reclass_to(OfOne, rasters, type), r, r, OneWanted)
  BY <1>1, <1>4, <1>5 DEF Agrees, Shown
<1> QED BY <1>6 DEF rasters

LEMMA TwoTableHolds ==
    ASSUME NEW n, NEW r, NEW s, Pair(r, s, n), NEW type \in {"int", "float"}
    PROVE  Agrees(reclass_to(OfTwo, <<r, s>>, type), r, s, TwoWanted)
<1>1. /\ DOMAIN r.data = 1 .. n
      /\ \A i \in 1 .. n : Contents(r)[i] \in Number \cup {None} /\ Contents(s)[i] \in Number \cup {None}
  BY Looks, ShapedIs DEF Pair
<1> DEFINE rasters == <<r, s>>
           out == [i \in 1 .. n |-> reclass_value([k \in DOMAIN rasters |-> Contents(rasters[k])[i]], OfTwo)]
<1>2. \A i \in 1 .. n : [k \in DOMAIN rasters |-> Contents(rasters[k])[i]] = <<Contents(r)[i], Contents(s)[i]>>
  OBVIOUS
<1>3. rasters[1] = r /\ Listed(out, n) /\ \A i \in 1 .. n :
         out[i] = reclass_value([k \in DOMAIN rasters |-> Contents(rasters[k])[i]], OfTwo)
  BY DEF Listed
<1> HIDE DEF out
<1>4. \A i \in 1 .. n : Shown(reclass_to(OfTwo, rasters, type), r, s, i, Contents(r)[i], Contents(s)[i], out[i])
  <2> HIDE DEF rasters
  <2> QED BY <1>3, TableShown
<1>5. ASSUME NEW i \in 1 .. n PROVE out[i] = TwoWanted(Contents(r)[i], Contents(s)[i])
  <2>1. out[i] = reclass_value(<<Contents(r)[i], Contents(s)[i]>>, OfTwo)
    BY <1>2, <1>3, Zenon
  <2> DEFINE x == Contents(r)[i]
             y == Contents(s)[i]
  <2>2. x \in Number \cup {None} /\ y \in Number \cup {None}
    BY <1>1
  <2> HIDE DEF x, y
  <2>3. reclass_value(<<x, y>>, OfTwo) = TwoWanted(x, y)
    BY <2>2, TwoFound DEF TwoWanted
  <2> QED BY <2>1, <2>3 DEF x, y
<1> HIDE DEF rasters
<1>6. Agrees(reclass_to(OfTwo, rasters, type), r, s, TwoWanted)
  BY <1>1, <1>4, <1>5 DEF Agrees, Shown
<1> QED BY <1>6 DEF rasters

LEMMA ThreeTableHolds ==
    ASSUME NEW n, NEW r, NEW s, Pair(r, s, n), NEW type \in {"int", "float"}
    PROVE  Agrees(reclass_to(OfThree, <<r, s, r>>, type), r, s, ThreeWanted)
<1>1. /\ DOMAIN r.data = 1 .. n
      /\ \A i \in 1 .. n : Contents(r)[i] \in Number \cup {None} /\ Contents(s)[i] \in Number \cup {None}
  BY Looks, ShapedIs DEF Pair
<1> DEFINE rasters == <<r, s, r>>
           out == [i \in 1 .. n |-> reclass_value([k \in DOMAIN rasters |-> Contents(rasters[k])[i]], OfThree)]
<1>2. \A i \in 1 .. n : [k \in DOMAIN rasters |-> Contents(rasters[k])[i]] =
                           <<Contents(r)[i], Contents(s)[i], Contents(r)[i]>>
  OBVIOUS
<1>3. rasters[1] = r /\ Listed(out, n) /\ \A i \in 1 .. n :
         out[i] = reclass_value([k \in DOMAIN rasters |-> Contents(rasters[k])[i]], OfThree)
  BY DEF Listed
<1> HIDE DEF out
<1>4. \A i \in 1 .. n : Shown(reclass_to(OfThree, rasters, type), r, s, i, Contents(r)[i], Contents(s)[i], out[i])
  <2> HIDE DEF rasters
  <2> QED BY <1>3, TableShown
<1>5. ASSUME NEW i \in 1 .. n PROVE out[i] = ThreeWanted(Contents(r)[i], Contents(s)[i])
  <2>1. out[i] = reclass_value(<<Contents(r)[i], Contents(s)[i], Contents(r)[i]>>, OfThree)
    BY <1>2, <1>3, Zenon
  <2> DEFINE x == Contents(r)[i]
             y == Contents(s)[i]
  <2>2. x \in Number \cup {None} /\ y \in Number \cup {None}
    BY <1>1
  <2> HIDE DEF x, y
  <2>3. reclass_value(<<x, y, x>>, OfThree) = ThreeWanted(x, y)
    BY <2>2, ThreeFound DEF ThreeWanted
  <2> QED BY <2>1, <2>3 DEF x, y
<1> HIDE DEF rasters
<1>6. Agrees(reclass_to(OfThree, rasters, type), r, s, ThreeWanted)
  BY <1>1, <1>4, <1>5 DEF Agrees, Shown
<1> QED BY <1>6 DEF rasters

\* A raster full of nodata.
LEMMA EmptyIs ==
    ASSUME NEW storage, NEW n \in Nat \ {0}, NEW type, NEW nod, nod # None
    PROVE  LET t == Filled(storage, type, nod, n, nod)
           IN  /\ Shaped(t, n) /\ (Masked(t) <=> storage = "masked") /\ t.type = type /\ t.nod = nod
               /\ DOMAIN t.data = 1 .. n
               /\ Masked(t) => DOMAIN t.mask = 1 .. n
               /\ ~Masked(t) => \A i \in 1 .. n : t.data[i] = IF type = "float" THEN NaN ELSE nod
<1> DEFINE t == Filled(storage, type, nod, n, nod)
<1>0. NaN # None
  BY ElementsAssumption
<1>1. CASE storage = "masked"
  <2> DEFINE data == [i \in 1 .. n |-> nod]
             bits == [i \in 1 .. n |-> TRUE]
  <2>1. t = [storage |-> "masked", type |-> type, nod |-> nod, data |-> data, mask |-> bits]
    BY <1>1 DEF Filled, M!Filled, M!fill, M!Raster, M!NoMask, M!All, M!Cells
  <2>2. /\ data = [i \in 1 .. n |-> data[i]] /\ DOMAIN data = 1 .. n /\ \A i \in 1 .. n : data[i] # None
        /\ bits \in [1 .. n -> BOOLEAN] /\ DOMAIN bits = 1 .. n
    OBVIOUS
  <2> HIDE DEF t, data, bits
  <2>3. t.type = type /\ t.nod = nod /\ t.data = data /\ t.mask = bits /\ t.storage = "masked"
    BY <2>1
  <2>4. Shaped(t, n) /\ Masked(t)
    BY <2>1, <2>2, <2>3 DEF Shaped, Masked
  <2> QED BY <1>1, <2>2, <2>3, <2>4 DEF t
<1>2. CASE storage # "masked"
  <2> DEFINE data == [i \in 1 .. n |-> IF type = "float" THEN NaN ELSE nod]
  <2>1. t = [storage |-> "dense", type |-> type, nod |-> nod, data |-> data]
    BY <1>2 DEF Filled, D!Filled, D!Raster, D!has_nan
  <2>2. /\ data = [i \in 1 .. n |-> data[i]] /\ DOMAIN data = 1 .. n /\ \A i \in 1 .. n : data[i] # None
        /\ \A i \in 1 .. n : data[i] = IF type = "float" THEN NaN ELSE nod
    BY <1>0
  <2> HIDE DEF t, data
  <2>3. t.type = type /\ t.nod = nod /\ t.data = data /\ t.storage = "dense"
    BY <2>1
  <2>4. Shaped(t, n) /\ ~Masked(t)
    BY <2>1, <2>2, <2>3 DEF Shaped, Masked
  <2> QED BY <1>2, <2>2, <2>3, <2>4 DEF t
<1> QED BY <1>1, <1>2

LEMMA RangesFound ==
    ASSUME NEW x \in Number
    PROVE  LET rows == {j \in DOMAIN Ranges : Holds("less", Ranges[j][1], x) /\ Holds("less_equal", x, Ranges[j][2])}
           IN  /\ rows # {} /\ Ranges[Min(rows)][3] # NaN <=> x = 2
               /\ x = 2 => Ranges[Min(rows)][3] = 0
<1> DEFINE rows == {j \in DOMAIN Ranges : Holds("less", Ranges[j][1], x) /\ Holds("less_equal", x, Ranges[j][2])}
<1>0. NaN \notin Int
  BY ElementsAssumption
<1>1. /\ DOMAIN Ranges = 1 .. 3 /\ Ranges[1] = <<0, 1, NaN>> /\ Ranges[2] = <<1, 2, 0>>
      /\ Ranges[3] = <<1, 2, 1>>
  BY DEF Ranges
<1>2. \A j \in 1 .. 3 : j = 1 \/ j = 2 \/ j = 3
  OBVIOUS
<1>3. \A low, high \in Int : Holds("less", low, x) /\ Holds("less_equal", x, high) <=>
                                x \in Int /\ low < x /\ x <= high
  BY <1>0 DEF Holds, Number
<1>4. /\ 1 \in rows <=> x \in Int /\ 0 < x /\ x <= 1
      /\ 2 \in rows <=> x \in Int /\ 1 < x /\ x <= 2
      /\ 3 \in rows <=> x \in Int /\ 1 < x /\ x <= 2
      /\ rows \subseteq 1 .. 3
  BY <1>1, <1>3
<1> HIDE DEF rows
<1>5. /\ 1 \in rows <=> x = 1
      /\ 2 \in rows <=> x = 2
      /\ 3 \in rows <=> x = 2
  BY <1>0, <1>4 DEF Number
<1>6. CASE x = 1
  <2>1. Min(rows) = 1
    BY <1>4, <1>5, <1>6, LeastIs
  <2> QED BY <1>1, <1>6, <2>1 DEF rows
<1>7. CASE x = 2
  <2>1. \A k \in rows : 2 <= k
    BY <1>2, <1>4, <1>5, <1>7
  <2>2. Min(rows) = 2
    BY <1>4, <1>5, <1>7, <2>1, LeastIs
  <2>3. Ranges[Min(rows)][3] = 0 /\ 0 # NaN /\ rows # {}
    BY <1>0, <1>1, <1>5, <1>7, <2>2
  <2> QED BY <1>7, <2>3 DEF rows
<1>8. CASE x \notin {1, 2}
  <2>1. rows = {}
    BY <1>2, <1>4, <1>5, <1>8
  <2> QED BY <1>8, <2>1 DEF rows
<1> QED BY <1>6, <1>7, <1>8

LEMMA RangesHold ==
    ASSUME NEW n, NEW r, Pair(r, r, n), Len(r.data) = n
    PROVE  Agrees(nreclass(Ranges, r), r, r, LAMBDA x, y : IF x = 2 THEN 0 ELSE None)
<1>0. NaN \notin Int /\ None \notin Int /\ NaN # None
  BY ElementsAssumption
<1>1. /\ Shaped(r, n) /\ n \in Nat \ {0} /\ DOMAIN r.data = 1 .. n
      /\ \A i \in 1 .. n : r.data[i] \in Number /\ r.data[i] # None
      /\ \A i \in 1 .. n : Contents(r)[i] = IF IsNodata(r, i) THEN None ELSE r.data[i]
  BY Looks, ShapedIs DEF Pair
<1> DEFINE nod == CASE r.nod # None -> r.nod
                    [] r.nod = None /\ has_nan(r.type) -> NaN
                    [] OTHER -> Modulus - 1
           rows(i) == {j \in DOMAIN Ranges : /\ Holds("less", Ranges[j][1], r.data[i])
                                             /\ Holds("less_equal", r.data[i], Ranges[j][2])}
           found == {i \in 1 .. n : /\ ~IsNodata(r, i) /\ rows(i) # {}
                                    /\ Ranges[Min(rows(i))][3] # NaN}
           t == Filled(r.storage, r.type, nod, n, nod)
           data == [i \in 1 .. n |-> IF i \in found THEN Ranges[Min(rows(i))][3] ELSE t.data[i]]
           bits == [i \in 1 .. n |-> i \notin found]
           u == Having(t, data)
           v == IF Masked(r) THEN MaskedBy(u, bits) ELSE u
<1>2. nod # None
  BY <1>0, ElementsAssumption
<1>3. \A i \in 1 .. n : /\ i \in found <=> Contents(r)[i] = 2
                        /\ i \in found => Ranges[Min(rows(i))][3] = 0
  <2> TAKE i \in 1 .. n
  <2>1. /\ rows(i) # {} /\ Ranges[Min(rows(i))][3] # NaN <=> r.data[i] = 2
        /\ r.data[i] = 2 => Ranges[Min(rows(i))][3] = 0
    BY <1>1, RangesFound
  <2>2. i \in found <=> ~IsNodata(r, i) /\ r.data[i] = 2
    <3> HIDE DEF rows
    <3> QED BY <2>1
  <2> HIDE DEF rows, found
  <2> QED BY <1>0, <1>1, <2>1, <2>2
<1> HIDE DEF nod
<1>4. /\ Shaped(t, n) /\ (Masked(t) <=> Masked(r)) /\ t.type = r.type /\ t.nod = nod
      /\ DOMAIN t.data = 1 .. n
      /\ Masked(t) => DOMAIN t.mask = 1 .. n
      /\ ~Masked(t) => \A i \in 1 .. n : t.data[i] = IF r.type = "float" THEN NaN ELSE nod
  <2> DEFINE storage == r.storage
             type == r.type
             w == Filled(storage, type, nod, n, nod)
  <2>1. t = w /\ (storage = "masked" <=> Masked(r))
    BY DEF Masked
  <2> HIDE DEF storage, t
  <2>2. /\ Shaped(w, n) /\ (Masked(w) <=> storage = "masked") /\ w.type = type /\ w.nod = nod
        /\ DOMAIN w.data = 1 .. n
        /\ Masked(w) => DOMAIN w.mask = 1 .. n
        /\ ~Masked(w) => \A i \in 1 .. n : w.data[i] = IF type = "float" THEN NaN ELSE nod
    <3> HIDE DEF type
    <3> QED BY <1>1, <1>2, EmptyIs
  <2> QED BY <2>1, <2>2
<1>5. \A i \in 1 .. n : t.data[i] # None
  BY <1>4, ShapedIs
<1>6. nreclass(Ranges, r) = v
  <2>1. nreclass(Ranges, r) =
           LET w == [t EXCEPT !.data = [i \in DOMAIN @ |-> IF i \in found THEN Ranges[Min(rows(i))][3] ELSE @[i]]]
           IN  IF Masked(r) THEN [w EXCEPT !.mask = [i \in DOMAIN @ |-> i \notin found]] ELSE w
    BY <1>1 DEF nreclass, nod
  <2> HIDE DEF t, found, rows
  <2>2. u = [t EXCEPT !.data = [i \in DOMAIN @ |-> IF i \in found THEN Ranges[Min(rows(i))][3] ELSE @[i]]]
    BY <1>4 DEF Having
  <2>3. nreclass(Ranges, r) = IF Masked(r) THEN [u EXCEPT !.mask = [i \in DOMAIN @ |-> i \notin found]] ELSE u
    BY <2>1, <2>2
  <2>4. Masked(r) => DOMAIN u.mask = 1 .. n
    <3>1. CASE Masked(r)
      <4>1. t = [storage |-> "masked", type |-> t.type, nod |-> t.nod, data |-> t.data, mask |-> t.mask]
        BY <1>4, <3>1, ShapedIs
      <4>2. u = [storage |-> "masked", type |-> t.type, nod |-> t.nod, data |-> data, mask |-> t.mask]
        BY <4>1 DEF Having
      <4> HIDE DEF u
      <4>3. u.mask = t.mask
        BY <4>2
      <4> QED BY <1>4, <3>1, <4>3
    <3> QED BY <3>1
  <2> HIDE DEF u
  <2> QED BY <2>3, <2>4 DEF MaskedBy
<1>7. Row(data, n) /\ \A i \in 1 .. n : /\ i \in found => data[i] = 0
                                        /\ i \notin found => data[i] = t.data[i]
  <2> HIDE DEF t, found, rows
  <2>1. \A i \in 1 .. n : data[i] = IF i \in found THEN Ranges[Min(rows(i))][3] ELSE t.data[i]
    OBVIOUS
  <2>2. data = [i \in 1 .. n |-> data[i]]
    OBVIOUS
  <2> HIDE DEF data
  <2> QED BY <1>0, <1>3, <1>5, <2>1, <2>2 DEF Row, Listed
<1>8. bits \in [1 .. n -> BOOLEAN] /\ \A i \in 1 .. n : bits[i] <=> i \notin found
  <2> HIDE DEF found
  <2> QED BY Zenon
<1> HIDE DEF t, found, rows, data, bits, u
<1>9. /\ Shaped(u, n) /\ (Masked(u) <=> Masked(t)) /\ u.type = t.type /\ u.nod = t.nod
      /\ u.data = data
  BY <1>4, <1>7, WithData DEF u
<1>10. /\ Shaped(v, n) /\ (Masked(v) <=> Masked(r)) /\ v.type = r.type /\ v.nod = nod /\ v.data = data
       /\ Masked(v) => v.mask = bits
  <2>1. CASE Masked(r)
    <3>1. v = MaskedBy(u, bits)
      BY <2>1
    <3> QED BY <1>4, <1>8, <1>9, <2>1, <3>1, WithMask
  <2>2. CASE ~Masked(r)
    BY <1>4, <1>9, <2>2
  <2> QED BY <2>1, <2>2
<1> HIDE DEF v
<1>11. ASSUME NEW i \in 1 .. n
       PROVE  Shown(v, r, r, i, Contents(r)[i], Contents(r)[i], IF Contents(r)[i] = 2 THEN 0 ELSE None)
  <2> DEFINE w == IF Contents(r)[i] = 2 THEN 0 ELSE None
  <2>1. /\ Masked(v) => (IsNodata(v, i) <=> i \notin found) /\ (Missing(v, i) <=> i \notin found)
    <3>1. bits # <<>>
      BY <1>1, <1>8, MaskOrNone
    <3> QED BY <1>8, <1>10, <3>1, Looks
  <2>2. ~Masked(v) /\ i \notin found => Missing(v, i)
    BY <1>2, <1>4, <1>7, <1>10, Looks
  <2>3. Optional(v)[i] = IF Missing(v, i) THEN None ELSE v.data[i]
    BY <1>10, Looks
  <2>4. \/ w = v.data[i] /\ (Masked(v) => ~IsNodata(v, i))
        \/ w = Optional(v)[i]
    <3>1. CASE i \in found
      BY <1>3, <1>7, <1>10, <2>1, <3>1
    <3>2. CASE i \notin found
      BY <1>3, <2>1, <2>2, <2>3, <3>2
    <3> QED BY <3>1, <3>2
  <2> HIDE DEF w
  <2>5. Shown(v, r, r, i, Contents(r)[i], Contents(r)[i], w)
    BY <1>10, <2>4, ElementShown
  <2> QED BY <2>5 DEF w
<1> QED BY <1>1, <1>6, <1>11 DEF Agrees, Shown

LEMMA TablesHold ==
    ASSUME RasterOK(raster), NEW s \in Others
    PROVE  TablesAgree(raster, s)
<1> DEFINE n == Len(raster.data)
           r == raster
           absent(x) == x \in {None, NoKey}
<1>1. Pair(r, s, n) /\ Pair(r, r, n) /\ Len(r.data) = n
  BY PairIs
<1> HIDE DEF n
<1>2. ASSUME NEW type \in {"int", "float"}
      PROVE  /\ Agrees(reclass_to(OfOne, <<r>>, type), r, r,
                       LAMBDA x, y : CASE absent(x) -> 7 [] x = 2 -> 5 [] OTHER -> None)
             /\ Agrees(reclass_to(OfTwo, <<r, s>>, type), r, s,
                       LAMBDA x, y : CASE absent(x) /\ absent(y) -> 7
                                       [] x = 1 /\ absent(y) -> 5
                                       [] x = 2 /\ y = 1 -> 6
                                       [] OTHER -> None)
             /\ Agrees(reclass_to(OfThree, <<r, s, r>>, type), r, s,
                       LAMBDA x, y : IF absent(x) /\ y = 1 THEN 5 ELSE None)
  <2>1. Agrees(reclass_to(OfOne, <<r>>, type), r, r, OneWanted)
    BY <1>1, <1>2, OneTableHolds DEF Agrees
  <2>2. Agrees(reclass_to(OfTwo, <<r, s>>, type), r, s, TwoWanted)
    BY <1>1, <1>2, TwoTableHolds DEF Agrees
  <2>3. Agrees(reclass_to(OfThree, <<r, s, r>>, type), r, s, ThreeWanted)
    BY <1>1, <1>2, ThreeTableHolds DEF Agrees
  <2> QED BY <2>1, <2>2, <2>3 DEF Agrees, OneWanted, TwoWanted, ThreeWanted
<1>3. Agrees(nreclass(Ranges, r), r, r, LAMBDA x, y : IF x = 2 THEN 0 ELSE None)
  BY <1>1, RangesHold
<1> QED BY <1>2, <1>3 DEF TablesAgree

\* Every algorithm on one cell at a time tells the same of the same contents, in
\* whatever storage the raster is and whatever calls made it.
LEMMA AlgorithmsHold == RasterOK(raster) => AlgorithmsAgree
<1> SUFFICES ASSUME RasterOK(raster) PROVE AlgorithmsAgree
  OBVIOUS
<1>1. Pair(raster, raster, Len(raster.data))
  BY PairIs
<1>2. ReplacementsAgree(raster) /\ SummariesAgree(raster)
  BY <1>1, ReplacementsHold, SummariesHold
<1>3. \A s \in Others : MasksAgree(raster, s)
  BY PairIs, MasksHold
<1> QED BY <1>2, <1>3, ConditionsHold, CombinationsHold, TablesHold DEF AlgorithmsAgree

\* Masks, conditions, replacements, combinations, summaries and tables tell the same
\* of the same contents, whatever calls made the raster, in whatever storage, of any
\* number of cells: a cell of the result is what the contents of the cells say, or
\* what the elements say where the algorithm reads those.
THEOREM AlgorithmsAlike == Spec => []AlgorithmsAgree
BY Invariance, AlgorithmsHold, PTL

-----------------------------------------------------------------------------
(* The FiLo: arithmetic around the end of the vector                       *)

LEMMA SlotsPositive == Slots \in Nat /\ Slots >= 1
<1>1. NumRows * NumCols \in Nat
  BY FiLoAssumption
<1> QED  BY <1>1 DEF Slots

LEMMA WrappedAround ==
  ASSUME NEW n \in Nat \ {0}, NEW i \in 0 .. n - 1, NEW k \in 0 .. n - 1
  PROVE  /\ (i + k) % n \in 0 .. n - 1
         /\ (i + k) % n = IF i + k < n THEN i + k ELSE i + k - n
OBVIOUS

LEMMA Gap ==
  ASSUME NEW n \in Nat \ {0}, NEW i \in 0 .. n - 1, NEW j \in 0 .. n - 1
  PROVE  /\ (j + n - i) % n \in 0 .. n - 1
         /\ (j + n - i) % n = IF i <= j THEN j - i ELSE j + n - i
<1>1. CASE i <= j
  <2>1. (j + n - i) % n = j - i
    BY <1>1
  <2> QED  BY <1>1, <2>1
<1>2. CASE j < i
  BY <1>2
<1> QED  BY <1>1, <1>2

(* The slot k places after an index. *)
LEMMA SlotAfter ==
  ASSUME NEW i \in 0 .. Slots - 1, NEW k \in 0 .. Slots - 1
  PROVE  /\ (i + k) % Slots \in 0 .. Slots - 1
         /\ (i + k) % Slots = IF i + k < Slots THEN i + k ELSE i + k - Slots
<1>1. Slots \in Nat \ {0}
  BY SlotsPositive
<1> QED  BY Zenon, <1>1, WrappedAround

LEMMA SizeOf ==
  ASSUME head \in 0 .. Slots - 1, tail \in 0 .. Slots - 1
  PROVE  /\ size = IF head <= tail THEN tail - head ELSE tail + Slots - head
         /\ size \in 0 .. Slots - 1
         /\ size = 0 <=> empty
<1>1. Slots \in Nat \ {0}
  BY SlotsPositive
<1>2. /\ size \in 0 .. Slots - 1
      /\ size = IF head <= tail THEN tail - head ELSE tail + Slots - head
  BY Zenon, <1>1, Gap DEF size
<1> QED  BY <1>1, <1>2 DEF empty

LEMMA QueuedType ==
  ASSUME RingOK
  PROVE  /\ Queued \in Seq(Elem \cup {Blank})
         /\ Len(Queued) = size
         /\ \A i \in 1 .. size : Queued[i] = filo[(head + (i - 1)) % Slots]
<1>1. size \in Nat /\ size \in 0 .. Slots - 1
  BY SizeOf, SlotsPositive DEF RingOK
<1>2. ASSUME NEW i \in 1 .. size
      PROVE  /\ (head + i - 1) % Slots = (head + (i - 1)) % Slots
             /\ (head + (i - 1)) % Slots \in 0 .. Slots - 1
  <2>1. i - 1 \in 0 .. Slots - 1 /\ head \in 0 .. Slots - 1
    BY <1>1, SlotsPositive DEF RingOK
  <2>2. head + i - 1 = head + (i - 1)
    BY <2>1, SlotsPositive
  <2> QED  BY <2>1, <2>2, SlotAfter
<1>3. \A i \in 1 .. size : filo[(head + i - 1) % Slots] \in Elem \cup {Blank}
  BY <1>2 DEF RingOK
<1>4. Queued \in [1 .. size -> Elem \cup {Blank}]
  BY <1>3 DEF Queued
<1>5. Queued \in Seq(Elem \cup {Blank}) /\ Len(Queued) = size
  BY <1>1, <1>4
<1> QED  BY <1>5, <1>2 DEF Queued

LEMMA NothingQueued ==
  ASSUME RingOK, empty
  PROVE  Queued = <<>>
<1>1. size = 0
  BY SizeOf DEF RingOK
<1> QED  BY <1>1, QueuedType, EmptySeq

-----------------------------------------------------------------------------
(* Types                                                                   *)

LEMMA RingTypeInit == RingInit => RingOK
<1> SUFFICES ASSUME RingInit PROVE RingOK
  OBVIOUS
<1>1. 0 \in 0 .. Slots - 1
  BY SlotsPositive
<1>2. thrown \in BOOLEAN
  BY Zenon DEF RingInit
<1>3. filo \in [0 .. Slots - 1 -> Elem \cup {Blank}]
  BY DEF RingInit
<1> QED  BY <1>1, <1>2, <1>3 DEF RingInit, RingOK

LEMMA RingTypeNext == RingOK /\ [RingNext]_ringVars => RingOK'
<1> SUFFICES ASSUME RingOK, [RingNext]_ringVars PROVE RingOK'
  OBVIOUS
<1> USE DEF RingOK
<1>a. Slots \in Nat /\ Slots >= 1
  BY SlotsPositive
<1>b. ASSUME NEW i \in 0 .. Slots - 1 PROVE (i + 1) % Slots \in 0 .. Slots - 1
  BY <1>a
<1>1. CASE clear
  BY <1>1, <1>a DEF clear
<1>2. CASE pop_head
  <2>1. head' \in 0 .. Slots - 1
    BY <1>2, <1>b DEF pop_head
  <2> QED  BY <1>2, <2>1 DEF pop_head
<1>3. ASSUME NEW value \in Elem, push_back(value) PROVE RingOK'
  <2>1. tail' \in 0 .. Slots - 1
    BY <1>3, <1>b DEF push_back
  <2>2. filo' \in [0 .. Slots - 1 -> Elem \cup {Blank}]
    BY <1>3 DEF push_back
  <2>3. thrown' \in BOOLEAN
    BY Zenon, <1>3 DEF push_back
  <2> QED  BY <1>3, <2>1, <2>2, <2>3 DEF push_back
<1>4. CASE UNCHANGED ringVars
  BY <1>4 DEF ringVars
<1> QED  BY <1>1, <1>2, <1>3, <1>4 DEF RingNext

(* The indices stay inside the vector, whatever calls are made and however *)
(* often they wrap around: no access of FiLo is out of bounds.             *)
THEOREM RingTypeCorrect == RingSpec => []RingOK
<1> QED  BY RingTypeInit, RingTypeNext, PTL DEF RingSpec

-----------------------------------------------------------------------------
(* Refinement: each call maps to the call of the abstract queue            *)

(* What head, tail and filo say about the queue. *)
QueueFacts ==
  /\ Queued \in Seq(Elem \cup {Blank})
  /\ Len(Queued) = size
  /\ \A i \in 1 .. size : Queued[i] = filo[(head + (i - 1)) % Slots]
  /\ size = IF head <= tail THEN tail - head ELSE tail + Slots - head
  /\ size \in 0 .. Slots - 1
  /\ empty => Queued = <<>>

LEMMA FactsNow == RingOK => QueueFacts
BY QueuedType, SizeOf, NothingQueued DEF RingOK, QueueFacts

LEMMA FactsNext == RingOK' => QueueFacts'
BY FactsNow, PTL

LEMMA QueuedNext ==
  ASSUME RingOK'
  PROVE  /\ Queued' \in Seq(Elem \cup {Blank})
         /\ Len(Queued') = size'
         /\ \A i \in 1 .. size' : Queued'[i] = filo'[(head' + (i - 1)) % Slots]
         /\ size' = IF head' <= tail' THEN tail' - head' ELSE tail' + Slots - head'
         /\ size' \in 0 .. Slots - 1
         /\ empty' => Queued' = <<>>
BY FactsNext DEF QueueFacts

LEMMA ClearStep ==
  ASSUME RingOK, clear, RingOK'
  PROVE  Fifo!Clear
<1>1. empty'
  BY DEF clear, empty
<1>2. Queued' = <<>>
  BY <1>1, QueuedNext
<1> QED  BY <1>2 DEF Fifo!Clear, clear

(* Into a queue with room the value is appended. *)
LEMMA AppendStep ==
  ASSUME RingOK, NEW value \in Elem, push_back(value), RingOK', size < Slots - 1
  PROVE  tail' # head /\ Queued' = Append(Queued, value)
<1>a. Slots \in Nat /\ Slots >= 1 /\ head \in 0 .. Slots - 1 /\ tail \in 0 .. Slots - 1
  BY SlotsPositive DEF RingOK
<1>1. tail' = IF tail + 1 < Slots THEN tail + 1 ELSE tail + 1 - Slots
  <2>1. 1 \in 0 .. Slots - 1
    BY <1>a, SizeOf
  <2> QED  BY <1>a, <2>1, SlotAfter DEF push_back
<1>2. /\ size = IF head <= tail THEN tail - head ELSE tail + Slots - head
      /\ size \in 0 .. Slots - 1
  BY <1>a, SizeOf
<1>3. tail' # head
  BY <1>a, <1>1, <1>2
<1>4. head' = head /\ filo' = [filo EXCEPT ![tail] = value]
  BY DEF push_back
<1>5. size' = size + 1
  BY <1>a, <1>1, <1>2, <1>4, QueuedNext
<1>6. ASSUME NEW i \in 1 .. size PROVE Queued'[i] = Queued[i]
  <2>1. i - 1 \in 0 .. Slots - 1
    BY <1>a, <1>2
  <2>2. /\ (head + (i - 1)) % Slots \in 0 .. Slots - 1
        /\ (head + (i - 1)) % Slots # tail
    <3> DEFINE k == i - 1
    <3>1. /\ (head + k) % Slots \in 0 .. Slots - 1
          /\ (head + k) % Slots = IF head + k < Slots THEN head + k ELSE head + k - Slots
      BY Zenon, <1>a, <2>1, SlotAfter
    <3>2. k \in Int /\ 0 <= k /\ k < size
      BY <1>2
    <3> HIDE DEF k
    <3> QED  BY <1>a, <1>2, <3>1, <3>2
  <2>3. filo'[(head + (i - 1)) % Slots] = filo[(head + (i - 1)) % Slots]
    BY <1>4, <2>2 DEF RingOK
  <2>4. i \in 1 .. size'
    BY <1>2, <1>5
  <2> QED  BY <1>4, <2>3, <2>4, QueuedType, QueuedNext
<1>7. Queued'[size + 1] = value
  <2>1. (head + size) % Slots = tail
    <3>1. (head + size) % Slots
            = IF head + size < Slots THEN head + size ELSE head + size - Slots
      BY Zenon, <1>a, <1>2, SlotAfter
    <3> QED  BY <1>a, <1>2, <3>1
  <2>2. size + 1 \in 1 .. size' /\ (size + 1) - 1 = size
    BY <1>2, <1>5
  <2>3. Queued'[size + 1] = filo'[(head + size) % Slots]
    BY <1>4, <2>2, QueuedNext
  <2> QED  BY <1>4, <1>a, <2>1, <2>3 DEF RingOK
<1> DEFINE appended == Append(Queued, value)
<1>8. /\ appended \in Seq(Elem \cup {Blank}) /\ Len(appended) = size + 1
      /\ \A i \in 1 .. size : appended[i] = Queued[i]
      /\ appended[size + 1] = value
  BY QueuedType
<1>9. \A i \in 1 .. size + 1 : Queued'[i] = appended[i]
  BY <1>2, <1>6, <1>7, <1>8
<1>10. Queued' = appended
  <2> HIDE DEF appended
  <2> QED  BY <1>5, <1>8, <1>9, QueuedNext, SeqEqual
<1> QED  BY <1>3, <1>10

LEMMA PushBackStep ==
  ASSUME RingOK, NEW value \in Elem, push_back(value), RingOK'
  PROVE  Fifo!PushBack(value)
<1>a. Slots \in Nat /\ Slots - 1 = NumRows * NumCols /\ size \in 0 .. Slots - 1
  <2>1. NumRows * NumCols \in Nat
    BY FiLoAssumption
  <2> QED  BY <2>1, SizeOf DEF RingOK, Slots
<1>b. Fifo!HasRoom <=> size < Slots - 1
  BY <1>a, QueuedType DEF Fifo!HasRoom
<1>c. UNCHANGED popped /\ thrown' = (thrown \/ tail' = head)
  BY DEF push_back
<1>1. CASE size < Slots - 1
  <2>1. tail' # head /\ Queued' = Append(Queued, value)
    BY <1>1, AppendStep
  <2>2. thrown' = thrown
    BY Zenon, <1>c, <2>1 DEF RingOK
  <2> QED  BY <1>1, <1>b, <1>c, <2>1, <2>2 DEF Fifo!PushBack
<1>2. CASE ~(size < Slots - 1)
  <2>1. tail' = head /\ head' = head
    <3>1. /\ head \in 0 .. Slots - 1 /\ tail \in 0 .. Slots - 1
          /\ size = IF head <= tail THEN tail - head ELSE tail + Slots - head
      BY SizeOf DEF RingOK
    <3>2. size = Slots - 1
      BY <1>a, <1>2
    <3>3. CASE Slots = 1
      <4>1. tail' \in 0 .. Slots - 1
        BY DEF RingOK
      <4> QED  BY <3>1, <3>3, <4>1 DEF push_back
    <3>4. CASE Slots # 1
      <4>1. 1 \in 0 .. Slots - 1
        BY <1>a, <3>1, <3>4
      <4>2. tail' = IF tail + 1 < Slots THEN tail + 1 ELSE tail + 1 - Slots
        BY <3>1, <4>1, SlotAfter DEF push_back
      <4> QED  BY <1>a, <3>1, <3>2, <4>2 DEF push_back
    <3> QED  BY <3>3, <3>4
  <2>2. Queued' = <<>>
    BY <2>1, QueuedNext DEF empty
  <2>3. thrown' = TRUE
    BY Zenon, <1>c, <2>1
  <2> QED  BY <1>2, <1>b, <1>c, <2>2, <2>3 DEF Fifo!PushBack
<1> QED  BY <1>1, <1>2

LEMMA PopHeadStep ==
  ASSUME RingOK, pop_head, RingOK'
  PROVE  Fifo!PopHead
<1>a. /\ Slots \in Nat /\ Slots >= 1
      /\ head \in 0 .. Slots - 1 /\ tail \in 0 .. Slots - 1
      /\ size = IF head <= tail THEN tail - head ELSE tail + Slots - head
      /\ size \in 0 .. Slots - 1 /\ size # 0
  BY SlotsPositive, SizeOf DEF RingOK, pop_head
<1>b. 1 \in 0 .. Slots - 1
  BY <1>a
<1>1. head' = IF head + 1 < Slots THEN head + 1 ELSE head + 1 - Slots
  BY <1>a, <1>b, SlotAfter DEF pop_head
<1>2. tail' = tail /\ filo' = filo /\ popped' = filo[head] /\ UNCHANGED thrown
  BY DEF pop_head
<1>3. size' = size - 1
  BY <1>a, <1>1, <1>2, QueuedNext
<1>4. Queued # <<>>
  BY <1>a, QueuedType
<1>5. popped' = Head(Queued)
  <2>1. 1 \in 1 .. size /\ head + (1 - 1) = head /\ 0 \in 0 .. Slots - 1
    BY <1>a
  <2>2. (head + 0) % Slots = head
    <3>1. (head + 0) % Slots = IF head + 0 < Slots THEN head + 0 ELSE head + 0 - Slots
      BY Zenon, <1>a, <2>1, SlotAfter
    <3> QED  BY <1>a, <3>1
  <2>3. Queued[1] = filo[head]
    BY <1>a, <2>1, <2>2, QueuedType
  <2> QED  BY <1>2, <1>4, <2>3, QueuedType
<1>6. ASSUME NEW i \in 1 .. size - 1 PROVE Queued'[i] = Queued[i + 1]
  <2>1. i \in 1 .. size' /\ i + 1 \in 1 .. size /\ (i + 1) - 1 = i
    BY <1>a, <1>3
  <2>2. i - 1 \in 0 .. Slots - 1 /\ i \in 0 .. Slots - 1 /\ head' \in 0 .. Slots - 1
    BY <1>a DEF RingOK
  <2>3. (head' + (i - 1)) % Slots = (head + i) % Slots
    <3>1. (head + i) % Slots = IF head + i < Slots THEN head + i ELSE head + i - Slots
      BY <1>a, <2>2, SlotAfter
    <3>2. (head' + (i - 1)) % Slots
            = IF head' + (i - 1) < Slots THEN head' + (i - 1) ELSE head' + (i - 1) - Slots
      BY <2>2, SlotAfter
    <3> QED  BY <1>a, <1>1, <2>2, <3>1, <3>2
  <2>4. Queued'[i] = filo'[(head' + (i - 1)) % Slots]
    BY <2>1, QueuedNext
  <2>5. Queued[i + 1] = filo[(head + i) % Slots]
    BY <2>1, QueuedType
  <2> QED  BY <1>2, <2>3, <2>4, <2>5
<1>7. Queued' = Tail(Queued)
  <2> DEFINE rest == Tail(Queued)
  <2>1. /\ rest \in Seq(Elem \cup {Blank}) /\ Len(rest) = size - 1
        /\ \A i \in 1 .. size - 1 : rest[i] = Queued[i + 1]
    BY <1>4, QueuedType
  <2>2. \A i \in 1 .. size - 1 : Queued'[i] = rest[i]
    BY <1>6, <2>1
  <2>3. Len(Queued') = Len(rest) /\ \A i \in 1 .. Len(Queued') : Queued'[i] = rest[i]
    BY <1>3, <2>1, <2>2, QueuedNext
  <2>4. Queued' = rest
    <3> HIDE DEF rest
    <3> QED  BY <2>1, <2>3, QueuedNext, SeqEqual
  <2> QED  BY <2>4
<1> QED  BY <1>2, <1>4, <1>5, <1>7 DEF Fifo!PopHead

(* For every size of raster and every sequence of calls the ring buffer is *)
(* a bounded first-in first-out queue (clusterutils.h:23-75): each of its  *)
(* steps is a step of BoundedFifo.                                         *)
THEOREM RingIsFifo == RingSpec => ImplementsFifo
<1>1. RingInit => Fifo!Init
  <2> SUFFICES ASSUME RingInit PROVE Fifo!Init
    OBVIOUS
  <2>1. Queued = <<>>
    BY RingTypeInit, NothingQueued DEF RingInit, empty
  <2> QED  BY <2>1 DEF RingInit, Fifo!Init
<1>2. RingOK /\ RingOK' /\ [RingNext]_ringVars => [Fifo!Next]_<<Queued, thrown, popped>>
  <2> SUFFICES ASSUME RingOK, RingOK', [RingNext]_ringVars
               PROVE  [Fifo!Next]_<<Queued, thrown, popped>>
    OBVIOUS
  <2>1. CASE clear
    BY <2>1, ClearStep DEF Fifo!Next
  <2>2. CASE pop_head
    BY <2>2, PopHeadStep DEF Fifo!Next
  <2>3. ASSUME NEW value \in Elem, push_back(value) PROVE Fifo!Next
    BY <2>3, PushBackStep DEF Fifo!Next
  <2>4. CASE UNCHANGED ringVars
    BY <2>4 DEF ringVars, Queued, size
  <2> QED  BY <2>1, <2>2, <2>3, <2>4 DEF RingNext
<1> QED  BY <1>1, <1>2, RingTypeCorrect, PTL DEF RingSpec, ImplementsFifo, Fifo!Spec
=============================================================================
