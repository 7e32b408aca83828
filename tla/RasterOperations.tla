-------------------------- MODULE RasterOperations --------------------------
(***************************************************************************)
(* The calls that make a raster or a report out of one or two rasters:     *)
(* the operators of the storages and of the type-erased Raster (raster.h,  *)
(* a variant over MaskedRaster), rastercompare.h, rasterdiff.h and cast.h. *)
(* They are evaluated on every raster that RasterStorage.tla can reach.    *)
(***************************************************************************)
EXTENDS RasterStorage, FiniteSets

Predicates == {"equal_to", "not_equal_to", "greater", "greater_equal", "less",
               "less_equal", "logical_and", "logical_or"}

\* Raster: &&, || and == take rasters of two types, the others throw.  The
\* result of == has its own function.
MayCompare(r, s, pred) ==
    pred \in {"equal_to", "logical_and", "logical_or"} \/ r.type = s.type

Compared(r, s, pred) ==
    CASE Masked(r) /\ pred = "equal_to" -> M!equals(r, s)
      [] Masked(r) /\ pred # "equal_to" -> M!perform_binary_operation(r, s, pred)
      [] ~Masked(r) /\ pred = "equal_to" -> D!equals(r, s)
      [] OTHER -> D!perform_binary_operation(r, s, pred)

ComparedToScalar(r, pred, v) ==
    IF Masked(r) THEN M!perform_unary_operation(r, pred, v)
    ELSE D!perform_unary_operation(r, pred, v)

Inverted(r) == IF Masked(r) THEN M!Not(r) ELSE D!Not(r)

Combined(r, s, op) ==
    IF Masked(r) THEN M!perform_raster_operation(r, s, op)
    ELSE D!perform_raster_operation(r, s, op)

WithScalar(r, op, v) ==
    IF Masked(r) THEN M!perform_scalar_operation(r, op, v)
    ELSE D!perform_scalar_operation(r, op, v)

ScalarMinus(v, r) == IF Masked(r) THEN M!ScalarMinus(v, r) ELSE D!ScalarMinus(v, r)
ScalarDivided(v, r) == IF Masked(r) THEN M!ScalarDivided(v, r) ELSE D!ScalarDivided(v, r)
MayDivideScalar(r) == IF Masked(r) THEN M!MayDivideScalar(r) ELSE D!MayDivideScalar(r)

Minus(r) == IF Masked(r) THEN M!Minus(r) ELSE D!Minus(r)

equal_to(r, s) == IF Masked(r) THEN M!equal_to(r, s) ELSE D!equal_to(r, s)

-----------------------------------------------------------------------------
(* rastercompare.h and rasterdiff.h, up to the tolerance of floats *)

\* The bytes of isClose: it keeps the metadata of its first raster.
isClose(r, s) ==
    [i \in DOMAIN r.data |->
        IF IsNodata(r, i) \/ IsNodata(s, i) THEN Bool(IsNodata(r, i) = IsNodata(s, i))
        ELSE Bool(Holds("equal_to", r.data[i], s.data[i]))]

\* What diff_rasters counts a cell as; of a cell without data in both nothing.
diff_value(x, y) ==
    CASE Holds("equal_to", x, y) -> "equal"
      [] x = 0 /\ y # 0 -> "zeroToNonZero"
      [] x # 0 /\ y = 0 -> "nonZeroToZero"
      [] OTHER -> "dataDifference"

DiffClass(r, s, i) ==
    CASE IsNodata(r, i) /\ IsNodata(s, i) -> "none"
      [] IsNodata(r, i) /\ ~IsNodata(s, i) -> IF s.data[i] = 0 THEN "nodataToZero" ELSE "nodataToNonZero"
      [] ~IsNodata(r, i) /\ IsNodata(s, i) -> IF r.data[i] = 0 THEN "zeroToNodata" ELSE "nonZeroToNodata"
      [] OTHER -> diff_value(r.data[i], s.data[i])

different_cells(r, s) ==
    Cardinality({i \in DOMAIN r.data : DiffClass(r, s, i) \notin {"none", "equal"}})

-----------------------------------------------------------------------------
(* Properties *)

\* The in-band numbers that can show in a result t of r and s.
NumbersIn(r, s, t) == InBandNumbers(r) \cup InBandNumbers(s) \cup InBandNumbers(t)

Constant(r, v) == [i \in DOMAIN r.data |-> v]

\* t is r op s for the contents left and right of r and s.
Computes(t, op, left, right, numbers) ==
    \A i \in DOMAIN t.data :
        Promise!Kept([op |-> op, type |-> t.type, other |-> right, numbers |-> numbers],
                     i, left[i], Contents(t)[i])

\* Every operator of arithmetic, vector instructions or not, masked or not, on
\* one type or two, makes nodata of nodata, of a division by zero, and of
\* nothing else but an element equal to the number of the result.  Two of a
\* dense raster are left out: a scalar divided by integers (ScalarDivided), and
\* a scalar minus floats one of which is data and equal to the number
\* (minus_scalar_first returns it as it is).
OperatorsContagious ==
    LET r == raster
        scalars == ElementsOf(r.type) \ {NaN}
    IN  /\ \A s \in Others, op \in Arithmetics :
              LET t == Combined(r, s, op)
              IN  Computes(t, op, Contents(r), Contents(s), NumbersIn(r, s, t))
        /\ \A v \in scalars, op \in Arithmetics : (op = "divides" => v # 0) =>
              LET t == WithScalar(r, op, v)
              IN  Computes(t, op, Contents(r), Constant(r, v), NumbersIn(r, r, t))
        /\ \A v \in scalars :
              /\ Masked(r) \/ ~has_nan(r.type) \/ r.nod = NaN \/ (\A i \in DOMAIN r.data : r.data[i] # r.nod) =>
                    LET t == ScalarMinus(v, r)
                    IN  Computes(t, "minus", Constant(r, v), Contents(r), NumbersIn(r, r, t))
              /\ MayDivideScalar(r) /\ (Masked(r) \/ has_nan(r.type)) =>
                    LET t == ScalarDivided(v, r)
                    IN  Computes(t, "divides", Constant(r, v), Contents(r), NumbersIn(r, r, t))
        /\ has_nan(r.type) =>
              Computes(Minus(r), "minus", Constant(r, 0), Contents(r), NumbersIn(r, r, r))

\* A byte z is what pred says of contents x and y, or 255 for nothing.
Tells(z, pred, x, y, numbers) ==
    \E xRead \in Promise!AsRead(x, numbers), yRead \in Promise!AsRead(y, numbers) :
        LET told == Promise!Comparison(pred, xRead, yRead)
        IN  z = IF told = None THEN ByteMax ELSE told

\* Every comparison has a byte of 0 or 1 where both sides are data, of what the
\* predicate says, and nodata elsewhere.  (The predicates of a dense raster do
\* not look for the number of one of integers beside one of float.)
ComparisonsContagious ==
    LET r == raster
        bytes(t, i) == IF IsNodata(t, i) THEN ByteMax ELSE t.data[i]
    IN  /\ \A s \in Others, pred \in Predicates :
              MayCompare(r, s, pred) /\ (Masked(r) \/ r.type = s.type \/ pred = "equal_to") =>
                  LET t == Compared(r, s, pred)
                  IN  \A i \in DOMAIN r.data :
                        Tells(bytes(t, i), pred, Contents(r)[i], Contents(s)[i], NumbersIn(r, s, r))
        /\ \A v \in ElementsOf(r.type) \ {NaN}, pred \in Predicates \ {"logical_and", "logical_or"} :
              LET t == ComparedToScalar(r, pred, v)
              IN  \A i \in DOMAIN r.data :
                    Tells(bytes(t, i), pred, Contents(r)[i], v, InBandNumbers(r))
        /\ \A i \in DOMAIN r.data :
              Tells(bytes(Inverted(r), i), "equal_to", Contents(r)[i], 0, InBandNumbers(r))

\* Three comparisons of two rasters agree: diff_rasters counts as different the
\* cells that isClose gives a 0, and operator== is true if there are none.
ReportsAgree == \A s \in Others :
    /\ different_cells(raster, s) = Cardinality({i \in DOMAIN raster.data : isClose(raster, s)[i] = 0})
    /\ equal_to(raster, s) <=> different_cells(raster, s) = 0

\* Whatever compares two rasters, by predicates (nodatapredicates-private.h), by
\* tolerance (rastercompare.h) or in a report (rasterdiff.h), treats nodata alike.
ComparisonsAgree == ComparisonsContagious /\ ReportsAgree
=============================================================================
