------------------------------ MODULE Elements ------------------------------
(***************************************************************************)
(* The elements of a raster and the functions on one or two of them that   *)
(* the storages are built from: arithmetic at the width of the type,       *)
(* nodata_for_type and find_best_nodata_value (rasterutils-private.h), the *)
(* predicates with a result of uint8_t (nodatapredicates-private.h).       *)
(*                                                                         *)
(* Three types stand for those of C++: "uint" is an unsigned integer of    *)
(* Modulus values (uint32_t: wide enough for no promotion to int), "float" *)
(* has a NaN, and "byte" is the uint8_t of the results of comparisons.  A  *)
(* float is an integer here; a quotient that is none is a number above     *)
(* all of them, one for each numerator and denominator below Fraction.     *)
(***************************************************************************)
EXTENDS Integers, Sequences

CONSTANTS
    NaN,        \* std::numeric_limits<float>::quiet_NaN()
    None,       \* an std::optional without value
    Modulus     \* the number of values of "uint"

ASSUME ElementsAssumption == /\ NaN \notin Int
                             /\ None \notin Int
                             /\ NaN # None
                             /\ Modulus \in Nat \ {0}

has_nan(type) == type = "float"

\* What a byte holds for nodata, and for true and false.
ByteMax == 255
Bool(b) == IF b THEN 1 ELSE 0

nodata_for_type(type) == IF has_nan(type) THEN NaN ELSE 0

fits_in_type(type, x) ==
    CASE type = "uint" -> x # NaN /\ x \in 0..(Modulus - 1)
      [] type = "byte" -> x # NaN /\ x \in 0..ByteMax
      [] OTHER -> TRUE

\* The nodata of the result of an operation on rasters with these two.
find_best_nodata_value(type, nod1, nod2) ==
    LET fits(nod) == nod # None /\ fits_in_type(type, nod)
    IN  CASE fits(nod1) -> nod1
          [] ~fits(nod1) /\ fits(nod2) -> nod2
          [] OTHER -> nodata_for_type(type)

\* decltype(Predicate()(T(), TOther()))
Widest(type1, type2) == IF has_nan(type1) THEN type1 ELSE type2

Fraction == 100
Quotient(type, x, y) ==
    IF type = "uint" \/ x % y = 0 THEN x \div y ELSE Fraction * x + y

\* std::plus and its siblings on two elements of a type.  A NaN is contagious,
\* an integer wraps around.  No divisor is zero where this is used.
Compute(type, op, x, y) ==
    IF NaN \in {x, y} THEN NaN
    ELSE LET z == CASE op = "plus" -> x + y
                    [] op = "minus" -> x - y
                    [] op = "multiplies" -> x * y
                    [] op = "divides" -> Quotient(type, x, y)
         IN  IF type = "uint" THEN z % Modulus ELSE z

Negated(type, x) == IF x = NaN THEN NaN ELSE -x

\* std::greater and its siblings; every comparison with a NaN but != fails.
Holds(pred, x, y) ==
    CASE pred = "not_equal_to" -> x # y \/ x = NaN
      [] pred = "logical_and" -> x # 0 /\ y # 0
      [] pred = "logical_or" -> x # 0 \/ y # 0
      [] OTHER -> /\ NaN \notin {x, y}
                  /\ CASE pred = "equal_to" -> x = y
                       [] pred = "greater" -> x > y
                       [] pred = "greater_equal" -> x >= y
                       [] pred = "less" -> x < y
                       [] pred = "less_equal" -> x <= y

\* Mutant: nodata of the second raster is overlooked.
binary_resultOfFirst(type, pred, nod1, nod2, x, y) ==
    IF (has_nan(type) /\ NaN \in {x, y}) \/ (~has_nan(type) /\ x = nod1)
    THEN ByteMax ELSE Bool(Holds(pred, x, y))

\* raster_operation_binary_result: its specialisation for types with a NaN does
\* not look at the numbers of the metadata.
binary_result(type, pred, nod1, nod2, x, y) ==
    IF \/ has_nan(type) /\ NaN \in {x, y}
       \/ ~has_nan(type) /\ (x = nod1 \/ y = nod2)
    THEN ByteMax ELSE Bool(Holds(pred, x, y))

\* unary_raster_operation_binary_result, of which logical_not is the only one
logical_not(type, nod, x) ==
    IF x = (IF has_nan(type) THEN NaN ELSE nod) THEN ByteMax ELSE Bool(x = 0)

\* unary_raster_operation with std::negate
negate(type, nod, x) ==
    IF ~has_nan(type) /\ x = nod THEN nod ELSE Negated(type, x)

\* minus_scalar_first: the scalar minus the element, for every type by number
minus_scalar_first(type, nod, scalar, x) ==
    IF x = nod THEN nod ELSE Compute(type, "minus", scalar, x)
=============================================================================
