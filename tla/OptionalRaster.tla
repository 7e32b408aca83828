--------------------------- MODULE OptionalRaster ---------------------------
(***************************************************************************)
(* What the storages of rasters promise: a raster is a row of cells, and a *)
(* cell is a number or nothing.  The comments above the members of         *)
(* denseraster.h and maskedraster.h speak of rasters like this one.        *)
(*                                                                         *)
(* Their in-band numbers show in one way only.  An element that equals the *)
(* number of a raster, or the NaN of its type, can be read as nothing.  A  *)
(* call carries these numbers.                                             *)
(***************************************************************************)
EXTENDS Elements

VARIABLES
    cells,      \* a sequence of elements and Nones
    call        \* the last operation and its arguments

AsRead(x, numbers) == IF x \in numbers THEN {x, None} ELSE {x}

\* One operation on two optional elements: nothing if either is nothing.
Arithmetic(type, op, x, y) ==
    IF None \in {x, y} \/ (op = "divides" /\ y = 0) THEN None ELSE Compute(type, op, x, y)

Comparison(pred, x, y) == IF None \in {x, y} THEN None ELSE Bool(Holds(pred, x, y))

\* What the calls leave in cell i that held x; y is the cell of the other raster.
Wanted(c, i, x, y) ==
    CASE c.op \in {"keep", "reread"} -> x
      [] c.op = "fill" -> c.v
      [] c.op = "fill_values" -> IF x = None THEN None ELSE c.v
      [] c.op = "fill_others" -> IF x = c.w THEN x ELSE c.v
      [] c.op = "fill_with_nodata" -> None
      [] c.op = "mark_as_nodata" -> IF i = c.i THEN None ELSE x
      [] c.op = "assign" -> IF i = c.i THEN c.v ELSE x
      [] c.op = "add_to_cell" -> CASE i # c.i -> x
                                   [] i = c.i /\ x = None -> c.v
                                   [] OTHER -> Compute(c.type, "plus", x, c.v)
      [] c.op = "replace_nodata" -> IF x = None THEN c.v ELSE x
      [] c.op = "replace" -> IF x = c.v THEN c.w ELSE x
      [] c.op = "turn_value_into_nodata" -> IF x = c.v THEN None ELSE x
      [] c.op = "add_or_assign" -> CASE y = None -> x
                                     [] y # None /\ x = None -> y
                                     [] OTHER -> Compute(c.type, "plus", x, y)
      [] OTHER -> Arithmetic(c.type, c.op, x, y)

\* z is what call c may leave in cell i that held x
Kept(c, i, x, z) ==
    \E xRead \in AsRead(x, c.numbers), yRead \in AsRead(c.other[i], c.numbers) :
        z \in AsRead(Wanted(c, i, xRead, yRead), c.numbers)

Init == \A i \in DOMAIN cells : cells[i] \in Int \cup {NaN, None}

Call == /\ Len(cells') = Len(cells)
        /\ \A i \in DOMAIN cells : Kept(call', i, cells[i], cells'[i])

\* Only a fill may come with another size; one that leaves nodata as it is has
\* nothing to go by in the new cells.
Resize == /\ call'.op \in {"fill", "fill_values"}
          /\ Len(cells') # Len(cells)
          /\ \A i \in DOMAIN cells' :
                \/ cells'[i] \in AsRead(call'.v, call'.numbers)
                \/ cells'[i] = None /\ call'.op = "fill_values"

Next == Call \/ Resize

Spec == Init /\ [][Next]_<<cells, call>>
=============================================================================
