-------------------------------- MODULE Grid --------------------------------
(***************************************************************************)
(* The cells of a raster and the order in which the algorithms walk them.  *)
(* A cell is the pair <<row, column>>.  Every algorithm scans the raster   *)
(* in row-major order with two nested loops, and looks at the neighbours   *)
(* of a cell in the fixed order of visit_neighbour_cells and               *)
(* visit_neighbour_diag_cells.                                             *)
(***************************************************************************)
EXTENDS Integers, Sequences

CONSTANTS Rows,   \* raster.rows()
          Cols    \* raster.cols()

ASSUME GridAssumption == Rows \in Nat \ {0} /\ Cols \in Nat \ {0}

Cell == (0 .. Rows - 1) \X (0 .. Cols - 1)

(* The neighbour of a cell dr rows down and dc columns to the right, when  *)
(* the border tests of the visit functions let it be visited.              *)
IfInside(cell, dr, dc) ==
  LET n == <<cell[1] + dr, cell[2] + dc>>
  IN  IF n \in Cell THEN <<n>> ELSE <<>>

\* Mutant: the top neighbour is forgotten.
StraightNeighboursNoTop(cell) ==
  IfInside(cell, 0, 1) \o IfInside(cell, 0, -1) \o IfInside(cell, 1, 0)

(* right, left, bottom, top *)
StraightNeighbours(cell) ==
  IfInside(cell, 0, 1) \o IfInside(cell, 0, -1)
    \o IfInside(cell, 1, 0) \o IfInside(cell, -1, 0)

\* Mutant: a wrong offset.
DiagNeighboursSkewed(cell) ==
  IfInside(cell, 1, 2) \o IfInside(cell, -1, 1)
    \o IfInside(cell, 1, -1) \o IfInside(cell, -1, -1)

(* bottom right, top right, bottom left, top left *)
DiagNeighbours(cell) ==
  IfInside(cell, 1, 1) \o IfInside(cell, -1, 1)
    \o IfInside(cell, 1, -1) \o IfInside(cell, -1, -1)

(* The loops `for r in 0..rows-1, for c in 0..cols-1`: the cursor after a  *)
(* cell, and the cursor that makes both loop conditions false.             *)
FirstCell == <<0, 0>>

\* Mutant: c <= cols.
NextCellTooFar(cell) ==
  IF cell[2] < Cols THEN <<cell[1], cell[2] + 1>> ELSE <<cell[1] + 1, 0>>

NextCell(cell) ==
  IF cell[2] + 1 < Cols THEN <<cell[1], cell[2] + 1>> ELSE <<cell[1] + 1, 0>>

PastEnd(cell) == cell[1] = Rows

Before(a, b) == a[1] < b[1] \/ (a[1] = b[1] /\ a[2] < b[2])

(* The relation the visit functions realise, without their order.          *)
Straight(a, b) ==
  \/ a[1] = b[1] /\ (a[2] = b[2] + 1 \/ b[2] = a[2] + 1)
  \/ a[2] = b[2] /\ (a[1] = b[1] + 1 \/ b[1] = a[1] + 1)

Diagonal(a, b) ==
  /\ a[1] = b[1] + 1 \/ b[1] = a[1] + 1
  /\ a[2] = b[2] + 1 \/ b[2] = a[2] + 1
=============================================================================
