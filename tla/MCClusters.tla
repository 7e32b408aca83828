----------------------------- MODULE MCClusters -----------------------------
(***************************************************************************)
(* A 3 x 3 raster.  Its top 2 x 3 block holds every combination of the     *)
(* values of BlockValues; the bottom row is zero there.  The rasters of    *)
(* two values fill all nine cells and bring rings, spirals and diagonals.  *)
(***************************************************************************)
EXTENDS Clusters

BlockValues == {-1, 1, 2, NoData}

Top == {c \in Cell : c[1] < 2}

Blocks == {[c \in Cell |-> IF c \in Top THEN block[c] ELSE 0] :
             block \in [Top -> BlockValues]}

TwoValued == UNION {[Cell -> {v, 1}] : v \in {0, 2}}

MCRasters == TwoValued \cup Blocks

\* Distinct powers of two: a sum identifies the set of cells it ranges over.
MCValueToSum == [c \in Cell |-> 2 ^ (c[1] * Cols + c[2])]
=============================================================================
