------------------------------- MODULE LddScan -------------------------------
(***************************************************************************)
(* What the functions of accuflux.h that fill a raster from a drain map    *)
(* have in common: two nested loops over its cells, from which they go     *)
(* along the drains, and a result that they write cell by cell.            *)
(***************************************************************************)
EXTENDS Ldd

VARIABLES pc,       \* "scan" in the loops
          cursor,   \* (r, c) of the loops
          result    \* the bytes or numbers of the raster returned

BeginScan == pc = "scan" /\ cursor = FirstCell

EndScan ==
  /\ pc = "scan" /\ PastEnd(cursor)
  /\ pc' = "returned"
  /\ UNCHANGED <<cursor, result>>
=============================================================================
