----------------------------- MODULE MCTravelSum -----------------------------
(***************************************************************************)
(* Searches from two or three cells of a 3 x 3 grid, over resistances of 1 *)
(* and 4 (so that a detour is cheaper than a direct way and cells come     *)
(* back to the border), with zero and with nodata at each place.  Values   *)
(* are powers of two: a sum tells which cells went into it.                *)
(***************************************************************************)
EXTENDS TravelSum

Centre == <<1, 1>>

Zero == [c \in Cell |-> 0]

Bit(c) == 2 ^ (c[1] * Cols + c[2])

Values == [c \in Cell |-> IF c = <<0, 2>> THEN NoData ELSE Bit(c)]

Masks == {[[Zero EXCEPT ![<<0, 0>>] = 1] EXCEPT ![Centre] = 2],
          [[[Zero EXCEPT ![<<2, 2>>] = 1] EXCEPT ![<<0, 1>>] = 4] EXCEPT ![<<0, 0>>] = NoData]}

Rough == {f \in [Cell -> {1, 4}] : f[<<0, 1>>] = 1 \/ f[<<2, 1>>] = 4}

Bare == {[c \in Cell |-> IF c[1] = r THEN 0 ELSE 2] : r \in 0 .. 3}
          \cup {[c \in Cell |-> IF c[1] = 1 /\ c[2] > 0 THEN 4 ELSE 1]}

Resistances ==
  Rough \cup Bare \cup {[f EXCEPT ![c] = NoData] : f \in Bare, c \in Cell}

MCCalls ==
  [op : {"sum_within"}, inclAdjacent : BOOLEAN, mask : Masks,
   resistance : Resistances, value : {Values}]
  \cup [op : {"sum_targets", "distance_decay"}, inclAdjacent : {FALSE}, mask : Masks,
        resistance : Resistances, value : {Zero}]
=============================================================================
