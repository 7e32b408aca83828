-------------------------- MODULE MCObstacleClusters --------------------------
(***************************************************************************)
(* 3 x 3 rasters.  All obstacle maps, with items of one kind, of two kinds *)
(* in stripes, and with nodata; all rasters of zeros and ones for the      *)
(* fuzzy clusters, within 1, sqrt(2) and 2 cells.                          *)
(***************************************************************************)
EXTENDS ObstacleClusters

Ones == [c \in Cell |-> 1]

Stripes == [c \in Cell |-> IF c[2] = 1 THEN 2 ELSE 1]

Sparse == [c \in Cell |-> IF c[1] = 1 /\ c[2] # 2 THEN 0 ELSE 1]

WithNoData(f, c) == [f EXCEPT ![c] = NoData]

ObstacleMaps == [Cell -> {0, 1}]

NoObstacles == [c \in Cell |-> 0]

Call(op, items, obstacle, radius2) ==
  [op |-> op, items |-> items, obstacle |-> obstacle, radius2 |-> radius2]

Plain ==
  {Call("obstacles", i, o, 0) :
     i \in {Ones, Stripes, WithNoData(Stripes, <<0, 1>>)}, o \in ObstacleMaps}
  \cup {Call("obstacles", Stripes, WithNoData(o, <<1, 0>>), 0) : o \in ObstacleMaps}

Fuzzy ==
  {Call("fuzzy", i, NoObstacles, r) :
     i \in [Cell -> {0, 1}] \cup {WithNoData(Stripes, c) : c \in Cell}, r \in {0, 1, 2, 4}}

FuzzyObstacles ==
  {Call("fuzzy_obstacles", i, o, 5) : i \in {Ones, Sparse}, o \in ObstacleMaps}
  \cup {Call("fuzzy_obstacles", i, WithNoData([c \in Cell |-> IF c = b THEN 1 ELSE 0], n), r) :
          i \in {Stripes, WithNoData(Sparse, <<0, 0>>)}, b, n \in Cell, r \in {2, 4}}

MCCalls == Plain \cup Fuzzy \cup FuzzyObstacles
=============================================================================
