----------------------------- MODULE MCDistance -----------------------------
(***************************************************************************)
(* Calls of every function of distance.h that returns a raster, on a 3 x 3 *)
(* grid with one or two targets: all obstacle rasters; travel times of 1   *)
(* and 6, so that a detour of four cells beats a direct way of two and     *)
(* cells re-enter the border; nodata in the centre of each input.          *)
(***************************************************************************)
EXTENDS Distance

Centre == <<1, 1>>

Constant(v) == [c \in Cell |-> v]

\* One target in a corner, or two with different values in opposite corners.
Targets == {[c \in Cell |-> IF c = <<0, 0>> THEN 1 ELSE IF c = <<2, 2>> THEN two ELSE 0] :
              two \in {0, 2}}

WithNoData(f) == [f EXCEPT ![Centre] = NoData]

ByteMaps == [Cell -> {0, 1}]

\* Moving along the top row may take no time at all.
TravelTimes == [Cell -> {1, 6}] \cup {[c \in Cell |-> IF c[1] = 0 THEN 0 ELSE 1]}

Call(op, storage, diagonals, target, layer, value) ==
  [op |-> op, storage |-> storage, diagonals |-> diagonals,
   target |-> target, layer |-> layer, value |-> value]

\* Any layout of targets, with nodata in the centre or not.
Plain ==
  {Call(op, s, "Exclude", t, Constant(0), v) :
     op \in {"distances_up_to", "distance", "closest_target", "value_at_closest_target"},
     s \in {"dense", "masked"},
     t \in Targets \cup {WithNoData(u) : u \in Targets} \cup {Constant(0)},
     v \in {[c \in Cell |-> c[1] + 1], [c \in Cell |-> IF c = <<2, 2>> THEN NoData ELSE 5]}}

Obstacles ==
  {Call("distance_obstacles", "dense", d, t, o, Constant(0)) :
     d \in {"Include", "Exclude"}, t \in Targets,
     o \in ByteMaps \cup {WithNoData(b) : b \in ByteMaps}}

Travel ==
  {Call("travel_distance", s, "Exclude", t, m, Constant(0)) :
     s \in {"dense", "masked"}, t \in Targets,
     m \in TravelTimes \cup {WithNoData(b) : b \in TravelTimes}}

TravelValues ==
  {Call(op, s, "Exclude", t, m, v) :
     op \in {"value_at_closest_travel_target",
             "value_at_closest_less_then_travel_target"},
     s \in {"dense", "masked"}, t \in Targets, m \in TravelTimes,
     v \in {[c \in Cell |-> IF c = <<0, 0>> THEN 7 ELSE 8],
            WithNoData([c \in Cell |-> IF c = <<0, 0>> THEN 7 ELSE 8])}}

MCCalls == Plain \cup Obstacles \cup Travel \cup TravelValues
=============================================================================
