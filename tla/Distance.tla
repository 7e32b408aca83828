------------------------------ MODULE Distance ------------------------------
(***************************************************************************)
(* The distance functions of distance.h: distances over the grid from the  *)
(* target cells, past obstacles, weighted by travel times, and the value   *)
(* of the closest target.  All of them seed a FiLo with the targets and    *)
(* then relax neighbours until it is empty; a cell whose distance improves *)
(* after it left the border enters it again.                               *)
(*                                                                         *)
(* Distances are integers: StraightStep and DiagStep stand for 1 and       *)
(* sqrt(2), and the rounding of float is not modelled.                     *)
(***************************************************************************)
EXTENDS Grid, FiniteSets, Functions

CONSTANTS NoData,
          Raw,            \* what lies under the mask of a MaskedRaster's nodata cell
          StraightStep, DiagStep,
          Infinity,       \* float max or infinity: further than any straight path
          MaxTravelTime,  \* the argument maxTravelTime, or unreachable of distances_up_to
          Calls           \* the calls considered: function and arguments

Operations ==
  {"distances_up_to", "distance", "distance_obstacles", "travel_distance",
   "closest_target", "value_at_closest_target",
   "value_at_closest_travel_target", "value_at_closest_less_then_travel_target"}

\* target, second raster (obstacles or travel times) and value raster
CallType ==
  [op : Operations, storage : {"dense", "masked"}, diagonals : {"Include", "Exclude"},
   target : [Cell -> Int \cup {NoData}],
   layer : [Cell -> Nat \cup {NoData}],
   value : [Cell -> Int \cup {NoData}]]

ASSUME DistanceAssumption ==
  /\ NoData \notin Int /\ Raw \notin Int \cup {NoData}
  /\ StraightStep \in Nat \ {0} /\ DiagStep \in Nat
  /\ StraightStep < DiagStep /\ DiagStep < 2 * StraightStep
  /\ Infinity \in Nat /\ Infinity > StraightStep * (Rows * Cols)
  /\ MaxTravelTime \in Nat \ {0}
  /\ Calls \subseteq CallType

Todo == "todo"          \* s_markTodo
Done == "done"          \* s_markDone
InBorderSameAsDone == Done  \* Mutant: s_markBorder and s_markDone coincide.
InBorder == "border"    \* s_markBorder

VARIABLES call,
          cursor,      \* the seeding loops
          hidden,      \* distanceToTarget.is_nodata
          dist,        \* distanceToTarget
          carried,     \* closestTarget, valueAtClosestTarget
          mark, border, thrown,
          cell, neighbours, returned

vars == <<call, cursor, hidden, dist, carried, mark, border, thrown, cell,
          neighbours, returned>>

Fifo == INSTANCE BoundedFifo
          WITH queue <- border, popped <- cell, Elem <- Cell,
               Blank <- FirstCell, Capacity <- Rows * Cols

UpToLimit == {"distances_up_to", "value_at_closest_less_then_travel_target"}
PlainDistance == {"distances_up_to", "distance"}
TravelTarget == {"value_at_closest_travel_target",
                 "value_at_closest_less_then_travel_target"}
Metered == TravelTarget \cup {"travel_distance"}
Carrying == TravelTarget \cup {"closest_target", "value_at_closest_target"}

\* Mutant: the sentinel counts the steps along the longest side.
UnreachableTooNear ==
  IF call.op \in UpToLimit THEN MaxTravelTime
  ELSE IF call.op = "value_at_closest_target"
    THEN StraightStep * (IF Rows < Cols THEN Cols - 1 ELSE Rows - 1)
  ELSE Infinity

Unreachable ==
  IF call.op \in UpToLimit THEN MaxTravelTime
  ELSE IF call.op = "value_at_closest_target" THEN StraightStep * (Rows * Cols + 1)
  ELSE Infinity

(* A nodata cell of a dense raster of float is a NaN, and every comparison *)
(* with it fails; a masked raster keeps a number under its mask.           *)
NaN == IF call.storage = "dense" THEN hidden ELSE {}

Obstacle(c) == call.layer[c] # 0

(* Mutant: one obstacle beside a diagonal is enough to close it.           *)
PassableNoCorner(c, n) ==
  /\ {c, n} \cap NaN = {}
  /\ call.op = "travel_distance" => {c, n} \cap hidden = {}
  /\ call.op \in Metered => call.layer[n] # NoData
  /\ call.op = "distance_obstacles" =>
       /\ ~Obstacle(n)
       /\ Diagonal(c, n) /\ call.diagonals = "Exclude" =>
            ~Obstacle(<<c[1], n[2]>>) /\ ~Obstacle(<<n[1], c[2]>>)

(* The conditions, beside being an improvement, under which the handlers   *)
(* let a path continue from c to n.  A travel time that is nodata is taken *)
(* to be a NaN; in a raster of integers it would be a number.              *)
Passable(c, n) ==
  /\ {c, n} \cap NaN = {}
  /\ call.op = "travel_distance" => {c, n} \cap hidden = {}
  /\ call.op \in Metered => call.layer[n] # NoData
  /\ call.op = "distance_obstacles" =>
       /\ ~Obstacle(n)
       /\ Diagonal(c, n) /\ call.diagonals = "Exclude" =>
            ~(Obstacle(<<c[1], n[2]>>) /\ Obstacle(<<n[1], c[2]>>))

(* deltaD, times the travel time of the cell entered. *)
StepCost(c, n) ==
  (IF Straight(c, n) THEN StraightStep ELSE DiagStep)
    * (IF call.op \in Metered THEN call.layer[n] ELSE 1)

\* Mutant: an equal distance counts as an improvement.
ImprovesOrEquals(c, n) == Passable(c, n) /\ dist[n] >= dist[c] + StepCost(c, n)

Improves(c, n) == Passable(c, n) /\ dist[n] > dist[c] + StepCost(c, n)

Init ==
  /\ call \in Calls
  /\ cursor = FirstCell
  /\ hidden = {}
  /\ dist = [c \in Cell |-> Unreachable]
  /\ carried = [c \in Cell |-> 0]
  /\ mark = [c \in Cell |-> Todo]
  /\ neighbours = <<>>
  /\ returned = FALSE
  /\ Fifo!Init

(* The cells the seeding loop marks as nodata in the distance raster.      *)
Hides(c) ==
  \/ call.op \in PlainDistance /\ call.target[c] = NoData
  \/ call.op = "travel_distance" /\ NoData \in {call.target[c], call.layer[c]}
  \/ call.op \in TravelTarget /\ call.value[c] = NoData

(* The travel target functions do not ask whether target is nodata: its    *)
(* raw value counts, and is taken not to be zero.                          *)
Seeds(c) ==
  /\ ~Hides(c)
  /\ call.target[c] # 0
  /\ call.op \in TravelTarget \/ call.target[c] # NoData

SeedValue(c) ==
  IF call.op = "closest_target" THEN call.target[c]
  ELSE IF call.value[c] = NoData /\ call.storage = "masked" THEN 0
  ELSE call.value[c]

(* One iteration of the seeding loops. *)
SeedCell ==
  /\ ~PastEnd(cursor) /\ ~thrown
  /\ cursor' = NextCell(cursor)
  /\ \/ /\ Hides(cursor)
        /\ hidden' = hidden \cup {cursor}
        /\ carried' = IF call.op \notin TravelTarget THEN carried
                      ELSE [carried EXCEPT ![cursor] =
                              IF call.storage = "masked" THEN Raw ELSE NoData]
        /\ UNCHANGED <<dist, mark, border, thrown, cell>>
     \/ /\ Seeds(cursor)
        /\ dist' = [dist EXCEPT ![cursor] = 0]
        /\ carried' = IF call.op \in Carrying
                        THEN [carried EXCEPT ![cursor] = SeedValue(cursor)]
                        ELSE carried
        /\ mark' = [mark EXCEPT ![cursor] = InBorder]
        /\ Fifo!PushBack(cursor)
        /\ UNCHANGED hidden
     \/ /\ ~Hides(cursor) /\ ~Seeds(cursor)
        /\ UNCHANGED <<hidden, dist, carried, mark, border, thrown, cell>>
  /\ UNCHANGED <<call, neighbours, returned>>

\* Mutant: the mark is left as it is, and the cell can never come back.
PopKeepsMark ==
  /\ PastEnd(cursor) /\ neighbours = <<>> /\ ~thrown
  /\ Fifo!PopHead
  /\ neighbours' = StraightNeighbours(cell') \o DiagNeighbours(cell')
  /\ UNCHANGED <<call, cursor, hidden, dist, carried, mark, returned>>

(* while (!border.empty()): take a cell off the border. *)
Pop ==
  /\ PastEnd(cursor) /\ neighbours = <<>> /\ ~thrown
  /\ Fifo!PopHead
  /\ mark' = [mark EXCEPT ![cell'] = Done]
  /\ neighbours' = StraightNeighbours(cell') \o DiagNeighbours(cell')
  /\ UNCHANGED <<call, cursor, hidden, dist, carried, returned>>

\* Mutant: only the first path to the cell hands its value on.
CarryFirst(n) ==
  carried' = IF call.op \in Carrying /\ mark[n] = Todo
               THEN [carried EXCEPT ![n] = carried[cell]] ELSE carried

(* The value of the target goes along with the distance. *)
CarryTo(n) ==
  carried' = IF call.op \in Carrying
               THEN [carried EXCEPT ![n] = carried[cell]] ELSE carried

(* handle_cell and its variants: the callback for one neighbour.           *)
HandleCell ==
  /\ neighbours # <<>> /\ ~thrown
  /\ neighbours' = Tail(neighbours)
  /\ LET n == Head(neighbours)
     IN  IF Improves(cell, n)
           THEN /\ dist' = [dist EXCEPT ![n] = dist[cell] + StepCost(cell, n)]
                /\ CarryTo(n)
                /\ IF mark[n] # InBorder
                     THEN /\ mark' = [mark EXCEPT ![n] = InBorder]
                          /\ Fifo!PushBack(n)
                     ELSE UNCHANGED <<mark, border, thrown, cell>>
           ELSE UNCHANGED <<dist, carried, mark, border, thrown, cell>>
  /\ UNCHANGED <<call, cursor, hidden, returned>>

Return ==
  /\ PastEnd(cursor) /\ neighbours = <<>> /\ border = <<>> /\ ~thrown
  /\ ~returned /\ returned' = TRUE
  /\ UNCHANGED <<call, cursor, hidden, dist, carried, mark, border, thrown, cell,
                 neighbours>>

Next == SeedCell \/ Pop \/ HandleCell \/ Return

(* One thread runs the function to its end. *)
Spec == Init /\ [][Next]_vars /\ WF_vars(Next)

-----------------------------------------------------------------------------
(* Properties                                                              *)

(* The types of the variables.                                            *)
TypeOK ==
  /\ call \in CallType
  /\ cursor \in (0 .. Rows) \X (0 .. Cols - 1)
  /\ hidden \subseteq Cell
  /\ dist \in [Cell -> Nat]
  /\ carried \in [Cell -> Int \cup {NoData, Raw}]
  /\ mark \in [Cell -> {Todo, InBorder, Done}]
  /\ border \in Seq(Cell)
  /\ thrown \in BOOLEAN
  /\ cell \in Cell
  /\ neighbours \in Seq(Cell)
  /\ returned \in BOOLEAN

(* mark = s_markBorder exactly for the cells on the border, each of which  *)
(* is there once although cells come back: what the assertion after        *)
(* pop_head relies on, and why the border cannot overflow                  *)
(* (distance.h:214 and its siblings, clusterutils.h:66).                   *)
BorderMarked ==
  /\ TypeOK
  /\ ~thrown
  /\ \A c \in Cell : mark[c] = InBorder <=> c \in Range(border)
  /\ \A i, j \in 1 .. Len(border) : border[i] = border[j] => i = j

(* The cells no path may enter, by the maps of the call alone: obstacles,  *)
(* cells without a travel time, and those whose distance is a NaN.         *)
ShutCells ==
  {c \in Cell :
     \/ call.op = "distance_obstacles" /\ call.layer[c] # 0
     \/ call.op \in Metered /\ call.layer[c] = NoData
     \/ call.op = "travel_distance" /\ call.target[c] = NoData
     \/ call.storage = "dense" /\ call.op \in PlainDistance /\ call.target[c] = NoData
     \/ call.storage = "dense" /\ call.op \in TravelTarget /\ call.value[c] = NoData}

(* A path may step from c to n.  In the mode Exclude it keeps to open      *)
(* cells: a diagonal is a short cut past a corner that can be walked.      *)
MayStep(c, n) ==
  /\ Straight(c, n) \/ Diagonal(c, n)
  /\ n \notin ShutCells
  /\ call.op = "distance_obstacles" /\ call.diagonals = "Exclude" /\ Diagonal(c, n) =>
       \E corner \in Cell \ ShutCells : Straight(c, corner) /\ Straight(corner, n)

(* On return no path can be shortened any more: a cell that may be stepped *)
(* to is at most that step further than the cell before it.  Fails if an   *)
(* improved cell is not put back on the border, or if a way is refused     *)
(* that the maps leave open (distance.h:174, :202).                        *)
Settled ==
  returned => \A c, n \in Cell : MayStep(c, n) => dist[n] <= dist[c] + StepCost(c, n)

(* Distances are those of real paths: a cell that has one is a target, at  *)
(* distance zero, or can be stepped to from a neighbour that accounts for  *)
(* all of its distance.  With Settled, dist is the length of a shortest    *)
(* path.                                                                   *)
Supported ==
  returned =>
    \A n \in Cell : dist[n] < Unreachable =>
      \/ Seeds(n) /\ dist[n] = 0
      \/ \E c \in Cell : MayStep(c, n) /\ dist[n] = dist[c] + StepCost(c, n)

(* Together: on return every cell has the length of a shortest path from   *)
(* the targets, whatever is in the way (distance.h:79-183).                *)
ShortestPaths == Settled /\ Supported

(* The value a cell carries is that of the target its distance is measured *)
(* from: it is the cell's own, or that of a neighbour on a shortest path.  *)
(* Fails if the two rasters are updated out of step on re-entry.           *)
CarriedFromNearest ==
  returned /\ call.op \in Carrying =>
    \A n \in Cell : dist[n] < Unreachable =>
      \/ Seeds(n) /\ carried[n] = SeedValue(n)
      \/ \E c \in Cell : /\ MayStep(c, n)
                         /\ dist[n] = dist[c] + StepCost(c, n)
                         /\ carried[n] = carried[c]

(* Where nothing blocks, one target is enough to reach every cell: the     *)
(* sentinel rows * cols + 1 of value_at_closest_target is further than any *)
(* cell (distance.h:417).                                                  *)
EveryCellReached ==
  returned /\ call.op \in {"closest_target", "value_at_closest_target"} =>
    ((\E c \in Cell : Seeds(c)) => \A n \in Cell : dist[n] < Unreachable)

(* Every cell has the value of the target nearest to it (distance.h:79).   *)
NearestTargets == CarriedFromNearest /\ EveryCellReached

(* The search ends: with travel times that are not negative no cell can    *)
(* re-enter the border for ever.                                           *)
Termination == <>returned
=============================================================================
