------------------------------ MODULE TravelSum ------------------------------
(***************************************************************************)
(* The two sums within a travel distance of distance.h, and the decay of   *)
(* node values over travel times of distancedecay.h.                       *)
(* sum_within_travel_distance sums, for each cell of a mask, the values of *)
(* the cells it can reach, and of their straight neighbours if asked to.   *)
(* It searches with rasters that are shared by all its searches: each one  *)
(* undoes what it has changed.  sum_targets_within_travel_distance adds    *)
(* the value of each target to the cells it reaches, on fresh rasters, and *)
(* node_value_distance_decay leaves in each cell the largest of the values *)
(* that arrive there, the smaller the further they have come.              *)
(*                                                                         *)
(* Distances are integers, as in Distance.                                 *)
(***************************************************************************)
EXTENDS Grid, FiniteSetsExt, SequencesExt

CONSTANTS NoData,
          StraightStep, DiagStep,  \* 1 and sqrt(2)
          MaxResistance,           \* the argument maxResistance
          Huge,                    \* numeric_limits::max() / 4
          Calls

Operations == {"sum_within", "sum_targets", "distance_decay"}

\* mask stands for targets as well
CallType == [op : Operations, inclAdjacent : BOOLEAN,
             mask : [Cell -> Int \cup {NoData}],
             resistance : [Cell -> Nat \cup {NoData}],
             value : [Cell -> Int \cup {NoData}]]

ASSUME TravelSumAssumption ==
  /\ NoData \notin Int
  /\ StraightStep \in Nat \ {0} /\ StraightStep % 2 = 0
  /\ DiagStep \in Nat \ {0} /\ DiagStep % 2 = 0
  /\ MaxResistance \in Nat \ {0}
  /\ Huge \in Nat /\ Huge > MaxResistance + StraightStep
  /\ Calls \subseteq CallType

Todo == "todo"
InBorder == "border"
Done == "done"

VARIABLES call,
          pc,          \* "scan", "search", "adjacent" or "returned"
          cursor,      \* the loops over mask; the cell a search starts from
          dist,        \* distanceToTarget
          mark, border, thrown, cell, neighbours,
          cells,       \* the cells reached
          adjacentCells,
          visited,     \* how many of cells handleAdjacent has been called for
          sum,
          added,       \* the cells where added is 1
          result

search == <<dist, mark, border, thrown, cell, neighbours, cells>>
summing == <<adjacentCells, visited, sum>>
vars == <<call, pc, cursor, search, summing, added, result>>

Fifo == INSTANCE BoundedFifo
          WITH queue <- border, popped <- cell, Elem <- Cell,
               Blank <- FirstCell, Capacity <- Rows * Cols

Within == call.op = "sum_within"
Decays == call.op = "distance_decay"

(* nextafter(maxResistance), or maxResistance + 1. *)
Unreachable == MaxResistance + (IF Within THEN 1 ELSE StraightStep)

(* replace_nodata: sum_targets can step anywhere, at a price.  The travel  *)
(* times of distance_decay are NaN where they are nodata, and no distance  *)
(* improves by a NaN.                                                      *)
Resistance(c) ==
  IF call.resistance[c] = NoData /\ call.op = "sum_targets" THEN Huge ELSE call.resistance[c]

Blocked(c) == (Within \/ Decays) /\ call.resistance[c] = NoData

(* The s-curve falls with the distance, here in a straight line.           *)
Decayed(target, d) == target * (Unreachable - d)

(* One function averages over the two cells of a step, the other counts    *)
(* the cell that is entered.                                               *)
StepCost(c, n) ==
  LET step == IF Straight(c, n) THEN StraightStep ELSE DiagStep
  IN  IF Within THEN (step * (Resistance(c) + Resistance(n))) \div 2
      ELSE step * Resistance(n)

Value(c) == IF call.value[c] = NoData THEN 0 ELSE call.value[c]

Init ==
  /\ call \in Calls
  /\ pc = "scan" /\ cursor = FirstCell
  /\ dist = [c \in Cell |-> Unreachable]
  /\ mark = [c \in Cell |-> Todo]
  /\ neighbours = <<>> /\ cells = <<>>
  /\ adjacentCells = {} /\ visited = 0 /\ sum = 0 /\ added = {}
  /\ result = [c \in Cell |-> 0]
  /\ Fifo!Init

InMask(c) == call.mask[c] \notin {0, NoData}

SkipCell ==
  /\ pc = "scan" /\ ~PastEnd(cursor) /\ ~InMask(cursor)
  /\ cursor' = NextCell(cursor)
  /\ UNCHANGED <<call, pc, search, summing, added, result>>

(* The searches of sum_within find the rasters as the previous one left    *)
(* them; those of sum_targets fill them first.                             *)
StartSearch ==
  /\ pc = "scan" /\ ~PastEnd(cursor) /\ InMask(cursor)
  /\ pc' = "search"
  /\ LET Clean(f, v) == IF Within THEN f ELSE [c \in Cell |-> v]
         enters == Decays \/ call.resistance[cursor] # NoData
     IN  /\ dist' = [Clean(dist, Unreachable) EXCEPT ![cursor] = 0]
         /\ mark' = [Clean(mark, Todo) EXCEPT ![cursor] =
                       IF enters THEN InBorder ELSE Done]
         /\ IF enters THEN Fifo!PushBack(cursor)
                      ELSE UNCHANGED <<border, thrown, cell>>
  /\ cells' = IF Within THEN Append(cells, cursor) ELSE cells
  /\ added' = {}
  /\ sum' = 0
  /\ UNCHANGED <<call, cursor, neighbours, adjacentCells, visited, result>>

\* Mutant: sum_targets counts a cell each time it leaves the border.
PopCountsAgain ==
  /\ pc = "search" /\ neighbours = <<>> /\ ~thrown
  /\ Fifo!PopHead
  /\ mark' = [mark EXCEPT ![cell'] = Done]
  /\ neighbours' = StraightNeighbours(cell') \o DiagNeighbours(cell')
  /\ result' = IF ~Within /\ dist[cell'] <= MaxResistance
                 THEN [result EXCEPT ![cell'] = @ + call.mask[cursor]] ELSE result
  /\ UNCHANGED <<call, pc, cursor, dist, cells, summing, added>>

(* What a cell that leaves the border gets from the target.                *)
Arrived(c) ==
  IF Decays THEN Max({result[c], Decayed(call.mask[cursor], dist[c])})
            ELSE result[c] + call.mask[cursor]

(* while (!border.empty()) *)
Pop ==
  /\ pc = "search" /\ neighbours = <<>> /\ ~thrown
  /\ Fifo!PopHead
  /\ mark' = [mark EXCEPT ![cell'] = Done]
  /\ neighbours' = StraightNeighbours(cell') \o DiagNeighbours(cell')
  /\ IF ~Within /\ dist[cell'] <= MaxResistance /\ cell' \notin added
       THEN /\ result' = [result EXCEPT ![cell'] = Arrived(cell')]
            /\ added' = IF Decays THEN added ELSE added \cup {cell'}
       ELSE UNCHANGED <<result, added>>
  /\ UNCHANGED <<call, pc, cursor, dist, cells, summing>>

Improves(c, n) == ~Blocked(n) /\ dist[n] > dist[c] + StepCost(c, n)

(* A cell that comes back to the border has been noted before. *)
Note(n) ==
  cells' = IF Within /\ mark[n] = Todo THEN Append(cells, n) ELSE cells

(* handle_sum_le_time_distance_cell and handle_time_cell *)
HandleCell ==
  /\ pc = "search" /\ neighbours # <<>> /\ ~thrown
  /\ neighbours' = Tail(neighbours)
  /\ LET n == Head(neighbours)
     IN  IF Improves(cell, n)
           THEN /\ dist' = [dist EXCEPT ![n] = dist[cell] + StepCost(cell, n)]
                /\ IF mark[n] # InBorder
                     THEN /\ Note(n)
                          /\ mark' = [mark EXCEPT ![n] = InBorder]
                          /\ Fifo!PushBack(n)
                     ELSE UNCHANGED <<cells, mark, border, thrown, cell>>
           ELSE UNCHANGED <<dist, cells, mark, border, thrown, cell>>
  /\ UNCHANGED <<call, pc, cursor, summing, added, result>>

SearchOver == pc = "search" /\ neighbours = <<>> /\ border = <<>> /\ ~thrown

NextTarget ==
  /\ SearchOver /\ ~Within
  /\ pc' = "scan" /\ cursor' = NextCell(cursor)
  /\ UNCHANGED <<call, search, summing, added, result>>

(* The loop that sums over cells and takes back their marks. *)
SumCells ==
  /\ SearchOver /\ Within
  /\ pc' = "adjacent"
  /\ sum' = FoldLeft(LAMBDA s, c : s + Value(c), sum, cells)
  /\ mark' = [c \in Cell |-> IF c \in Range(cells) THEN Todo ELSE mark[c]]
  /\ visited' = IF call.inclAdjacent THEN 0 ELSE Len(cells)
  /\ UNCHANGED <<call, cursor, dist, border, thrown, cell, neighbours, cells,
                 adjacentCells, added, result>>

(* The neighbours for which handleAdjacent adds a value. *)
NewlyAdjacent(c) ==
  {n \in Range(StraightNeighbours(c)) : dist[n] > MaxResistance /\ mark[n] = Todo}

(* handleAdjacent for the four neighbours of the next of cells. *)
AddAdjacent ==
  /\ pc = "adjacent" /\ visited < Len(cells)
  /\ visited' = visited + 1
  /\ LET new == NewlyAdjacent(cells[visited + 1])
     IN  /\ sum' = sum + MapThenSumSet(Value, new)
         /\ mark' = [c \in Cell |-> IF c \in new THEN Done ELSE mark[c]]
         /\ adjacentCells' = adjacentCells \cup new
  /\ UNCHANGED <<call, pc, cursor, dist, border, thrown, cell, neighbours, cells,
                 added, result>>

\* Mutant: the marks of the cells next to those reached stay.
RestoredMarkKept(c) == mark[c]

RestoredMark(c) == IF c \in adjacentCells THEN Todo ELSE mark[c]

(* compute_sum_le_time_distance restores the rasters and returns. *)
Restore ==
  /\ pc = "adjacent" /\ visited = Len(cells)
  /\ pc' = "scan" /\ cursor' = NextCell(cursor)
  /\ result' = [result EXCEPT ![cursor] = sum]
  /\ dist' = [c \in Cell |-> IF c \in Range(cells) THEN Unreachable ELSE dist[c]]
  /\ mark' = [c \in Cell |-> RestoredMark(c)]
  /\ cells' = <<>> /\ adjacentCells' = {} /\ visited' = 0
  /\ UNCHANGED <<call, border, thrown, cell, neighbours, sum, added>>

Return ==
  /\ pc = "scan" /\ PastEnd(cursor)
  /\ pc' = "returned"
  /\ UNCHANGED <<call, cursor, search, summing, added, result>>

Next == \/ SkipCell \/ StartSearch \/ Pop \/ HandleCell \/ NextTarget
        \/ SumCells \/ AddAdjacent \/ Restore \/ Return

Spec == Init /\ [][Next]_vars

-----------------------------------------------------------------------------
(* Properties                                                              *)

(* "This function restores any changes upon return": each search of        *)
(* sum_within finds distances, marks and lists as if it were the first     *)
(* (distance.h:570 to 574).  The overflow of the queue, and the failure of *)
(* the assertions on the cells reached (distance.h:615, 619), would come   *)
(* before.                                                                 *)
ScratchRestored ==
  /\ ~thrown
  /\ pc = "scan" /\ Within =>
       /\ dist = [c \in Cell |-> Unreachable]
       /\ mark = [c \in Cell |-> Todo]
       /\ border = <<>> /\ cells = <<>> /\ adjacentCells = {}
  /\ SearchOver /\ Within =>
       \A i \in 1 .. Len(cells) :
         /\ dist[cells[i]] <= MaxResistance
         /\ mark[cells[i]] = Done
         /\ \A j \in 1 .. i - 1 : cells[j] # cells[i]

(* A walk is the pair of the cell it has come to and its length.           *)
OneStepOn(walk) ==
  {<<to, walk[2] + StepCost(walk[1], to)>> :
     to \in {n \in Cell : /\ Straight(walk[1], n) \/ Diagonal(walk[1], n)
                          /\ Decays \/ call.resistance[walk[1]] # NoData
                          /\ ~Blocked(n)}}

(* The walks from start of n steps or less that are not too long.          *)
Walks(start) ==
  LET walks[n \in 0 .. Rows * Cols - 1] ==
        IF n = 0 THEN {<<start, 0>>}
        ELSE LET shorter == walks[n - 1]
             IN  shorter \cup {w \in UNION {OneStepOn(s) : s \in shorter} :
                               w[2] <= MaxResistance}
  IN  walks[Rows * Cols - 1]

Reached(start) == {w[1] : w \in Walks(start)}

Around(area) ==
  {n \in Cell \ area : \E c \in area : Straight(c, n)}

(* The result of sum_within is the sum over all cells that can be reached  *)
(* on some way and, if asked for, those beside them, each counted once;    *)
(* that of sum_targets is, for a cell, the sum of the targets that can     *)
(* reach it, a target without resistance not even reaching itself; that of *)
(* distance_decay is the best of what targets send it on a shortest way.   *)
SumsExact ==
  pc = "returned" =>
    LET reached == {<<t, Reached(t)>> : t \in {c \in Cell : InMask(c)}}
        Of(area) == MapThenSumSet(Value, area)
        sums == {<<r[1], Of(r[2]) + IF call.inclAdjacent THEN Of(Around(r[2])) ELSE 0>> :
                   r \in reached}
        arrivals == UNION {{<<w[1], Decayed(call.mask[t], w[2])>> : w \in Walks(t)} :
                             t \in {c \in Cell : InMask(c)}}
        reachedBy(c) == {r[1] : r \in {q \in reached : /\ c \in q[2]
                                                     /\ call.resistance[q[1]] # NoData}}
    IN  \A c \in Cell :
          IF Within
            THEN IF InMask(c) THEN <<c, result[c]>> \in sums ELSE result[c] = 0
          ELSE IF Decays
            THEN result[c] = Max({0} \cup {a[2] : a \in {b \in arrivals : b[1] = c}})
            ELSE result[c] = MapThenSumSet(LAMBDA t : call.mask[t], reachedBy(c))
=============================================================================
