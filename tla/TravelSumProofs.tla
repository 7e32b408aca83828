--------------------------- MODULE TravelSumProofs ---------------------------
(***************************************************************************)
(* For every grid, call and length of the steps: the rasters that the      *)
(* searches of sum_within_travel_distance share are clean whenever one     *)
(* starts, the queue never overflows, and each search notes the cells it   *)
(* reaches exactly once.  What the three functions return is exact: it     *)
(* counts the cells that some walk within the maximal resistance comes to, *)
(* and only those.                                                         *)
(***************************************************************************)
EXTENDS TravelSum, GridProofs

(* A metered cell has a price.                                             *)
Priced(c) == Within => call.resistance[c] # NoData

(* The types of what the searches share.  Only cells with a price are      *)
(* searched from.                                                          *)
TypeInv ==
  /\ call \in CallType
  /\ pc \in {"scan", "search", "adjacent", "returned"}
  /\ cursor \in (0 .. Rows) \X (0 .. Cols - 1)
  /\ pc \in {"search", "adjacent"} => cursor \in Cell
  /\ dist \in [Cell -> Nat]
  /\ mark \in [Cell -> {Todo, InBorder, Done}]
  /\ border \in Seq(Cell) /\ thrown \in BOOLEAN /\ cell \in Cell
  /\ neighbours \in Seq(Cell) /\ cells \in Seq(Cell)
  /\ adjacentCells \subseteq Cell /\ visited \in Nat
  /\ \A c \in Range(border) : Priced(c)
  /\ neighbours # <<>> => Priced(cell)

Distinct(s) == \A i, j \in 1 .. Len(s) : s[i] = s[j] => i = j

(* The queue holds each cell marked for it once; there is none between     *)
(* two searches.                                                           *)
QueueInv ==
  /\ thrown = FALSE
  /\ Distinct(border)
  /\ \A c \in Cell : mark[c] = InBorder <=> c \in Range(border)
  /\ pc # "search" => border = <<>> /\ neighbours = <<>>

CleanInv ==
  /\ dist = [c \in Cell |-> Unreachable]
  /\ mark = [c \in Cell |-> Todo]
  /\ cells = <<>> /\ adjacentCells = {}

DistOfCells ==
  \A c \in Cell : IF c \in Range(cells) THEN dist[c] <= MaxResistance
                                        ELSE dist[c] = Unreachable

(* What a search of sum_within has changed is what cells, and at the end   *)
(* adjacentCells, will let it undo.                                        *)
ScratchInv ==
  Within =>
    /\ pc \in {"scan", "returned"} => CleanInv
    /\ pc = "search" =>
         /\ Distinct(cells) /\ DistOfCells /\ adjacentCells = {}
         /\ \A c \in Cell : mark[c] # Todo <=> c \in Range(cells)
    /\ pc = "adjacent" =>
         /\ DistOfCells
         /\ \A c \in Cell : mark[c] = IF c \in adjacentCells THEN Done ELSE Todo

Inv == TypeInv /\ QueueInv /\ ScratchInv

-----------------------------------------------------------------------------
(* The operators                                                           *)

(* Natural numbers, multiplied.                                            *)
LEMMA Products == \A a, b \in Nat : a * b \in Nat
OBVIOUS

(* The three marks are different.                                          *)
LEMMA MarksDiffer ==
  Todo # InBorder /\ Todo # Done /\ Done # InBorder
BY DEF Todo, InBorder, Done

(* The distance of a cell that is out of reach.                            *)
LEMMA UnreachableType ==
  /\ Unreachable \in Nat /\ Unreachable > MaxResistance
  /\ Within => Unreachable = MaxResistance + 1
BY TravelSumAssumption DEF Unreachable

(* A step into a cell that is not blocked, from one with a price, has a    *)
(* cost.                                                                   *)
LEMMA StepCostType ==
  ASSUME call \in CallType, NEW c \in Cell, NEW n \in Cell, Priced(c), ~Blocked(n)
  PROVE  StepCost(c, n) \in Nat
<1> DEFINE step == IF Straight(c, n) THEN StraightStep ELSE DiagStep
           from == Resistance(c)
           to == Resistance(n)
<1>0. call.op \in Operations /\ \A b \in Cell : call.resistance[b] \in Nat \cup {NoData}
  BY DEF CallType
<1>1. step \in Nat
  BY TravelSumAssumption
<1>2. to \in Nat
  BY <1>0, TravelSumAssumption DEF Resistance, Blocked, Within, Decays, Operations
<1>3. Within => from \in Nat
  BY <1>0, TravelSumAssumption DEF Resistance, Priced, Within
<1>4. StepCost(c, n) = IF Within THEN (step * (from + to)) \div 2 ELSE step * to
  BY Zenon DEF StepCost
<1> HIDE DEF step, from, to
<1>5. CASE Within
  <2>1. from + to \in Nat
    BY <1>2, <1>3, <1>5
  <2> DEFINE product == step * (from + to)
  <2>2. product \in Nat
    BY <1>1, <2>1, Products
  <2> HIDE DEF product
  <2>3. product \div 2 \in Nat
    BY <2>2
  <2> QED  BY <1>4, <1>5, <2>3 DEF product
<1>6. CASE ~Within
  <2>1. step * to \in Nat
    BY <1>1, <1>2, Products
  <2> QED  BY <1>4, <1>6, <2>1
<1> QED  BY <1>5, <1>6

(* No cell is in the empty queue.                                          *)
LEMMA RangeEmpty == Range(<<>>) = {}
BY DEF Range

(* A sequence of cells has cells.                                          *)
LEMMA InSequence ==
  ASSUME NEW S, NEW s \in Seq(S)
  PROVE  /\ Range(s) \subseteq S
         /\ \A i \in 1 .. Len(s) : s[i] \in Range(s) /\ s[i] \in S
BY DEF Range

(* The queue has room for a cell that is not on it.                        *)
LEMMA RoomForOneMore ==
  ASSUME TypeInv, QueueInv, NEW n \in Cell, mark[n] # InBorder
  PROVE  Fifo!HasRoom
<1>1. border \in Seq(Cell) /\ n \notin Range(border)
  BY DEF TypeInv, QueueInv
<1>2. Len(border) < Cardinality(Cell)
  BY <1>1, CellsFinite, DistinctIsShort DEF QueueInv, Distinct
<1> QED  BY <1>2, CellsFinite DEF Fifo!HasRoom

(* A cell comes to the queue, with its mark.                               *)
LEMMA PushKeepsQueue ==
  ASSUME TypeInv, QueueInv, NEW n \in Cell, mark[n] # InBorder, Priced(n),
         Fifo!PushBack(n)
  PROVE  /\ border' \in Seq(Cell) /\ Distinct(border')
         /\ Range(border') = Range(border) \cup {n}
         /\ thrown' = FALSE /\ cell' = cell
<1>1. Fifo!HasRoom
  BY RoomForOneMore
<1>2. border \in Seq(Cell) /\ thrown = FALSE /\ n \notin Range(border) /\ Distinct(border)
  BY DEF TypeInv, QueueInv
<1>3. border' = Append(border, n) /\ thrown' = thrown /\ cell' = cell
  BY <1>1, Zenon DEF Fifo!PushBack
<1>4. Range(Append(border, n)) = Range(border) \cup {n}
  BY <1>2, RangeAppend
<1>5. Distinct(Append(border, n))
  BY <1>2, DistinctAppend DEF Distinct
<1>6. Append(border, n) \in Seq(Cell)
  BY <1>2
<1> QED  BY <1>2, <1>3, <1>4, <1>5, <1>6

(* The arguments do not change, nor does what is computed from them.       *)
LEMMA InputStable ==
  ASSUME call' = call
  PROVE  /\ Unreachable' = Unreachable
         /\ Within' <=> Within
         /\ \A c : Priced(c)' <=> Priced(c)
BY DEF Unreachable, Within, Priced

-----------------------------------------------------------------------------
(* The steps                                                               *)

(* The first search starts on clean rasters.                               *)
LEMMA InvInit == Init => Inv
<1> SUFFICES ASSUME Init PROVE Inv
  OBVIOUS
<1>1. /\ call \in CallType /\ pc = "scan" /\ cursor = FirstCell
      /\ dist = [c \in Cell |-> Unreachable] /\ mark = [c \in Cell |-> Todo]
      /\ neighbours = <<>> /\ cells = <<>> /\ adjacentCells = {} /\ visited = 0
      /\ border = <<>> /\ thrown = FALSE /\ cell = FirstCell
  BY TravelSumAssumption DEF Init, Fifo!Init
<1>2. FirstCell \in Cell /\ FirstCell \in (0 .. Rows) \X (0 .. Cols - 1)
  BY GridAssumption DEF FirstCell, Cell
<1>3. TypeInv
  <2>1. dist \in [Cell -> Nat] /\ mark \in [Cell -> {Todo, InBorder, Done}]
    BY <1>1, UnreachableType
  <2>2. \A c \in Range(border) : Priced(c)
    BY <1>1, RangeEmpty
  <2>3. /\ border \in Seq(Cell) /\ neighbours \in Seq(Cell) /\ cells \in Seq(Cell)
        /\ cell \in Cell /\ adjacentCells \subseteq Cell
    BY <1>1, <1>2
  <2>4. thrown \in BOOLEAN
    BY <1>1
  <2> QED  BY <1>1, <1>2, <2>1, <2>2, <2>3, <2>4 DEF TypeInv
<1>4. QueueInv
  BY <1>1, RangeEmpty, MarksDiffer DEF QueueInv, Distinct
<1>5. ScratchInv
  BY <1>1 DEF ScratchInv, CleanInv
<1> QED  BY <1>3, <1>4, <1>5 DEF Inv

(* A search begins on clean rasters, left so or filled anew.               *)
LEMMA StartInv ==
  ASSUME Inv, StartSearch
  PROVE  Inv'
<1> USE DEF Inv
<1> DEFINE enters == Decays \/ call.resistance[cursor] # NoData
<1>1. /\ pc = "scan" /\ ~PastEnd(cursor) /\ pc' = "search"
      /\ UNCHANGED <<call, cursor, neighbours, adjacentCells, visited>>
      /\ cells' = IF Within THEN Append(cells, cursor) ELSE cells
      /\ IF enters THEN Fifo!PushBack(cursor)
                   ELSE UNCHANGED <<border, thrown, cell>>
  BY DEF StartSearch
<1>2. cursor \in Cell
  BY <1>1, NextCellInGrid DEF TypeInv
<1>3. Within => CleanInv
  BY <1>1 DEF ScratchInv
<1>4. dist' = [[c \in Cell |-> Unreachable] EXCEPT ![cursor] = 0]
  BY <1>3, Zenon DEF StartSearch, CleanInv
<1>5. mark' = [[c \in Cell |-> Todo] EXCEPT ![cursor] = IF enters THEN InBorder ELSE Done]
  BY <1>3, Zenon DEF StartSearch, CleanInv
<1>6. /\ dist' \in [Cell -> Nat]
      /\ \A c \in Cell : dist'[c] = IF c = cursor THEN 0 ELSE Unreachable
  BY <1>2, <1>4, UnreachableType
<1> HIDE DEF enters
<1>7. /\ mark' \in [Cell -> {Todo, InBorder, Done}]
      /\ \A c \in Cell : mark'[c] = IF c # cursor THEN Todo
                                    ELSE IF enters THEN InBorder ELSE Done
  BY <1>2, <1>5
<1>8. /\ border = <<>> /\ neighbours = <<>> /\ thrown = FALSE
      /\ mark[cursor] # InBorder
  BY <1>1, <1>2, RangeEmpty DEF QueueInv
<1>9. /\ border' \in Seq(Cell) /\ Distinct(border')
      /\ Range(border') = IF enters THEN {cursor} ELSE {}
      /\ thrown' = FALSE /\ cell' = cell
      /\ enters => Priced(cursor)
  <2>1. enters => Priced(cursor)
    BY DEF enters, Decays, Within, Priced
  <2>2. CASE enters
    BY <1>1, <1>2, <1>8, <2>1, <2>2, PushKeepsQueue, RangeEmpty
  <2>3. CASE ~enters
    <3>1. border' = <<>> /\ thrown' = FALSE /\ cell' = cell
      BY <1>1, <1>8, <2>3
    <3> QED  BY <2>3, <3>1, RangeEmpty DEF Distinct
  <2> QED  BY <2>1, <2>2, <2>3
<1>10. TypeInv'
  <2>1. cells' \in Seq(Cell)
    BY <1>1, <1>2 DEF TypeInv
  <2>2. \A c \in Range(border') : Priced(c)'
    BY <1>1, <1>9, InputStable
  <2>3. cursor' \in Cell /\ pc' = "search" /\ neighbours' = <<>>
    BY <1>1, <1>2, <1>8
  <2>4. thrown' \in BOOLEAN
    BY <1>9
  <2> QED  BY <1>1, <1>6, <1>7, <1>9, <2>1, <2>2, <2>3, <2>4 DEF TypeInv
<1>11. QueueInv'
  <2>1. \A c \in Cell : mark'[c] = InBorder <=> c \in Range(border')
    BY <1>7, <1>9, MarksDiffer
  <2> QED  BY <1>1, <1>9, <2>1 DEF QueueInv
<1>12. ScratchInv'
  <2> SUFFICES ASSUME Within PROVE ScratchInv'
    BY <1>1, InputStable DEF ScratchInv
  <2>1. cells' = <<cursor>> /\ Range(<<cursor>>) = {cursor} /\ Distinct(<<cursor>>)
    BY <1>1, <1>3 DEF CleanInv, Range, Distinct
  <2>2. DistOfCells'
    <3>1. \A c \in Cell : c \in Range(cells') <=> c = cursor
      BY <2>1
    <3>2. Unreachable' = Unreachable /\ 0 <= MaxResistance
      BY <1>1, InputStable, TravelSumAssumption
    <3>3. \A c \in Cell : IF c \in Range(cells') THEN dist'[c] <= MaxResistance
                                                 ELSE dist'[c] = Unreachable'
      BY <1>6, <3>1, <3>2
    <3> QED  BY <3>3, Zenon DEF DistOfCells
  <2>3. \A c \in Cell : mark'[c] # Todo <=> c \in Range(cells')
    BY <1>7, <2>1, MarksDiffer
  <2>4. adjacentCells' = {} /\ pc' = "search"
    BY <1>1, <1>3 DEF CleanInv
  <2> QED  BY <2>1, <2>2, <2>3, <2>4 DEF ScratchInv
<1> QED  BY <1>10, <1>11, <1>12

(* A cell leaves the border.                                               *)
LEMMA PopInv ==
  ASSUME Inv, Pop
  PROVE  Inv'
<1> USE DEF Inv
<1>1. /\ pc = "search" /\ neighbours = <<>>
      /\ border # <<>> /\ cell' = Head(border) /\ border' = Tail(border)
      /\ mark' = [mark EXCEPT ![cell'] = Done]
      /\ neighbours' = StraightNeighbours(cell') \o DiagNeighbours(cell')
      /\ UNCHANGED <<call, pc, cursor, dist, cells, adjacentCells, visited, thrown>>
  BY DEF Pop, Fifo!PopHead, summing
<1>2. border \in Seq(Cell) /\ Distinct(border)
  BY DEF TypeInv, QueueInv
<1>3. /\ cell' \in Cell /\ border' \in Seq(Cell)
      /\ Range(border) = {cell'} \cup Range(border')
      /\ cell' \notin Range(border') /\ Distinct(border')
  BY <1>1, <1>2, RangeHeadTail, DistinctTail DEF Distinct
<1>4. /\ mark' \in [Cell -> {Todo, InBorder, Done}]
      /\ \A c \in Cell : mark'[c] = IF c = cell' THEN Done ELSE mark[c]
  BY <1>1, <1>3 DEF TypeInv
<1>5. neighbours' \in Seq(Cell)
  BY <1>1, <1>3, NeighboursComplete, RangeConcat
<1>6. TypeInv'
  <2>1. \A c \in Range(border') \cup {cell'} : Priced(c)'
    BY <1>1, <1>3, InputStable DEF TypeInv
  <2> QED  BY <1>1, <1>3, <1>4, <1>5, <2>1 DEF TypeInv
<1>7. QueueInv'
  <2>1. \A c \in Cell : mark'[c] = InBorder <=> c \in Range(border')
    BY <1>3, <1>4, MarksDiffer DEF QueueInv
  <2> QED  BY <1>1, <1>3, <2>1 DEF QueueInv
<1>8. ScratchInv'
  <2> SUFFICES ASSUME Within PROVE ScratchInv'
    BY <1>1, InputStable DEF ScratchInv
  <2>1. mark[cell'] # Todo
    BY <1>3, MarksDiffer DEF QueueInv
  <2>2. \A c \in Cell : mark'[c] # Todo <=> c \in Range(cells)
    BY <1>1, <1>4, <2>1, MarksDiffer DEF ScratchInv
  <2>3. DistOfCells' /\ Distinct(cells)
    BY <1>1, InputStable DEF ScratchInv, DistOfCells
  <2>4. adjacentCells' = {} /\ pc' = "search" /\ cells' = cells
    BY <1>1 DEF ScratchInv
  <2> QED  BY <2>2, <2>3, <2>4 DEF ScratchInv
<1> QED  BY <1>6, <1>7, <1>8

(* The neighbour is closer than was known: it is noted, if it has not been *)
(* before, and goes back to the border.                                    *)
LEMMA ImproveInv ==
  ASSUME Inv, HandleCell, Improves(cell, Head(neighbours))
  PROVE  Inv'
<1> USE DEF Inv
<1> DEFINE n == Head(neighbours)
           d == dist[cell] + StepCost(cell, n)
<1>1. /\ pc = "search" /\ neighbours # <<>> /\ neighbours' = Tail(neighbours)
      /\ dist' = [dist EXCEPT ![n] = d]
      /\ IF mark[n] # InBorder
           THEN /\ Note(n)
                /\ mark' = [mark EXCEPT ![n] = InBorder]
                /\ Fifo!PushBack(n)
           ELSE UNCHANGED <<cells, mark, border, thrown, cell>>
      /\ UNCHANGED <<call, pc, cursor, adjacentCells, visited>>
  BY DEF HandleCell, summing
<1>2. n \in Cell /\ neighbours' \in Seq(Cell)
  BY <1>1, RangeHeadTail DEF TypeInv
<1>3. Priced(cell) /\ ~Blocked(n) /\ dist[n] > d
  BY <1>1 DEF TypeInv, Improves
<1>4. StepCost(cell, n) \in Nat /\ d \in Nat
  <2>1. StepCost(cell, n) \in Nat
    BY <1>2, <1>3, StepCostType DEF TypeInv
  <2> QED  BY <2>1 DEF TypeInv
<1>5. Priced(n)
  BY <1>3 DEF Priced, Blocked
<1> HIDE DEF n, d
<1>6. /\ dist' \in [Cell -> Nat]
      /\ \A c \in Cell : dist'[c] = IF c = n THEN d ELSE dist[c]
  BY <1>1, <1>2, <1>4 DEF TypeInv
<1>7. /\ mark' \in [Cell -> {Todo, InBorder, Done}]
      /\ \A c \in Cell : mark'[c] = IF c = n THEN InBorder ELSE mark[c]
  BY <1>1, <1>2 DEF TypeInv
<1>8. /\ border' \in Seq(Cell) /\ Distinct(border')
      /\ Range(border') = Range(border) \cup {n}
      /\ thrown' = FALSE /\ cell' = cell
  <2>1. CASE mark[n] # InBorder
    BY <1>1, <1>2, <1>5, <2>1, PushKeepsQueue
  <2>2. CASE mark[n] = InBorder
    BY <1>1, <1>2, <2>2 DEF QueueInv, TypeInv
  <2> QED  BY <2>1, <2>2
<1>9. /\ cells' \in Seq(Cell)
      /\ cells' = IF Within /\ mark[n] = Todo THEN Append(cells, n) ELSE cells
  <2>1. cells' = IF Within /\ mark[n] = Todo THEN Append(cells, n) ELSE cells
    BY <1>1, MarksDiffer DEF Note
  <2>2. cells \in Seq(Cell)
    BY DEF TypeInv
  <2> QED  BY <1>2, <2>1, <2>2
<1>10. TypeInv'
  <2>1. \A c \in Range(border') : Priced(c)'
    BY <1>1, <1>5, <1>8, InputStable DEF TypeInv
  <2>2. Priced(cell)'
    BY <1>1, <1>3, <1>8 DEF Priced, Within
  <2>3. thrown' \in BOOLEAN /\ cell' \in Cell
    BY <1>8 DEF TypeInv
  <2> QED  BY <1>1, <1>2, <1>6, <1>7, <1>8, <1>9, <2>1, <2>2, <2>3 DEF TypeInv
<1>11. QueueInv'
  <2>1. \A c \in Cell : mark'[c] = InBorder <=> c \in Range(border')
    BY <1>7, <1>8 DEF QueueInv
  <2> QED  BY <1>1, <1>8, <2>1 DEF QueueInv
<1>12. ScratchInv'
  <2> SUFFICES ASSUME Within PROVE ScratchInv'
    BY <1>1, InputStable DEF ScratchInv
  <2>1. /\ Distinct(cells) /\ DistOfCells /\ adjacentCells = {} /\ cells \in Seq(Cell)
        /\ \A c \in Cell : mark[c] # Todo <=> c \in Range(cells)
    BY <1>1 DEF ScratchInv, TypeInv
  <2>2. Range(cells') = Range(cells) \cup {n} /\ Distinct(cells')
    <3>1. CASE mark[n] = Todo
      <4>1. cells' = Append(cells, n) /\ n \notin Range(cells)
        BY <1>2, <1>9, <2>1, <3>1
      <4>2. Range(Append(cells, n)) = Range(cells) \cup {n}
        BY <1>2, <2>1, RangeAppend
      <4>3. Distinct(Append(cells, n))
        BY <1>2, <2>1, <4>1, DistinctAppend DEF Distinct
      <4> QED  BY <4>1, <4>2, <4>3
    <3>2. CASE mark[n] # Todo
      BY <1>2, <1>9, <2>1, <3>2
    <3> QED  BY <3>1, <3>2
  <2>3. d <= MaxResistance
    <3>1. dist[n] <= MaxResistance + 1 /\ dist[n] \in Nat
      <4>1. Unreachable = MaxResistance + 1 /\ MaxResistance \in Nat
        BY UnreachableType, TravelSumAssumption
      <4>2. dist[n] \in Nat
        BY <1>2 DEF TypeInv
      <4>3. dist[n] <= MaxResistance \/ dist[n] = Unreachable
        BY <1>2, <2>1 DEF DistOfCells
      <4> QED  BY <4>1, <4>2, <4>3
    <3> QED  BY <1>3, <1>4, <3>1, TravelSumAssumption
  <2>4. DistOfCells'
    BY <1>1, <1>2, <1>6, <2>1, <2>2, <2>3, InputStable DEF DistOfCells
  <2>5. \A c \in Cell : mark'[c] # Todo <=> c \in Range(cells')
    BY <1>2, <1>7, <2>1, <2>2, MarksDiffer
  <2> QED  BY <1>1, <2>1, <2>2, <2>4, <2>5 DEF ScratchInv
<1> QED  BY <1>10, <1>11, <1>12

(* The neighbour is as close as it can be, seen from this cell.            *)
LEMMA PassOverInv ==
  ASSUME Inv, HandleCell, ~Improves(cell, Head(neighbours))
  PROVE  Inv'
<1>1. /\ pc = "search" /\ neighbours # <<>> /\ neighbours' = Tail(neighbours)
      /\ UNCHANGED <<call, pc, cursor, adjacentCells, visited, dist, cells, mark>>
      /\ UNCHANGED <<border, thrown, cell>>
  BY DEF HandleCell, summing
<1>2. neighbours' \in Seq(Cell)
  BY <1>1, RangeHeadTail DEF Inv, TypeInv
<1>3. TypeInv'
  BY <1>1, <1>2, InputStable DEF Inv, TypeInv
<1>4. QueueInv'
  BY <1>1 DEF Inv, QueueInv
<1>5. ScratchInv'
  BY <1>1, InputStable DEF Inv, ScratchInv, DistOfCells
<1> QED  BY <1>3, <1>4, <1>5 DEF Inv

(* The scan goes past a cell, or ends; the search of a target is over.     *)
LEMMA MoveOnInv ==
  ASSUME Inv, SkipCell \/ NextTarget \/ Return
  PROVE  Inv'
<1>1. /\ UNCHANGED <<call, dist, mark, border, thrown, cell, neighbours, cells>>
      /\ UNCHANGED <<adjacentCells, visited>> /\ pc' \in {"scan", "returned"}
  BY DEF SkipCell, NextTarget, Return, search, summing
<1>2. cursor' \in (0 .. Rows) \X (0 .. Cols - 1)
  <2>1. CASE SkipCell
    BY <2>1, NextCellInGrid DEF SkipCell, Inv, TypeInv
  <2>2. CASE NextTarget
    <3>1. cursor \in Cell /\ cursor' = NextCell(cursor)
      BY <2>2 DEF NextTarget, SearchOver, Inv, TypeInv
    <3>2. ~PastEnd(cursor) /\ cursor \in (0 .. Rows) \X (0 .. Cols - 1)
      BY <3>1, GridAssumption DEF PastEnd, Cell
    <3> QED  BY <3>1, <3>2, NextCellInGrid
  <2>3. CASE Return
    BY <2>3 DEF Return, Inv, TypeInv
  <2> QED  BY <2>1, <2>2, <2>3
<1>3. border = <<>> /\ neighbours = <<>>
  BY DEF SkipCell, NextTarget, SearchOver, Return, Inv, QueueInv
<1>4. TypeInv'
  BY <1>1, <1>2, InputStable DEF Inv, TypeInv
<1>5. QueueInv'
  BY <1>1, <1>3 DEF Inv, QueueInv
<1>6. ScratchInv'
  <2>1. Within => pc \in {"scan", "returned"}
    BY DEF SkipCell, NextTarget, Return
  <2> QED  BY <1>1, <2>1, InputStable DEF Inv, ScratchInv, CleanInv
<1> QED  BY <1>4, <1>5, <1>6 DEF Inv

(* The marks of the cells reached are taken back.                          *)
LEMMA SumCellsInv ==
  ASSUME Inv, SumCells
  PROVE  Inv'
<1>1. /\ pc = "search" /\ neighbours = <<>> /\ border = <<>> /\ Within
      /\ pc' = "adjacent"
      /\ mark' = [c \in Cell |-> IF c \in Range(cells) THEN Todo ELSE mark[c]]
      /\ UNCHANGED <<call, cursor, dist, border, thrown, cell, neighbours, cells,
                     adjacentCells>>
      /\ visited' = IF call.inclAdjacent THEN 0 ELSE Len(cells)
  BY DEF SumCells, SearchOver
<1>2. \A c \in Cell : mark'[c] = Todo
  BY <1>1 DEF Inv, ScratchInv
<1>3. mark' \in [Cell -> {Todo, InBorder, Done}]
  BY <1>1 DEF Inv, TypeInv
<1>4. TypeInv'
  <2>1. visited' \in Nat
    BY <1>1 DEF Inv, TypeInv
  <2> QED  BY <1>1, <1>3, <2>1, InputStable DEF Inv, TypeInv
<1>5. QueueInv'
  BY <1>1, <1>2, RangeEmpty, MarksDiffer DEF Inv, QueueInv
<1>6. ScratchInv'
  <2>1. DistOfCells' /\ adjacentCells' = {}
    BY <1>1, InputStable DEF Inv, ScratchInv, DistOfCells
  <2> QED  BY <1>1, <1>2, <2>1 DEF ScratchInv
<1> QED  BY <1>4, <1>5, <1>6 DEF Inv

(* handleAdjacent marks what it adds, and adds what it marks.              *)
LEMMA AddAdjacentInv ==
  ASSUME Inv, AddAdjacent
  PROVE  Inv'
<1> DEFINE next == cells[visited + 1]
           new == NewlyAdjacent(next)
<1>1. /\ pc = "adjacent" /\ visited < Len(cells) /\ visited' = visited + 1
      /\ adjacentCells' = adjacentCells \cup new
      /\ mark' = [c \in Cell |-> IF c \in new THEN Done ELSE mark[c]]
      /\ UNCHANGED <<call, pc, cursor, dist, border, thrown, cell, neighbours, cells>>
  BY DEF AddAdjacent
<1>2. cells \in Seq(Cell) /\ visited \in Nat
  BY DEF Inv, TypeInv
<1>3. next \in Cell
  BY <1>1, <1>2
<1> HIDE DEF next
<1>4. new \subseteq Cell
  BY <1>3, NeighboursComplete, InSequence DEF NewlyAdjacent
<1> HIDE DEF new
<1>5. /\ \A c \in Cell : mark'[c] = IF c \in new THEN Done ELSE mark[c]
      /\ mark' \in [Cell -> {Todo, InBorder, Done}]
  BY <1>1 DEF Inv, TypeInv
<1>6. TypeInv'
  <2>1. adjacentCells' \subseteq Cell /\ visited' \in Nat
    BY <1>1, <1>2, <1>4 DEF Inv, TypeInv
  <2> QED  BY <1>1, <1>5, <2>1, InputStable DEF Inv, TypeInv
<1>7. QueueInv'
  <2>1. \A c \in Cell : mark'[c] # InBorder
    BY <1>1, <1>5, RangeEmpty, MarksDiffer DEF Inv, QueueInv
  <2> QED  BY <1>1, <2>1, RangeEmpty DEF Inv, QueueInv
<1>8. ScratchInv'
  <2> SUFFICES ASSUME Within PROVE ScratchInv'
    BY <1>1, InputStable DEF ScratchInv
  <2>1. DistOfCells'
    BY <1>1, InputStable DEF Inv, ScratchInv, DistOfCells
  <2>2. \A c \in Cell : mark'[c] = IF c \in adjacentCells' THEN Done ELSE Todo
    BY <1>1, <1>5 DEF Inv, ScratchInv
  <2> QED  BY <1>1, <2>1, <2>2 DEF ScratchInv
<1> QED  BY <1>6, <1>7, <1>8 DEF Inv

(* The rasters are as they were before the search.                         *)
LEMMA RestoreInv ==
  ASSUME Inv, Restore
  PROVE  Inv'
<1>1. /\ pc = "adjacent" /\ pc' = "scan" /\ cursor' = NextCell(cursor)
      /\ dist' = [c \in Cell |-> IF c \in Range(cells) THEN Unreachable ELSE dist[c]]
      /\ mark' = [c \in Cell |-> IF c \in adjacentCells THEN Todo ELSE mark[c]]
      /\ cells' = <<>> /\ adjacentCells' = {} /\ visited' = 0
      /\ UNCHANGED <<call, border, thrown, cell, neighbours>>
  BY DEF Restore, RestoredMark
<1>2. cursor' \in (0 .. Rows) \X (0 .. Cols - 1)
  <2>1. cursor \in Cell
    BY <1>1 DEF Inv, TypeInv
  <2>2. ~PastEnd(cursor) /\ cursor \in (0 .. Rows) \X (0 .. Cols - 1)
    BY <2>1, GridAssumption DEF PastEnd, Cell
  <2> QED  BY <1>1, <2>2, NextCellInGrid
<1>3. /\ dist' \in [Cell -> Nat] /\ mark' \in [Cell -> {Todo, InBorder, Done}]
      /\ border = <<>> /\ neighbours = <<>>
  BY <1>1, UnreachableType DEF Inv, TypeInv, QueueInv
<1>4. TypeInv'
  BY <1>1, <1>2, <1>3, InputStable DEF Inv, TypeInv
<1>5. QueueInv'
  <2>1. \A c \in Cell : mark'[c] # InBorder
    BY <1>1, <1>3, RangeEmpty, MarksDiffer DEF Inv, QueueInv
  <2> QED  BY <1>1, <1>3, <2>1, RangeEmpty DEF Inv, QueueInv
<1>6. ScratchInv'
  <2> SUFFICES ASSUME Within PROVE ScratchInv'
    BY <1>1, InputStable DEF ScratchInv
  <2>1. \A c \in Cell : dist'[c] = Unreachable
    BY <1>1 DEF Inv, ScratchInv, DistOfCells
  <2>2. dist' = [c \in Cell |-> Unreachable']
    BY <1>1, <1>3, <2>1, InputStable
  <2>3. \A c \in Cell : mark'[c] = Todo
    BY <1>1 DEF Inv, ScratchInv
  <2>4. mark' = [c \in Cell |-> Todo]
    BY <1>3, <2>3
  <2> QED  BY <1>1, <2>2, <2>4 DEF ScratchInv, CleanInv
<1> QED  BY <1>4, <1>5, <1>6 DEF Inv

(* Every step of a call keeps the invariant.                               *)
LEMMA InvNext == Inv /\ [Next]_vars => Inv'
<1> SUFFICES ASSUME Inv, [Next]_vars PROVE Inv'
  OBVIOUS
<1>1. CASE SkipCell \/ NextTarget \/ Return
  BY <1>1, MoveOnInv
<1>2. CASE StartSearch
  BY <1>2, StartInv
<1>3. CASE Pop
  BY <1>3, PopInv
<1>4. CASE HandleCell
  BY <1>4, ImproveInv, PassOverInv
<1>5. CASE SumCells
  BY <1>5, SumCellsInv
<1>6. CASE AddAdjacent
  BY <1>6, AddAdjacentInv
<1>7. CASE Restore
  BY <1>7, RestoreInv
<1>8. CASE UNCHANGED vars
  <2>1. /\ UNCHANGED <<call, pc, cursor, dist, mark, border, thrown, cell>>
        /\ UNCHANGED <<neighbours, cells, adjacentCells, visited>>
    BY <1>8 DEF vars, search, summing
  <2>2. TypeInv'
    BY <2>1, InputStable DEF Inv, TypeInv
  <2>3. QueueInv'
    BY <2>1 DEF Inv, QueueInv
  <2>4. ScratchInv'
    BY <2>1, InputStable DEF Inv, ScratchInv, CleanInv, DistOfCells
  <2> QED  BY <2>2, <2>3, <2>4 DEF Inv
<1> QED  BY <1>1, <1>2, <1>3, <1>4, <1>5, <1>6, <1>7, <1>8 DEF Next

(* What the searches share holds in every reachable state what the         *)
(* inductive invariant says (distance.h).                                  *)
THEOREM SearchesShareScratch == Spec => []Inv
BY InvInit, InvNext, PTL DEF Spec

-----------------------------------------------------------------------------
(* What the run checks                                                     *)

(* "This function restores any changes upon return" (distance.h:570 to     *)
(* 574): every search of sum_within_travel_distance starts on distances,   *)
(* marks and lists as if it were the first, notes no cell twice, and       *)
(* neither overflows the queue nor fails its assertions (distance.h:615,   *)
(* 619); nor do the searches of the two other functions overflow theirs.   *)
THEOREM ScratchIsRestored == Spec => []ScratchRestored
<1>1. Inv => ScratchRestored
  <2> SUFFICES ASSUME Inv PROVE ScratchRestored
    OBVIOUS
  <2>1. ~thrown
    BY DEF Inv, QueueInv
  <2>2. ASSUME pc = "scan", Within
        PROVE  /\ dist = [c \in Cell |-> Unreachable] /\ mark = [c \in Cell |-> Todo]
               /\ border = <<>> /\ cells = <<>> /\ adjacentCells = {}
    BY <2>2 DEF Inv, QueueInv, ScratchInv, CleanInv
  <2>3. ASSUME SearchOver, Within, NEW i \in 1 .. Len(cells)
        PROVE  /\ dist[cells[i]] <= MaxResistance
               /\ mark[cells[i]] = Done
               /\ \A j \in 1 .. i - 1 : cells[j] # cells[i]
    <3>1. /\ pc = "search" /\ border = <<>> /\ cells \in Seq(Cell)
          /\ Distinct(cells) /\ DistOfCells
          /\ \A c \in Cell : mark[c] # Todo <=> c \in Range(cells)
      BY <2>3 DEF Inv, TypeInv, ScratchInv, SearchOver
    <3>2. cells[i] \in Cell /\ cells[i] \in Range(cells)
      BY <3>1, InSequence
    <3>3. mark[cells[i]] = Done
      BY <3>1, <3>2, RangeEmpty DEF Inv, TypeInv, QueueInv
    <3>4. \A j \in 1 .. i - 1 : cells[j] # cells[i]
      BY <3>1 DEF Distinct
    <3> QED  BY <3>1, <3>2, <3>3, <3>4 DEF DistOfCells
  <2> QED  BY <2>1, <2>2, <2>3 DEF ScratchRestored
<1> QED  BY <1>1, SearchesShareScratch, PTL

-----------------------------------------------------------------------------
(* Ways and walks                                                          *)

(* The eight cells around a cell.                                          *)
Adjacent(c, n) == Straight(c, n) \/ Diagonal(c, n)

(* Walks go on from such a cell.                                           *)
Source(c) == Decays \/ call.resistance[c] # NoData

(* A walk can take this step.                                              *)
LeadsOn(c, n) == Adjacent(c, n) /\ Source(c) /\ ~Blocked(n)

(* L says that n is further away than it is through c.                     *)
Stale(L, c, n) ==
  LeadsOn(c, n) /\ L[c] < Unreachable /\ L[n] > L[c] + StepCost(c, n)

(* The lengths are from t; one that is known is of a cell that can be gone *)
(* on from, or of t.                                                       *)
Bounded(L, t) ==
  /\ L \in [Cell -> Nat] /\ L[t] = 0
  /\ \A c \in Cell : L[c] <= Unreachable
  /\ \A c \in Cell : L[c] < Unreachable => Source(c) \/ c = t

(* Every set with t, but not with all the cells that have a length, is     *)
(* left by a step that accounts for a length.                              *)
Connected(L, t) ==
  \A A \in SUBSET Cell :
    t \in A /\ (\E n \in Cell \ A : L[n] < Unreachable) =>
      \E c \in A, n \in Cell \ A :
        LeadsOn(c, n) /\ L[n] < Unreachable /\ L[n] >= L[c] + StepCost(c, n)

(* L has the lengths of the shortest walks from t.                         *)
IsLengths(L, t) ==
  Bounded(L, t) /\ Connected(L, t) /\ \A c, n \in Cell : ~Stale(L, c, n)

(* The cells within the maximal resistance.                                *)
Area(L) == {c \in Cell : L[c] <= MaxResistance}

-----------------------------------------------------------------------------
(* Walks                                                                   *)

(* A step that a walk can take has a length.                               *)
LEMMA LeadsOnCost ==
  ASSUME call \in CallType, NEW c \in Cell, NEW n \in Cell, Source(c), ~Blocked(n)
  PROVE  StepCost(c, n) \in Nat
BY StepCostType DEF Source, Priced, Decays, Within

(* OneStepOn goes on by the steps that lead on, with their lengths.        *)
LEMMA OneStepOnIs ==
  ASSUME call \in CallType, NEW c \in Cell, NEW l \in Nat
  PROVE  /\ OneStepOn(<<c, l>>) \subseteq Cell \X Nat
         /\ \A n \in Cell : LeadsOn(c, n) => <<n, l + StepCost(c, n)>> \in OneStepOn(<<c, l>>)
         /\ \A w \in OneStepOn(<<c, l>>) :
              \E n \in Cell : LeadsOn(c, n) /\ w = <<n, l + StepCost(c, n)>>
<1>1. ASSUME NEW w \in OneStepOn(<<c, l>>)
      PROVE  \E n \in Cell : LeadsOn(c, n) /\ w = <<n, l + StepCost(c, n)>>
  BY <1>1 DEF OneStepOn, LeadsOn, Adjacent, Source
<1>2. ASSUME NEW n \in Cell, LeadsOn(c, n)
      PROVE  <<n, l + StepCost(c, n)>> \in OneStepOn(<<c, l>>)
  BY <1>2 DEF OneStepOn, LeadsOn, Adjacent, Source
<1>3. ASSUME NEW w \in OneStepOn(<<c, l>>) PROVE w \in Cell \X Nat
  <2>1. PICK n \in Cell : LeadsOn(c, n) /\ w = <<n, l + StepCost(c, n)>>
    BY <1>1
  <2>2. StepCost(c, n) \in Nat
    BY <2>1, LeadsOnCost DEF LeadsOn
  <2> QED  BY <2>1, <2>2
<1> QED  BY <1>1, <1>2, <1>3

(* Walks, and those of one step more that are not too long.                *)
Prolonged(W) == W \cup {w \in UNION {OneStepOn(s) : s \in W} : w[2] <= MaxResistance}

(* The number of steps that are enough.                                    *)
Longest == Rows * Cols - 1

(* A shortest walk enters no cell twice: so many steps are enough.         *)
LEMMA LongestType == Longest \in Nat /\ Longest + 1 = Rows * Cols
<1>1. Rows \in Nat \ {0} /\ Cols \in Nat \ {0}
  BY GridAssumption
<1>2. \A a, b \in Nat \ {0} : a * b \in Nat \ {0}
  OBVIOUS
<1>3. Rows * Cols \in Nat \ {0}
  BY <1>1, <1>2
<1> QED  BY <1>3 DEF Longest

(* Walks prolonged are walks.                                              *)
LEMMA ProlongedType ==
  ASSUME call \in CallType, NEW W \in SUBSET (Cell \X Nat)
  PROVE  Prolonged(W) \in SUBSET (Cell \X Nat)
<1> SUFFICES ASSUME NEW w \in Prolonged(W), w \notin W PROVE w \in Cell \X Nat
  OBVIOUS
<1>1. PICK s \in W : w \in OneStepOn(s)
  BY DEF Prolonged
<1>2. s[1] \in Cell /\ s[2] \in Nat /\ s = <<s[1], s[2]>>
  OBVIOUS
<1>3. OneStepOn(<<s[1], s[2]>>) \subseteq Cell \X Nat
  BY <1>2, OneStepOnIs
<1> QED  BY <1>1, <1>2, <1>3

(* Walks is where a sequence of sets of walks, by their number of steps,   *)
(* has come to.                                                            *)
IsWalks(f, t) ==
  /\ f \in [0 .. Longest -> SUBSET (Cell \X Nat)]
  /\ f[0] = {<<t, 0>>}
  /\ \A n \in 1 .. Longest : f[n] = Prolonged(f[n - 1])

(* The walks are defined: no two functions build them up differently.      *)
LEMMA WalksUnique ==
  ASSUME NEW t, NEW f, NEW g, IsWalks(f, t), IsWalks(g, t)
  PROVE  g[Longest] = f[Longest]
<1> DEFINE Differ == {n \in 0 .. Longest : g[n] # f[n]}
<1>1. Differ = {}
  <2> SUFFICES ASSUME Differ # {} PROVE FALSE
    OBVIOUS
  <2>1. PICK n \in Differ : \A m \in Differ : n <= m
    <3>1. Differ \in SUBSET Nat
      OBVIOUS
    <3> HIDE DEF Differ
    <3> QED  BY <3>1, LeastNatural
  <2>2. n \in 0 .. Longest /\ g[n] # f[n]
    OBVIOUS
  <2>3. n # 0
    BY <2>2 DEF IsWalks
  <2>4. n \in 1 .. Longest /\ n - 1 \in 0 .. Longest /\ ~(n <= n - 1)
    BY <2>2, <2>3, LongestType
  <2>5. g[n - 1] = f[n - 1]
    BY <2>1, <2>4
  <2> QED  BY <2>2, <2>4, <2>5 DEF IsWalks
<1>2. Longest \in 0 .. Longest
  BY LongestType
<1> QED  BY <1>1, <1>2

(* Some function builds them up.                                           *)
LEMMA WalksDef ==
  ASSUME call \in CallType, NEW t \in Cell
  PROVE  \E f : IsWalks(f, t) /\ Walks(t) = f[Longest]
<1> DEFINE T == SUBSET (Cell \X Nat)
           F == [W \in T |-> Prolonged(W)]
           first == {<<t, 0>>}
           At(f) == f = [n \in 0 .. Longest |-> IF n = 0 THEN {<<t, 0>>}
                           ELSE LET shorter == f[n - 1]
                                IN  shorter \cup {w \in UNION {OneStepOn(s) : s \in shorter} :
                                                  w[2] <= MaxResistance}]
<1>1. F \in [T -> T]
  BY ProlongedType
<1>2. first \in T
  OBVIOUS
<1>3. PICK f : Iterates(f, T, F, first, Longest)
  <2> HIDE DEF T, F, first
  <2> QED  BY <1>1, <1>2, LongestType, Iteration
<1>4. f \in [0 .. Longest -> T] /\ f[0] = {<<t, 0>>} /\ \A n \in 1 .. Longest : f[n] = F[f[n - 1]]
  BY <1>3 DEF Iterates
<1>5. \A n \in 1 .. Longest : f[n] = Prolonged(f[n - 1])
  <2> SUFFICES ASSUME NEW n \in 1 .. Longest PROVE f[n] = Prolonged(f[n - 1])
    OBVIOUS
  <2>1. n - 1 \in 0 .. Longest
    BY LongestType
  <2>2. f[n - 1] \in T
    BY <1>4, <2>1
  <2> QED  BY <1>4, <2>2
<1>6. At(f)
  <2>1. ASSUME NEW n \in 0 .. Longest
        PROVE  f[n] = IF n = 0 THEN {<<t, 0>>} ELSE Prolonged(f[n - 1])
    <3>1. CASE n = 0
      BY <3>1, <1>4
    <3>2. CASE n # 0
      <4>1. n \in 1 .. Longest
        BY <3>2, LongestType
      <4> QED  BY <1>5, <3>2, <4>1
    <3> QED  BY <3>1, <3>2
  <2>2. f = [n \in 0 .. Longest |-> IF n = 0 THEN {<<t, 0>>} ELSE Prolonged(f[n - 1])]
    BY <1>4, <2>1
  <2> QED  BY <2>2 DEF Prolonged
<1>7. Walks(t) = (CHOOSE g : At(g))[Longest]
  BY DEF Walks, Longest
<1> DEFINE g == CHOOSE g : At(g)
<1>8. At(g)
  BY <1>6
<1>9. Walks(t) = g[Longest]
  BY <1>7
<1> HIDE DEF g
<1>10. g = [n \in 0 .. Longest |-> IF n = 0 THEN {<<t, 0>>} ELSE Prolonged(g[n - 1])]
  BY <1>8 DEF Prolonged
<1> HIDE DEF At
<1>11. g[0] = {<<t, 0>>} /\ \A n \in 1 .. Longest : g[n] = Prolonged(g[n - 1])
  <2>1. 0 \in 0 .. Longest /\ \A n \in 1 .. Longest : n \in 0 .. Longest /\ n # 0
    BY LongestType
  <2>2. \A n \in 0 .. Longest : g[n] = IF n = 0 THEN {<<t, 0>>} ELSE Prolonged(g[n - 1])
    BY <1>10, Zenon
  <2> QED  BY <2>1, <2>2
<1>12. IsWalks(f, t)
  BY <1>4, <1>5 DEF IsWalks
<1>13. IsWalks(g, t)
  <2>1. g \in [0 .. Longest -> T]
    <3> DEFINE Bad == {n \in 0 .. Longest : g[n] \notin T}
    <3>1. Bad = {}
      <4> SUFFICES ASSUME Bad # {} PROVE FALSE
        OBVIOUS
      <4>1. PICK n \in Bad : \A m \in Bad : n <= m
        <5>1. Bad \in SUBSET Nat
          OBVIOUS
        <5> HIDE DEF Bad
        <5> QED  BY <5>1, LeastNatural
      <4>2. n \in 1 .. Longest /\ n - 1 \in 0 .. Longest /\ ~(n <= n - 1)
        BY <1>2, <1>11, <4>1, LongestType
      <4>3. g[n - 1] \in T
        BY <4>1, <4>2
      <4> QED  BY <1>11, <4>2, <4>3, ProlongedType
    <3>2. DOMAIN g = 0 .. Longest
      BY <1>10
    <3>3. g = [n \in 0 .. Longest |-> g[n]]
      BY <1>10
    <3> QED  BY <3>1, <3>3
  <2> QED  BY <1>11, <2>1 DEF IsWalks
<1> QED  BY <1>9, <1>13

(* The walks depend on the call alone.                                     *)
LEMMA StepsSteady ==
  ASSUME call' = call
  PROVE  /\ \A s : OneStepOn(s)' = OneStepOn(s)
         /\ \A c, n : StepCost(c, n)' = StepCost(c, n)
         /\ \A n : Blocked(n)' <=> Blocked(n)
<1>1. (\A c, n : StepCost(c, n)' = StepCost(c, n)) /\ (\A n : Blocked(n)' <=> Blocked(n))
  BY DEF StepCost, Within, Resistance, Blocked, Decays
<1>2. \A s : OneStepOn(s)' = OneStepOn(s)
  BY <1>1 DEF OneStepOn, Decays
<1> QED BY <1>1, <1>2

(* The same as a fact of every state.                                      *)
LEMMA WalksExist ==
  call \in CallType => \A t \in Cell : \E f : IsWalks(f, t) /\ Walks(t) = f[Longest]
BY WalksDef

(* The same of the state after a step.                                     *)
LEMMA WalksExistNext ==
  (call \in CallType => \A t \in Cell : \E f : IsWalks(f, t) /\ Walks(t) = f[Longest])'
BY WalksExist, PTL

(* The walks of a call do not change while it runs.                        *)
LEMMA WalksSteady ==
  ASSUME call \in CallType, call' = call, NEW t \in Cell
  PROVE  Walks(t)' = Walks(t)
<1>2. PICK f : IsWalks(f, t)' /\ Walks(t)' = f[Longest]
  <2>1. (call \in CallType)'
    BY DEF CallType
  <2> QED  BY <2>1, WalksExistNext
<1>3. PICK g : IsWalks(g, t) /\ Walks(t) = g[Longest]
  BY WalksExist
<1>4. IsWalks(f, t)
  <2>1. \A W : Prolonged(W)' = Prolonged(W)
    BY StepsSteady DEF Prolonged
  <2> QED  BY <1>2, <2>1 DEF IsWalks
<1> QED  BY <1>2, <1>3, <1>4, WalksUnique

(* No walk to a cell is shorter than the length that L has for it.         *)
LEMMA NoWalkIsShorter ==
  ASSUME call \in CallType, NEW t \in Cell, NEW L, IsLengths(L, t)
  PROVE  \A w \in Walks(t) :
           w \in Cell \X Nat /\ w[2] <= MaxResistance /\ L[w[1]] <= w[2]
<1>1. PICK f : IsWalks(f, t) /\ Walks(t) = f[Longest]
  BY WalksExist
<1>2. /\ f \in [0 .. Longest -> SUBSET (Cell \X Nat)]
      /\ f[0] = {<<t, 0>>}
      /\ \A n \in 1 .. Longest : f[n] = Prolonged(f[n - 1])
  BY <1>1 DEF IsWalks
<1>3. /\ L \in [Cell -> Nat] /\ L[t] = 0
      /\ \A c, n \in Cell : ~Stale(L, c, n)
  BY DEF IsLengths, Bounded
<1> DEFINE Fine(w) == w[2] <= MaxResistance /\ L[w[1]] <= w[2]
           Bad == {n \in 0 .. Longest : \E w \in f[n] : ~Fine(w)}
<1>4. Bad = {}
  <2> SUFFICES ASSUME Bad # {} PROVE FALSE
    OBVIOUS
  <2>1. PICK n \in Bad : \A m \in Bad : n <= m
    <3>1. Bad \in SUBSET Nat
      OBVIOUS
    <3> HIDE DEF Bad
    <3> QED  BY <3>1, LeastNatural
  <2>2. PICK w \in f[n] : ~Fine(w)
    OBVIOUS
  <2>3. n # 0
    BY <1>2, <1>3, <2>2, TravelSumAssumption
  <2>4. n \in 1 .. Longest /\ n - 1 \in 0 .. Longest /\ ~(n <= n - 1)
    BY <2>3, LongestType
  <2>5. \A s \in f[n - 1] : Fine(s) /\ s \in Cell \X Nat
    BY <1>2, <2>1, <2>4
  <2>6. w \in Prolonged(f[n - 1]) /\ w \notin f[n - 1]
    BY <1>2, <2>2, <2>4, <2>5
  <2>7. PICK s \in f[n - 1] : w \in OneStepOn(s)
    BY <2>6 DEF Prolonged
  <2>8. w[2] <= MaxResistance
    BY <2>6 DEF Prolonged
  <2>9. s = <<s[1], s[2]>> /\ s[1] \in Cell /\ s[2] \in Nat /\ Fine(s)
    BY <2>5
  <2>10. PICK m \in Cell : LeadsOn(s[1], m) /\ w = <<m, s[2] + StepCost(s[1], m)>>
    BY <2>7, <2>9, OneStepOnIs
  <2>11. StepCost(s[1], m) \in Nat
    BY <2>9, <2>10, LeadsOnCost DEF LeadsOn
  <2>12. L[s[1]] < Unreachable
    BY <1>3, <2>9, UnreachableType, TravelSumAssumption
  <2>13. L[m] <= L[s[1]] + StepCost(s[1], m)
    BY <1>3, <2>9, <2>10, <2>11, <2>12 DEF Stale
  <2> QED  BY <1>3, <2>2, <2>8, <2>9, <2>10, <2>11, <2>13
<1>5. Longest \in 0 .. Longest
  BY LongestType
<1> QED  BY <1>1, <1>2, <1>4, <1>5

(* That length is the length of a walk: the cells that n steps walk to in  *)
(* that length, and those too far, are more than n or all there are,       *)
(* because a set that leaves one out is left by a step that accounts for a *)
(* length.                                                                 *)
LEMMA ShortestIsWalked ==
  ASSUME call \in CallType, NEW t \in Cell, NEW L, IsLengths(L, t),
         NEW c \in Cell, L[c] <= MaxResistance
  PROVE  <<c, L[c]>> \in Walks(t)
<1>1. PICK f : IsWalks(f, t) /\ Walks(t) = f[Longest]
  BY WalksExist
<1>2. /\ f \in [0 .. Longest -> SUBSET (Cell \X Nat)]
      /\ f[0] = {<<t, 0>>}
      /\ \A n \in 1 .. Longest : f[n] = Prolonged(f[n - 1])
  BY <1>1 DEF IsWalks
<1>3. /\ L \in [Cell -> Nat] /\ L[t] = 0
      /\ \A a, n \in Cell : ~Stale(L, a, n)
  BY DEF IsLengths, Bounded
<1> DEFINE A(k) == {a \in Cell : <<a, L[a]>> \in f[k] \/ L[a] > MaxResistance}
           Few == {k \in 0 .. Longest : A(k) # Cell /\ ~(Cardinality(A(k)) >= k + 1)}
<1>4. \A k : IsFiniteSet(A(k)) /\ Cardinality(A(k)) \in Nat
  BY CellsFinite, FS_Subset, FS_CardinalityType
<1>5. Few = {}
  <2> SUFFICES ASSUME Few # {} PROVE FALSE
    OBVIOUS
  <2>1. PICK k \in Few : \A m \in Few : k <= m
    <3>1. Few \in SUBSET Nat
      OBVIOUS
    <3> HIDE DEF Few
    <3> QED  BY <3>1, LeastNatural
  <2>2. k \in 0 .. Longest /\ A(k) # Cell /\ ~(Cardinality(A(k)) >= k + 1)
    OBVIOUS
  <2>3. CASE k = 0
    <3>1. t \in A(0)
      BY <1>2, <1>3
    <3> HIDE DEF A
    <3>2. Cardinality(A(0)) # 0
      BY <1>4, <3>1, FS_EmptySet
    <3> QED  BY <1>4, <2>2, <2>3, <3>2
  <2>4. CASE k # 0
    <3>1. k \in 1 .. Longest /\ k - 1 \in 0 .. Longest /\ ~(k <= k - 1)
      BY <2>2, <2>4, LongestType
    <3> DEFINE m == k - 1
    <3>2. A(m) \subseteq A(k)
      <4>1. f[m] \subseteq f[k]
        BY <1>2, <3>1 DEF Prolonged
      <4> QED  BY <4>1
    <3>3. A(m) # Cell
      BY <2>2, <3>2
    <3>4. Cardinality(A(m)) >= m + 1
      <4>1. m \notin Few
        BY <2>1, <3>1
      <4> QED  BY <3>1, <3>3, <4>1
    <3>5. PICK far \in Cell : far \notin A(m)
      BY <3>3
    <3>6. L[far] <= MaxResistance
      BY <1>3, <3>5, TravelSumAssumption
    <3>7. t \in A(m)
      <4>1. <<t, 0>> \in f[m]
        <5> DEFINE Lost == {j \in 0 .. Longest : <<t, 0>> \notin f[j]}
        <5>1. Lost = {}
          <6> SUFFICES ASSUME Lost # {} PROVE FALSE
            OBVIOUS
          <6>1. PICK j \in Lost : \A i \in Lost : j <= i
            <7>1. Lost \in SUBSET Nat
              OBVIOUS
            <7> HIDE DEF Lost
            <7> QED  BY <7>1, LeastNatural
          <6>2. j \in 1 .. Longest /\ j - 1 \in 0 .. Longest /\ ~(j <= j - 1)
            BY <1>2, LongestType
          <6>3. <<t, 0>> \in f[j - 1]
            BY <6>1, <6>2
          <6> QED  BY <1>2, <6>2, <6>3 DEF Prolonged
        <5> QED  BY <3>1, <5>1
      <4> QED  BY <1>3, <4>1
    <3>8. PICK a \in A(m), n \in Cell \ A(m) :
            LeadsOn(a, n) /\ L[n] < Unreachable /\ L[n] >= L[a] + StepCost(a, n)
      <4> DEFINE S == A(m)
      <4>1. S \in SUBSET Cell /\ t \in S /\ far \in Cell \ S /\ L[far] < Unreachable
        BY <1>3, <3>5, <3>6, <3>7, UnreachableType, TravelSumAssumption
      <4> HIDE DEF A
      <4> QED  BY <4>1 DEF IsLengths, Connected
    <3>9. a \in Cell /\ n \in Cell /\ L[n] <= MaxResistance /\ <<n, L[n]>> \notin f[m]
      BY <1>3, <3>8, TravelSumAssumption
    <3>10. StepCost(a, n) \in Nat
      BY <3>8, <3>9, LeadsOnCost DEF LeadsOn
    <3>11. L[a] <= MaxResistance /\ L[a] \in Nat /\ L[n] \in Nat
      BY <1>3, <3>8, <3>9, <3>10, TravelSumAssumption
    <3>12. <<a, L[a]>> \in f[m]
      BY <3>8, <3>11, TravelSumAssumption
    <3>13. L[n] = L[a] + StepCost(a, n)
      <4>1. L[a] < Unreachable
        BY <3>11, UnreachableType, TravelSumAssumption
      <4> QED  BY <1>3, <3>8, <3>9, <3>10, <3>11, <4>1 DEF Stale
    <3>14. n \in A(k)
      <4>1. <<n, L[n]>> \in OneStepOn(<<a, L[a]>>)
        BY <3>8, <3>9, <3>11, <3>13, OneStepOnIs
      <4>2. <<n, L[n]>> \in Prolonged(f[m])
        <5>1. <<n, L[n]>>[2] <= MaxResistance
          BY <3>9
        <5> QED  BY <3>12, <4>1, <5>1 DEF Prolonged
      <4>3. f[k] = Prolonged(f[m])
        BY <1>2, <3>1
      <4> QED  BY <3>9, <4>2, <4>3
    <3>15. n \notin A(m)
      BY <3>8
    <3> HIDE DEF A
    <3>16. Cardinality(A(m) \cup {n}) = Cardinality(A(m)) + 1
      BY <1>4, <3>15, FS_AddElement
    <3>17. Cardinality(A(m) \cup {n}) <= Cardinality(A(k))
      BY <1>4, <3>2, <3>14, FS_Subset
    <3> QED  BY <1>4, <2>2, <3>1, <3>4, <3>16, <3>17
  <2> QED  BY <2>3, <2>4
<1>6. A(Longest) = Cell
  <2> SUFFICES ASSUME A(Longest) # Cell PROVE FALSE
    OBVIOUS
  <2>1. Cardinality(A(Longest)) >= Longest + 1
    <3>1. Longest \in 0 .. Longest
      BY LongestType
    <3>2. Longest \notin Few
      <4> HIDE DEF Few, A
      <4> QED  BY <1>5
    <3> HIDE DEF A
    <3> QED  BY <3>1, <3>2
  <2>2. A(Longest) \subseteq Cell
    OBVIOUS
  <2> HIDE DEF A
  <2>3. Cardinality(A(Longest)) <= Cardinality(Cell)
    BY <2>2, CellsFinite, FS_Subset
  <2>4. Cardinality(A(Longest)) # Cardinality(Cell)
    BY <2>2, CellsFinite, FS_Subset
  <2> QED  BY <1>4, <2>1, <2>3, <2>4, CellsFinite, LongestType
<1> QED  BY <1>1, <1>3, <1>6, TravelSumAssumption

(* The lengths say what a search reaches.                                  *)
LEMMA ReachedIs ==
  ASSUME call \in CallType, NEW t \in Cell, NEW L, IsLengths(L, t)
  PROVE  Reached(t) = Area(L)
<1>1. ASSUME NEW w \in Walks(t) PROVE w[1] \in Area(L)
  <2>1. w[1] \in Cell /\ w[2] \in Nat /\ w[2] <= MaxResistance /\ L[w[1]] <= w[2]
    BY NoWalkIsShorter
  <2>2. L[w[1]] \in Nat
    BY <2>1 DEF IsLengths, Bounded
  <2> QED  BY <2>1, <2>2, TravelSumAssumption DEF Area
<1>2. ASSUME NEW c \in Area(L) PROVE \E w \in Walks(t) : w[1] = c
  <2>1. <<c, L[c]>> \in Walks(t)
    BY ShortestIsWalked DEF Area
  <2> QED  BY <2>1
<1> QED  BY <1>1, <1>2 DEF Reached

-----------------------------------------------------------------------------
(* The distances of a search                                               *)

(* While a search goes on, a cell that is not as close as it could be will *)
(* be looked at from where it is closer; at the end there is none.         *)
LengthInv ==
  /\ pc \in {"search", "adjacent"} => Bounded(dist, cursor) /\ Connected(dist, cursor)
  /\ \A c, n \in Cell : pc = "search" /\ Stale(dist, c, n) =>
       c \in Range(border) \/ (c = cell /\ n \in Range(neighbours))
  /\ \A c, n \in Cell : pc = "adjacent" => ~Stale(dist, c, n)
  /\ \A c \in Range(border) : Source(c) /\ dist[c] < Unreachable
  /\ neighbours # <<>> =>
       /\ Source(cell) /\ dist[cell] < Unreachable
       /\ \A n \in Range(neighbours) : Adjacent(cell, n)

(* What the distances are compared with does not change during a call.     *)
LEMMA LengthsSteady ==
  ASSUME call' = call
  PROVE  /\ \A c : Source(c)' <=> Source(c)
         /\ Bounded(dist, cursor)' <=> Bounded(dist', cursor')
         /\ Connected(dist, cursor)' <=> Connected(dist', cursor')
         /\ \A c, n : Stale(dist, c, n)' <=> Stale(dist', c, n)
<1>1. /\ \A c : Source(c)' <=> Source(c)
      /\ \A c, n : LeadsOn(c, n)' <=> LeadsOn(c, n)
      /\ \A c, n : StepCost(c, n)' = StepCost(c, n)
      /\ Unreachable' = Unreachable
  BY StepsSteady, InputStable DEF Source, LeadsOn, Decays
<1>2. \A c, n : Stale(dist, c, n)' <=> Stale(dist', c, n)
  BY <1>1 DEF Stale
<1>3. Bounded(dist, cursor)' <=> Bounded(dist', cursor')
  BY <1>1 DEF Bounded
<1>4. Connected(dist, cursor)' <=> Connected(dist', cursor')
  BY <1>1 DEF Connected
<1> QED  BY <1>1, <1>2, <1>3, <1>4

(* Nothing is stale when a search is over.                                 *)
LEMMA SearchEnds ==
  ASSUME Inv, LengthInv, SearchOver \/ pc = "adjacent"
  PROVE  cursor \in Cell /\ IsLengths(dist, cursor)
<1>1. pc \in {"search", "adjacent"} /\ (pc = "search" => neighbours = <<>> /\ border = <<>>)
  BY DEF SearchOver
<1>2. \A c, n \in Cell : ~Stale(dist, c, n)
  BY <1>1, RangeEmpty DEF LengthInv
<1> QED  BY <1>1, <1>2 DEF LengthInv, Inv, TypeInv, IsLengths

(* A step into a cell without data is longer than any search goes.         *)
LEMMA NoDataIsFar ==
  ASSUME call \in CallType, NEW c \in Cell, NEW n \in Cell,
         ~Blocked(n), ~Source(n)
  PROVE  StepCost(c, n) \in Nat /\ StepCost(c, n) > Unreachable
<1> DEFINE step == IF Straight(c, n) THEN StraightStep ELSE DiagStep
<1>1. call.op = "sum_targets" /\ Resistance(n) = Huge
  BY DEF CallType, Operations, Blocked, Source, Within, Decays, Resistance
<1>2. StepCost(c, n) = step * Huge
  BY <1>1 DEF StepCost, Within
<1>3. \A a \in Nat \ {0}, b \in Nat : a * b \in Nat /\ a * b >= b
  OBVIOUS
<1>4. step \in Nat \ {0}
  BY TravelSumAssumption
<1> HIDE DEF step
<1>5. step * Huge \in Nat /\ step * Huge >= Huge
  BY <1>3, <1>4, TravelSumAssumption
<1>6. Unreachable = MaxResistance + StraightStep
  BY <1>1 DEF Unreachable, Within
<1> QED  BY <1>2, <1>5, <1>6, TravelSumAssumption

(* A shorter way to a cell leaves the others accounted for.                *)
LEMMA ImproveKeepsConnected ==
  ASSUME call \in CallType, NEW t \in Cell, NEW D, NEW E, NEW c \in Cell, NEW n \in Cell,
         Bounded(D, t), Connected(D, t), LeadsOn(c, n), D[c] < Unreachable,
         D[n] > D[c] + StepCost(c, n),
         E = [D EXCEPT ![n] = D[c] + StepCost(c, n)]
  PROVE  Bounded(E, t) /\ Connected(E, t)
<1> DEFINE d == D[c] + StepCost(c, n)
<1>1. /\ D \in [Cell -> Nat] /\ D[t] = 0 /\ \A b \in Cell : D[b] <= Unreachable
      /\ \A b \in Cell : D[b] < Unreachable => Source(b) \/ b = t
  BY DEF Bounded
<1>2. StepCost(c, n) \in Nat
  BY LeadsOnCost DEF LeadsOn
<1>3. d \in Nat /\ d < D[n] /\ d >= D[c] /\ d = D[c] + StepCost(c, n)
  BY <1>1, <1>2
<1>4. E = [D EXCEPT ![n] = d]
  OBVIOUS
<1> HIDE DEF d
<1>5. E \in [Cell -> Nat] /\ \A b \in Cell : E[b] = IF b = n THEN d ELSE D[b]
  BY <1>1, <1>3, <1>4
<1>6. d < Unreachable /\ n # t /\ n # c
  BY <1>1, <1>3, UnreachableType
<1>7. Source(n)
  <2> SUFFICES ASSUME ~Source(n) PROVE FALSE
    OBVIOUS
  <2>1. StepCost(c, n) > Unreachable
    BY NoDataIsFar DEF LeadsOn
  <2> QED  BY <1>1, <1>2, <1>3, <1>6, <2>1, UnreachableType
<1>8. Bounded(E, t)
  BY <1>1, <1>3, <1>5, <1>6, <1>7, UnreachableType DEF Bounded
<1>9. ASSUME NEW A \in SUBSET Cell, t \in A,
             NEW far \in Cell \ A, E[far] < Unreachable
      PROVE  \E a \in A, b \in Cell \ A :
               LeadsOn(a, b) /\ E[b] < Unreachable /\ E[b] >= E[a] + StepCost(a, b)
  <2>1. CASE n \in A
    <3>1. D[far] < Unreachable
      BY <1>5, <1>9, <2>1
    <3>2. PICK a \in A, b \in Cell \ A :
            LeadsOn(a, b) /\ D[b] < Unreachable /\ D[b] >= D[a] + StepCost(a, b)
      BY <1>9, <3>1 DEF Connected
    <3>3. E[b] = D[b] /\ E[a] <= D[a] /\ E[a] \in Nat /\ D[a] \in Nat /\ D[b] \in Nat
      BY <1>1, <1>3, <1>5, <2>1
    <3>4. StepCost(a, b) \in Nat
      BY <3>2, LeadsOnCost DEF LeadsOn
    <3>5. E[b] >= E[a] + StepCost(a, b)
      BY <3>2, <3>3, <3>4
    <3> QED  BY <3>2, <3>3, <3>5
  <2>2. CASE n \notin A /\ c \in A
    <3>1. E[n] = d /\ E[c] = D[c]
      BY <1>5, <1>6
    <3>2. E[n] >= E[c] + StepCost(c, n)
      BY <1>3, <3>1
    <3> QED  BY <1>6, <2>2, <3>1, <3>2
  <2>3. CASE n \notin A /\ c \notin A
    <3> DEFINE B == A \cup {b \in Cell : D[b] >= D[n]}
    <3>1. B \in SUBSET Cell /\ t \in B
      BY <1>9
    <3>2. c \in Cell \ B
      BY <1>1, <1>3, <2>3
    <3>3. \A b \in Cell \ B : b \notin A /\ b # n /\ D[b] < D[n]
      BY <1>1, <2>3
    <3>4. \A a \in B : a \in A \/ D[a] >= D[n]
      OBVIOUS
    <3> HIDE DEF B
    <3>5. PICK a \in B, b \in Cell \ B :
            LeadsOn(a, b) /\ D[b] < Unreachable /\ D[b] >= D[a] + StepCost(a, b)
      BY <3>1, <3>2 DEF Connected
    <3>6. a \in Cell /\ b \in Cell /\ StepCost(a, b) \in Nat
      BY <3>1, <3>5, LeadsOnCost DEF LeadsOn
    <3>7. a \in A
      BY <1>1, <3>3, <3>4, <3>5, <3>6
    <3>8. E[b] = D[b] /\ E[a] = D[a]
      BY <1>5, <2>3, <3>3, <3>6, <3>7
    <3> QED  BY <3>3, <3>5, <3>6, <3>7, <3>8
  <2> QED  BY <2>1, <2>2, <2>3
<1>10. Connected(E, t)
  BY <1>9 DEF Connected
<1> QED  BY <1>8, <1>10

(* Before the first search there is nothing to say.                        *)
LEMMA LengthInit == Init => LengthInv
<1> SUFFICES ASSUME Init PROVE LengthInv
  OBVIOUS
<1>1. pc = "scan" /\ border = <<>> /\ neighbours = <<>>
  BY DEF Init, Fifo!Init
<1> QED  BY <1>1, RangeEmpty DEF LengthInv

(* At first nothing is known but where the search starts.                  *)
LEMMA StartLength ==
  ASSUME Inv, LengthInv, StartSearch
  PROVE  LengthInv'
<1> DEFINE enters == Decays \/ call.resistance[cursor] # NoData
<1>1. /\ pc = "scan" /\ ~PastEnd(cursor) /\ pc' = "search"
      /\ UNCHANGED <<call, cursor, neighbours>>
      /\ IF enters THEN Fifo!PushBack(cursor)
                   ELSE UNCHANGED <<border, thrown, cell>>
  BY DEF StartSearch
<1>2. cursor \in Cell
  BY <1>1, NextCellInGrid DEF Inv, TypeInv
<1>3. dist' = [[c \in Cell |-> Unreachable] EXCEPT ![cursor] = 0]
  <2>1. Within => dist = [c \in Cell |-> Unreachable]
    BY <1>1 DEF Inv, ScratchInv, CleanInv
  <2> QED  BY <2>1, Zenon DEF StartSearch
<1>4. /\ dist' \in [Cell -> Nat]
      /\ \A c \in Cell : dist'[c] = IF c = cursor THEN 0 ELSE Unreachable
  BY <1>2, <1>3, UnreachableType
<1>5. border = <<>> /\ neighbours = <<>> /\ mark[cursor] # InBorder
  BY <1>1, <1>2, RangeEmpty DEF Inv, QueueInv
<1>6. enters <=> Source(cursor)
  BY DEF Source
<1> HIDE DEF enters
<1>7. Range(border') = IF enters THEN {cursor} ELSE {}
  <2>1. CASE enters
    <3>1. Priced(cursor)
      BY <1>6, <2>1 DEF Source, Decays, Within, Priced
    <3> QED  BY <1>1, <1>2, <1>5, <2>1, <3>1, PushKeepsQueue, RangeEmpty DEF Inv
  <2>2. CASE ~enters
    BY <1>1, <1>5, <2>2, RangeEmpty
  <2> QED  BY <2>1, <2>2
<1>8. Bounded(dist', cursor)
  BY <1>2, <1>4, UnreachableType DEF Bounded
<1>9. Connected(dist', cursor)
  BY <1>4, UnreachableType DEF Connected
<1>10. \A c, n \in Cell : Stale(dist', c, n) => c \in Range(border')
  BY <1>4, <1>6, <1>7, UnreachableType DEF Stale, LeadsOn
<1>11. \A c \in Range(border') : Source(c) /\ dist'[c] < Unreachable
  BY <1>2, <1>4, <1>6, <1>7, UnreachableType, TravelSumAssumption
<1>12. neighbours' = <<>>
  BY <1>1, <1>5
<1> QED  BY <1>1, <1>8, <1>9, <1>10, <1>11, <1>12, LengthsSteady, InputStable DEF LengthInv

(* What was stale from the cell that leaves the border is to be looked at. *)
LEMMA PopLength ==
  ASSUME Inv, LengthInv, Pop
  PROVE  LengthInv'
<1>1. /\ pc = "search" /\ neighbours = <<>>
      /\ border # <<>> /\ cell' = Head(border) /\ border' = Tail(border)
      /\ neighbours' = StraightNeighbours(cell') \o DiagNeighbours(cell')
      /\ UNCHANGED <<call, pc, cursor, dist>>
  BY DEF Pop, Fifo!PopHead
<1>2. border \in Seq(Cell)
  BY DEF Inv, TypeInv
<1>3. cell' \in Cell /\ Range(border) = {cell'} \cup Range(border')
  BY <1>1, <1>2, RangeHeadTail
<1>4. \A n \in Cell : n \in Range(neighbours') <=> Adjacent(cell', n)
  BY <1>1, <1>3, NeighboursComplete, RangeConcat DEF Adjacent
<1>5. Range(neighbours') \subseteq Cell
  <2>1. neighbours' \in Seq(Cell)
    BY <1>1, <1>3, NeighboursComplete, RangeConcat
  <2> QED  BY <2>1, InSequence
<1>6. Bounded(dist', cursor) /\ Connected(dist', cursor)
  BY <1>1 DEF LengthInv
<1>7. \A c, n \in Cell : Stale(dist', c, n) =>
        c \in Range(border') \/ (c = cell' /\ n \in Range(neighbours'))
  <2>1. \A c, n \in Cell : Stale(dist, c, n) => c \in Range(border) /\ Adjacent(c, n)
    BY <1>1, RangeEmpty DEF LengthInv, Stale, LeadsOn
  <2> QED  BY <1>1, <1>3, <1>4, <2>1
<1>8. \A c \in Range(border') \cup {cell'} : Source(c) /\ dist'[c] < Unreachable
  BY <1>1, <1>3 DEF LengthInv
<1>9. /\ \A c, n \in Cell : Stale(dist, c, n)' <=> Stale(dist', c, n)
      /\ Bounded(dist, cursor)' /\ Connected(dist, cursor)'
      /\ \A c : Source(c)' <=> Source(c)
      /\ Unreachable' = Unreachable
  BY <1>1, <1>6, LengthsSteady, InputStable
<1>10. \A n \in Range(neighbours') : Adjacent(cell', n)
  BY <1>4, <1>5
<1>11. pc' = "search"
  BY <1>1
<1> QED  BY <1>7, <1>8, <1>9, <1>10, <1>11 DEF LengthInv, Adjacent

(* A cell that has come closer is looked at again.                         *)
LEMMA ImproveLength ==
  ASSUME Inv, LengthInv, HandleCell, Improves(cell, Head(neighbours))
  PROVE  LengthInv'
<1> DEFINE n == Head(neighbours)
           d == dist[cell] + StepCost(cell, n)
<1>1. /\ pc = "search" /\ neighbours # <<>> /\ neighbours' = Tail(neighbours)
      /\ dist' = [dist EXCEPT ![n] = d]
      /\ IF mark[n] # InBorder
           THEN mark' = [mark EXCEPT ![n] = InBorder] /\ Fifo!PushBack(n)
           ELSE UNCHANGED <<cells, mark, border, thrown, cell>>
      /\ UNCHANGED <<call, pc, cursor>>
      /\ ~Blocked(n) /\ dist[n] > d
  BY DEF HandleCell, Improves
<1>2. cell \in Cell /\ neighbours \in Seq(Cell) /\ cursor \in Cell /\ call \in CallType
  BY <1>1 DEF Inv, TypeInv
<1>3. /\ n \in Cell /\ neighbours' \in Seq(Cell)
      /\ Range(neighbours) = {n} \cup Range(neighbours')
  BY <1>1, <1>2, RangeHeadTail
<1> HIDE DEF n
<1>4. LeadsOn(cell, n) /\ dist[cell] < Unreachable
  BY <1>1, <1>3 DEF LengthInv, LeadsOn
<1>5. Bounded(dist', cursor) /\ Connected(dist', cursor)
  <2>1. Bounded(dist, cursor) /\ Connected(dist, cursor)
    BY <1>1 DEF LengthInv
  <2> QED  BY <1>1, <1>2, <1>3, <1>4, <2>1, ImproveKeepsConnected
<1>6. StepCost(cell, n) \in Nat /\ dist \in [Cell -> Nat] /\ d = dist[cell] + StepCost(cell, n)
  BY <1>2, <1>3, <1>4, LeadsOnCost DEF LeadsOn, Inv, TypeInv
<1> HIDE DEF d
<1>7. d \in Nat /\ dist[cell] \in Nat /\ dist[n] \in Nat /\ n # cell
  BY <1>1, <1>2, <1>3, <1>6
<1>8. \A c \in Cell : dist'[c] = IF c = n THEN d ELSE dist[c]
  BY <1>1, <1>6
<1>9. Range(border') = Range(border) \cup {n} /\ cell' = cell
  <2>1. Priced(n)
    BY <1>1 DEF Priced, Blocked
  <2>2. CASE mark[n] # InBorder
    BY <1>1, <1>3, <2>1, <2>2, PushKeepsQueue DEF Inv
  <2>3. CASE mark[n] = InBorder
    BY <1>1, <1>3, <2>3 DEF Inv, QueueInv
  <2> QED  BY <2>2, <2>3
<1>10. d < Unreachable
  <2>1. dist[n] <= Unreachable
    BY <1>1, <1>3 DEF LengthInv, Bounded
  <2> QED  BY <1>1, <1>7, <2>1, UnreachableType
<1>11. Source(n)
  BY <1>2, <1>3, <1>4, <1>6, <1>7, <1>10, NoDataIsFar, UnreachableType DEF LeadsOn
<1>12. ASSUME NEW c \in Cell, NEW m \in Cell, Stale(dist', c, m)
       PROVE  c \in Range(border') \/ (c = cell' /\ m \in Range(neighbours'))
  <2>1. CASE c = n
    BY <1>9, <2>1
  <2>2. CASE c # n
    <3>1. LeadsOn(c, m) /\ dist[c] < Unreachable /\ dist'[m] > dist[c] + StepCost(c, m)
      BY <1>8, <1>12, <2>2 DEF Stale
    <3>2. StepCost(c, m) \in Nat /\ dist[c] \in Nat /\ dist[m] \in Nat /\ dist'[m] \in Nat
      BY <1>6, <1>7, <1>8, <3>1, LeadsOnCost, <1>2 DEF LeadsOn
    <3>3. dist[m] >= dist'[m]
      BY <1>1, <1>7, <1>8, <3>2
    <3>4. Stale(dist, c, m)
      BY <3>1, <3>2, <3>3 DEF Stale
    <3>5. c \in Range(border) \/ (c = cell /\ m \in Range(neighbours))
      BY <1>1, <3>4 DEF LengthInv
    <3>6. c = cell => m # n
      BY <1>6, <1>7, <1>8, <3>1, <3>2
    <3> QED  BY <1>3, <1>9, <3>5, <3>6
  <2> QED  BY <2>1, <2>2
<1>13. \A c \in Range(border') : Source(c) /\ dist'[c] < Unreachable
  <2>1. Range(border) \subseteq Cell
    BY InSequence DEF Inv, TypeInv
  <2> QED  BY <1>3, <1>8, <1>9, <1>10, <1>11, <2>1 DEF LengthInv
<1>14. /\ Source(cell') /\ dist'[cell'] < Unreachable
       /\ \A m \in Range(neighbours') : Adjacent(cell', m)
  BY <1>1, <1>2, <1>3, <1>4, <1>7, <1>8, <1>9 DEF LengthInv
<1>15. /\ \A c, m \in Cell : Stale(dist, c, m)' <=> Stale(dist', c, m)
       /\ Bounded(dist, cursor)' /\ Connected(dist, cursor)'
       /\ \A c : Source(c)' <=> Source(c)
       /\ Unreachable' = Unreachable
  BY <1>1, <1>5, LengthsSteady, InputStable
<1>16. pc' = "search"
  BY <1>1
<1> QED  BY <1>12, <1>13, <1>14, <1>15, <1>16 DEF LengthInv, Adjacent

(* A neighbour that the cell leaves as it is was not stale from there.     *)
LEMMA PassOverLength ==
  ASSUME Inv, LengthInv, HandleCell, ~Improves(cell, Head(neighbours))
  PROVE  LengthInv'
<1> DEFINE n == Head(neighbours)
<1>1. /\ pc = "search" /\ neighbours # <<>> /\ neighbours' = Tail(neighbours)
      /\ UNCHANGED <<call, pc, cursor, dist, border, cell>>
  BY DEF HandleCell
<1>2. Range(neighbours) = {n} \cup Range(neighbours')
  BY <1>1, RangeHeadTail DEF Inv, TypeInv
<1>3. ~Stale(dist, cell, n)
  BY DEF Stale, LeadsOn, Improves
<1> HIDE DEF n
<1>4. Bounded(dist', cursor) /\ Connected(dist', cursor)
  BY <1>1 DEF LengthInv
<1>5. \A c, m \in Cell : Stale(dist', c, m) =>
        c \in Range(border') \/ (c = cell' /\ m \in Range(neighbours'))
  BY <1>1, <1>2, <1>3 DEF LengthInv
<1>6. \A c \in Range(border') : Source(c) /\ dist'[c] < Unreachable
  BY <1>1 DEF LengthInv
<1>7. /\ Source(cell') /\ dist'[cell'] < Unreachable
      /\ \A m \in Range(neighbours') : Adjacent(cell', m)
  BY <1>1, <1>2 DEF LengthInv
<1>8. /\ \A c, m \in Cell : Stale(dist, c, m)' <=> Stale(dist', c, m)
      /\ Bounded(dist, cursor)' /\ Connected(dist, cursor)'
      /\ \A c : Source(c)' <=> Source(c)
      /\ Unreachable' = Unreachable
  BY <1>1, <1>4, LengthsSteady, InputStable
<1>9. pc' = "search"
  BY <1>1
<1> QED  BY <1>5, <1>6, <1>7, <1>8, <1>9 DEF LengthInv, Adjacent

(* Between two searches there is nothing to say.                           *)
LEMMA MoveOnLength ==
  ASSUME Inv, LengthInv, SkipCell \/ NextTarget \/ Return \/ Restore
  PROVE  LengthInv'
<1>1. pc' \in {"scan", "returned"} /\ UNCHANGED <<border, neighbours>>
  BY DEF SkipCell, NextTarget, Return, Restore, search
<1>2. border = <<>> /\ neighbours = <<>>
  BY DEF SkipCell, NextTarget, SearchOver, Return, Restore, Inv, QueueInv
<1> QED  BY <1>1, <1>2, RangeEmpty DEF LengthInv

(* While it sums, the function keeps the distances it has found.           *)
LEMMA SumUpLength ==
  ASSUME Inv, LengthInv, SumCells \/ AddAdjacent
  PROVE  LengthInv'
<1>1. /\ SearchOver \/ pc = "adjacent"
      /\ pc' = "adjacent" /\ UNCHANGED <<call, cursor, dist, border, neighbours>>
  BY DEF SumCells, AddAdjacent
<1>2. cursor \in Cell /\ IsLengths(dist, cursor)
  BY <1>1, SearchEnds
<1>3. border = <<>> /\ neighbours = <<>>
  BY <1>1 DEF SearchOver, Inv, QueueInv
<1>4. /\ \A c, m \in Cell : ~Stale(dist, c, m)'
      /\ Bounded(dist, cursor)' /\ Connected(dist, cursor)'
  BY <1>1, <1>2, LengthsSteady DEF IsLengths
<1> QED  BY <1>1, <1>3, <1>4, RangeEmpty DEF LengthInv

(* Every step keeps what is known of the distances.                        *)
LEMMA LengthNext == Inv /\ LengthInv /\ [Next]_vars => LengthInv'
<1> SUFFICES ASSUME Inv, LengthInv, [Next]_vars PROVE LengthInv'
  OBVIOUS
<1>1. CASE SkipCell \/ NextTarget \/ Return \/ Restore
  BY <1>1, MoveOnLength
<1>2. CASE StartSearch
  BY <1>2, StartLength
<1>3. CASE Pop
  BY <1>3, PopLength
<1>4. CASE HandleCell
  BY <1>4, ImproveLength, PassOverLength
<1>5. CASE SumCells \/ AddAdjacent
  BY <1>5, SumUpLength
<1>6. CASE UNCHANGED vars
  <2>1. UNCHANGED <<call, pc, cursor, dist, border, cell, neighbours>>
    BY <1>6 DEF vars, search
  <2>2. /\ Bounded(dist, cursor)' <=> Bounded(dist, cursor)
        /\ Connected(dist, cursor)' <=> Connected(dist, cursor)
        /\ \A c, m : Stale(dist, c, m)' <=> Stale(dist, c, m)
        /\ \A c : Source(c)' <=> Source(c)
        /\ Unreachable' = Unreachable
    BY <2>1, LengthsSteady, InputStable
  <2> QED  BY <2>1, <2>2 DEF LengthInv, Adjacent
<1> QED  BY <1>1, <1>2, <1>3, <1>4, <1>5, <1>6 DEF Next

-----------------------------------------------------------------------------
(* Sums of values                                                          *)

(* Value as a function.                                                    *)
ValueMap == [c \in Cell |-> Value(c)]

ValueSum(area) == SumFunctionOnSet(ValueMap, area)

(* Sums of values are integers.                                            *)
LEMMA ValueType ==
  ASSUME call \in CallType
  PROVE  /\ \A c \in Cell : Value(c) \in Int /\ ValueMap[c] = Value(c)
         /\ \A A \in SUBSET Cell : /\ IsFiniteSet(A)
                                   /\ \A c \in A : ValueMap[c] \in Int
                                   /\ ValueSum(A) \in Int
<1>1. \A c \in Cell : Value(c) \in Int /\ ValueMap[c] = Value(c)
  BY DEF CallType, Value, ValueMap
<1>2. ASSUME NEW A \in SUBSET Cell
      PROVE  IsFiniteSet(A) /\ (\A c \in A : ValueMap[c] \in Int) /\ ValueSum(A) \in Int
  <2>1. IsFiniteSet(A)
    BY CellsFinite, FS_Subset
  <2>2. \A c \in A : ValueMap[c] \in Int
    BY <1>1
  <2> QED  BY <2>1, <2>2, SumType DEF ValueSum
<1> QED  BY <1>1, <1>2

(* The library's two ways to sum agree.                                    *)
LEMMA ValueSumIs ==
  ASSUME call \in CallType, NEW A \in SUBSET Cell
  PROVE  MapThenSumSet(Value, A) = ValueSum(A)
<1> DEFINE Summing(g) == g = [s \in SUBSET A |->
                              IF s = {} THEN 0 ELSE Value(Pick(s)) + g[s \ {Pick(s)}]]
           g == CHOOSE g : Summing(g)
<1>1. MapThenSumSet(Value, A) = g[A]
  BY DEF MapThenSumSet, MapThenFoldSet, Pick
<1>2. /\ IsFiniteSet(A) /\ \A c \in A : ValueMap[c] \in Int
      /\ \A c \in A : ValueMap[c] = Value(c)
  BY ValueType
<1>3. \A h : Adds(h, ValueMap, A) <=> Summing(h)
  <2>1. \A s \in SUBSET A : s # {} => ValueMap[Pick(s)] = Value(Pick(s))
    BY <1>2 DEF Pick
  <2>2. \A h : [s \in SUBSET A |-> IF s = {} THEN 0 ELSE ValueMap[Pick(s)] + h[s \ {Pick(s)}]]
             = [s \in SUBSET A |-> IF s = {} THEN 0 ELSE Value(Pick(s)) + h[s \ {Pick(s)}]]
    BY <2>1
  <2> QED  BY <2>2 DEF Adds
<1>4. \E h : Summing(h)
  BY <1>2, <1>3, AddsExists
<1>5. Summing(g)
  BY <1>4
<1> HIDE DEF g
<1>6. ValueSum(A) = g[A]
  BY <1>2, <1>3, <1>5, SumIs DEF ValueSum
<1> QED  BY <1>1, <1>6

(* The library sums targets in either way to the same number.              *)
LEMMA MaskSumIs ==
  ASSUME NEW A
  PROVE  MapThenSumSet(LAMBDA t : call.mask[t], A) = SumFunctionOnSet(call.mask, A)
BY DEF MapThenSumSet, SumFunctionOnSet, FoldFunctionOnSet, MapThenFoldSet

(* A sum with one more summand.                                            *)
LEMMA SumAddOne ==
  ASSUME NEW S, IsFiniteSet(S), NEW f, NEW y, y \notin S, \A x \in S \cup {y} : f[x] \in Int
  PROVE  SumFunctionOnSet(f, S \cup {y}) = SumFunctionOnSet(f, S) + f[y]
<1> DEFINE U == S \cup {y}
<1>1. IsFiniteSet(U) /\ U \ {y} = S /\ y \in U /\ \A x \in U : f[x] \in Int
  BY FS_AddElement
<1>2. SumFunctionOnSet(f, S) \in Int /\ f[y] \in Int
  BY SumType
<1> HIDE DEF U
<1>3. SumFunctionOnSet(f, U) = f[y] + SumFunctionOnSet(f, U \ {y})
  BY <1>1, SumRemove
<1>4. SumFunctionOnSet(f, U) = f[y] + SumFunctionOnSet(f, S)
  BY <1>1, <1>3, Zenon
<1>5. SumFunctionOnSet(f, U) = SumFunctionOnSet(f, S) + f[y]
  BY <1>2, <1>4
<1> QED  BY <1>5 DEF U

(* A sum over two sets that share nothing.                                 *)
LEMMA SumDisjoint ==
  ASSUME NEW S, IsFiniteSet(S), NEW T, IsFiniteSet(T), S \cap T = {},
         NEW f, \A x \in S \cup T : f[x] \in Int
  PROVE  SumFunctionOnSet(f, S \cup T) = SumFunctionOnSet(f, S) + SumFunctionOnSet(f, T)
<1> DEFINE Odd == {s \in SUBSET T : SumFunctionOnSet(f, S \cup s)
                                      # SumFunctionOnSet(f, S) + SumFunctionOnSet(f, s)}
<1>1. Odd = {}
  <2> SUFFICES ASSUME Odd # {} PROVE FALSE
    OBVIOUS
  <2>1. PICK s \in Odd : \A x \in s : s \ {x} \notin Odd
    <3>1. Odd \in SUBSET (SUBSET T)
      OBVIOUS
    <3> HIDE DEF Odd
    <3> QED  BY <3>1, MinimalSet
  <2>2. /\ s \in SUBSET T
        /\ SumFunctionOnSet(f, S \cup s) # SumFunctionOnSet(f, S) + SumFunctionOnSet(f, s)
    OBVIOUS
  <2>3. SumFunctionOnSet(f, S) \in Int
    BY SumType
  <2>4. s # {}
    <3> SUFFICES ASSUME s = {} PROVE FALSE
      OBVIOUS
    <3>1. S \cup s = S /\ SumFunctionOnSet(f, s) = 0
      BY SumEmpty
    <3> QED  BY <2>2, <2>3, <3>1
  <2>5. PICK y \in s : TRUE
    BY <2>4
  <2> DEFINE r == s \ {y}
  <2>6. /\ IsFiniteSet(r) /\ IsFiniteSet(S \cup r) /\ r \in SUBSET T
        /\ y \notin r /\ y \notin S \cup r /\ r \cup {y} = s /\ (S \cup r) \cup {y} = S \cup s
    BY <2>2, <2>5, FS_Subset, FS_Union
  <2>7. SumFunctionOnSet(f, S \cup r) = SumFunctionOnSet(f, S) + SumFunctionOnSet(f, r)
    BY <2>1, <2>6
  <2> HIDE DEF r
  <2>8. SumFunctionOnSet(f, s) = SumFunctionOnSet(f, r) + f[y]
    BY <2>2, <2>5, <2>6, SumAddOne
  <2>9. SumFunctionOnSet(f, S \cup s) = SumFunctionOnSet(f, S \cup r) + f[y]
    <3> DEFINE q == S \cup r
    <3>1. IsFiniteSet(q) /\ y \notin q /\ q \cup {y} = S \cup s
      BY <2>6
    <3>2. \A x \in q \cup {y} : f[x] \in Int
      BY <2>2, <2>5, <2>6
    <3> HIDE DEF q
    <3>3. SumFunctionOnSet(f, q \cup {y}) = SumFunctionOnSet(f, q) + f[y]
      BY <3>1, <3>2, SumAddOne
    <3>4. SumFunctionOnSet(f, S \cup s) = SumFunctionOnSet(f, q) + f[y]
      BY <3>1, <3>3, Zenon
    <3> QED  BY <3>4 DEF q
  <2>10. f[y] \in Int /\ SumFunctionOnSet(f, r) \in Int
    BY <2>2, <2>5, <2>6, SumType
  <2> QED  BY <2>2, <2>3, <2>7, <2>8, <2>9, <2>10
<1> QED  BY <1>1

(* The sum along a list of distinct cells, up to any place in it.          *)
LEMMA ValuesAlong ==
  ASSUME call \in CallType, NEW w \in Seq(Cell)
  PROVE  \E g : /\ g[1 .. 0] = 0
                /\ \A k \in 1 .. Len(w) : g[1 .. k] = g[1 .. k - 1] + Value(w[k])
                /\ FoldLeft(LAMBDA s, c : s + Value(c), 0, w) = g[1 .. Len(w)]
<1> DEFINE n == Len(w)
           F == [p \in (1 .. n) \X Int |-> p[2] + Value(w[p[1]])]
           Keeps(g) == g = [s \in SUBSET (1 .. n) |->
                              IF s = {} THEN 0 ELSE g[s \ {Max(s)}] + Value(w[Max(s)])]
           g == CHOOSE g : Keeps(g)
<1>1. n \in Nat /\ DOMAIN w = 1 .. n
  OBVIOUS
<1>2. \A i \in 1 .. n : Value(w[i]) \in Int
  BY ValueType
<1>3. F \in [(1 .. n) \X Int -> Int]
  <2> HIDE DEF n
  <2> QED  BY <1>2
<1>4. \A i \in 1 .. n : \A x \in Int : F[<<i, x>>] = x + Value(w[i])
  OBVIOUS
<1>5. FoldLeft(LAMBDA s, c : s + Value(c), 0, w) = g[1 .. n]
  <2>1. DOMAIN w = 1 .. n
    BY <1>1
  <2> HIDE DEF n
  <2> QED  BY <2>1 DEF FoldLeft, MapThenFoldSet
<1> HIDE DEF n, F
<1>6. \E h : Keeps(h)
  <2>1. PICK h \in [SUBSET (1 .. n) -> Int] : Folds(h, 1 .. n, 0, F, Latest(n))
    <3>1. 0 \in Int
      OBVIOUS
    <3> QED  BY <1>1, <1>3, <3>1, LeftFoldExists
  <2>2. ASSUME NEW s \in SUBSET (1 .. n)
        PROVE  h[s] = IF s = {} THEN 0 ELSE h[s \ {Max(s)}] + Value(w[Max(s)])
    <3>1. \A r \in SUBSET (1 .. n) :
            h[r] = IF r = {} THEN 0
                   ELSE F[<<Latest(n)[r], h[r \ {Latest(n)[r]}]>>]
      <4>1. h = [r \in SUBSET (1 .. n) |->
                   IF r = {} THEN 0
                   ELSE F[<<Latest(n)[r], h[r \ {Latest(n)[r]}]>>]]
        BY <2>1 DEF Folds
      <4> QED  BY <4>1, Zenon
    <3>2. CASE s # {}
      <4>1. Latest(n)[s] = Max(s)
        BY DEF Latest
      <4>2. Max(s) \in 1 .. n /\ h[s \ {Max(s)}] \in Int
        BY <1>1, <3>2, MaxIs
      <4> QED  BY <1>4, <3>1, <3>2, <4>1, <4>2
    <3> QED  BY <3>1, <3>2
  <2>3. h = [s \in SUBSET (1 .. n) |->
               IF s = {} THEN 0 ELSE h[s \ {Max(s)}] + Value(w[Max(s)])]
    BY <2>1, <2>2
  <2> QED  BY <2>3
<1>7. Keeps(g)
  BY <1>6
<1> HIDE DEF g
<1>8. \A s \in SUBSET (1 .. n) :
        g[s] = IF s = {} THEN 0 ELSE g[s \ {Max(s)}] + Value(w[Max(s)])
  BY <1>7, Zenon
<1>9. g[1 .. 0] = 0
  <2>1. 1 .. 0 = {} /\ {} \in SUBSET (1 .. n)
    OBVIOUS
  <2> QED  BY <1>8, <2>1, Zenon
<1>10. ASSUME NEW k \in 1 .. n PROVE g[1 .. k] = g[1 .. k - 1] + Value(w[k])
  <2>1. /\ 1 .. k \in SUBSET (1 .. n) /\ 1 .. k # {}
        /\ (1 .. k) \ {k} = 1 .. k - 1
    BY <1>1, Segment
  <2>2. Max(1 .. k) = k
    BY <1>1, MaxIs
  <2> QED  BY <1>8, <2>1, <2>2, Zenon
<1> QED  BY <1>5, <1>9, <1>10 DEF n

(* The loop over the cells reached adds up the values of a set.            *)
LEMMA FoldIsValueSum ==
  ASSUME call \in CallType, NEW w \in Seq(Cell), Distinct(w)
  PROVE  FoldLeft(LAMBDA s, c : s + Value(c), 0, w) = ValueSum(Range(w))
<1> DEFINE n == Len(w)
           To(k) == {w[i] : i \in 1 .. k}
<1>1. PICK g : /\ g[1 .. 0] = 0
               /\ \A k \in 1 .. Len(w) : g[1 .. k] = g[1 .. k - 1] + Value(w[k])
               /\ FoldLeft(LAMBDA s, c : s + Value(c), 0, w) = g[1 .. Len(w)]
  BY ValuesAlong
<1>2. n \in Nat /\ Range(w) = To(n)
  BY DEF Range
<1> DEFINE Off == {k \in 0 .. n : g[1 .. k] # ValueSum(To(k))}
<1>3. Off = {}
  <2> SUFFICES ASSUME Off # {} PROVE FALSE
    OBVIOUS
  <2>1. PICK k \in Off : \A m \in Off : k <= m
    <3>1. Off \in SUBSET Nat
      OBVIOUS
    <3> HIDE DEF Off
    <3> QED  BY <3>1, LeastNatural
  <2>2. k \in 0 .. n /\ g[1 .. k] # ValueSum(To(k))
    OBVIOUS
  <2>3. k # 0
    <3> SUFFICES ASSUME k = 0 PROVE FALSE
      OBVIOUS
    <3>1. To(0) = {}
      OBVIOUS
    <3> QED  BY <1>1, <2>2, <3>1, SumEmpty DEF ValueSum
  <2>4. k \in 1 .. n /\ k - 1 \in 0 .. n /\ ~(k <= k - 1)
    BY <1>2, <2>2, <2>3
  <2>5. g[1 .. k - 1] = ValueSum(To(k - 1))
    BY <2>1, <2>4
  <2>6. To(k) = To(k - 1) \cup {w[k]} /\ w[k] \notin To(k - 1)
    <3>1. 1 .. k = (1 .. k - 1) \cup {k}
      BY <2>4
    <3>2. \A i \in 1 .. k - 1 : i \in 1 .. Len(w) /\ i # k
      BY <2>4
    <3> QED  BY <2>4, <3>1, <3>2 DEF Distinct
  <2>7. w[k] \in Cell /\ To(k - 1) \in SUBSET Cell
    BY <2>4
  <2> HIDE DEF To
  <2>8. ValueSum(To(k)) = ValueSum(To(k - 1)) + Value(w[k])
    <3>1. /\ IsFiniteSet(To(k - 1)) /\ ValueMap[w[k]] = Value(w[k])
          /\ \A c \in To(k - 1) \cup {w[k]} : ValueMap[c] \in Int
      BY <2>7, ValueType
    <3> DEFINE a == To(k - 1)
               x == w[k]
    <3>2. SumFunctionOnSet(ValueMap, a \cup {x}) = SumFunctionOnSet(ValueMap, a) + ValueMap[x]
      <4>1. x \notin a /\ IsFiniteSet(a) /\ \A c \in a \cup {x} : ValueMap[c] \in Int
        BY <2>6, <3>1
      <4> HIDE DEF a, x
      <4> QED  BY <4>1, SumAddOne
    <3>3. To(k) = a \cup {x}
      BY <2>6
    <3> QED  BY <3>1, <3>2, <3>3, Zenon DEF ValueSum
  <2> QED  BY <1>1, <2>2, <2>4, <2>5, <2>8
<1>4. n \in 0 .. n
  BY <1>2
<1> QED  BY <1>1, <1>2, <1>3, <1>4

-----------------------------------------------------------------------------
(* sum_within_travel_distance                                              *)

(* Where the scan is, and what it does there.                              *)
CursorInv ==
  /\ pc \in {"search", "adjacent"} => InMask(cursor)
  /\ pc = "returned" => PastEnd(cursor)
  /\ pc = "adjacent" => Within
  /\ Decays => added = {}

(* What sum_within is to find for a cell of the mask.                      *)
SumFrom(t) ==
  ValueSum(Reached(t)) + IF call.inclAdjacent THEN ValueSum(Around(Reached(t))) ELSE 0

(* The cells beside those that handleAdjacent has been called for.         *)
BesideVisited ==
  {n \in Cell : dist[n] > MaxResistance /\ \E i \in 1 .. visited : Straight(cells[i], n)}

(* The sum is that of the cells reached and of those beside the ones that  *)
(* have been visited so far.                                               *)
AroundInv ==
  Within =>
    /\ pc = "search" => sum = 0
    /\ pc = "adjacent" =>
         /\ visited <= Len(cells)
         /\ sum = ValueSum(Range(cells)) + ValueSum(adjacentCells)
         /\ adjacentCells = IF call.inclAdjacent THEN BesideVisited ELSE {}
         /\ ~call.inclAdjacent => visited = Len(cells)

SumWithinInv ==
  Within =>
    result = [t \in Cell |-> IF InMask(t) /\ Before(t, cursor) THEN SumFrom(t) ELSE 0]

(* The scan starts at the first cell.                                      *)
LEMMA CursorInit == Init => CursorInv
BY DEF Init, CursorInv

(* No step changes the arguments of the call.                              *)
LEMMA CallStays == [Next]_vars => call' = call
<1> SUFFICES ASSUME [Next]_vars PROVE call' = call
  OBVIOUS
<1>1. CASE SkipCell \/ StartSearch \/ Pop
  BY <1>1 DEF SkipCell, StartSearch, Pop
<1>2. CASE HandleCell \/ NextTarget \/ SumCells
  BY <1>2 DEF HandleCell, NextTarget, SumCells
<1>3. CASE AddAdjacent \/ Restore \/ Return \/ UNCHANGED vars
  BY <1>3 DEF AddAdjacent, Restore, Return, vars
<1> QED  BY <1>1, <1>2, <1>3 DEF Next

(* Searches start from the cells of the mask alone.                        *)
LEMMA CursorNext == CursorInv /\ [Next]_vars => CursorInv'
<1> SUFFICES ASSUME CursorInv, [Next]_vars PROVE CursorInv'
  OBVIOUS
<1>1. /\ \A c : InMask(c)' <=> InMask(c)
      /\ Within' <=> Within
      /\ Decays' <=> Decays
  BY CallStays DEF InMask, Within, Decays
<1>2. CASE SkipCell \/ NextTarget \/ Restore \/ Return
  <2>1. /\ added' = added /\ pc' \in {"scan", "returned"}
        /\ pc' = "returned" => PastEnd(cursor')
    BY <1>2 DEF SkipCell, NextTarget, Restore, Return
  <2> QED  BY <1>1, <2>1 DEF CursorInv
<1>3. CASE StartSearch
  <2>1. added' = {} /\ pc' = "search" /\ cursor' = cursor /\ InMask(cursor)
    BY <1>3 DEF StartSearch
  <2> QED  BY <1>1, <2>1 DEF CursorInv, InMask
<1>4. CASE Pop
  <2>1. pc = "search" /\ pc' = pc /\ cursor' = cursor /\ (Decays => added' = added)
    BY <1>4 DEF Pop
  <2> QED  BY <1>1, <2>1 DEF CursorInv, InMask
<1>5. CASE HandleCell \/ SumCells \/ AddAdjacent \/ UNCHANGED vars
  <2>1. /\ cursor' = cursor /\ added' = added
        /\ pc' # pc => pc = "search" /\ pc' = "adjacent" /\ Within
    BY <1>5 DEF HandleCell, SumCells, SearchOver, AddAdjacent, vars
  <2> QED  BY <1>1, <2>1 DEF CursorInv, InMask
<1> QED  BY <1>2, <1>3, <1>4, <1>5 DEF Next

(* Walks come to cells.                                                    *)
LEMMA ReachedType ==
  ASSUME call \in CallType, NEW t \in Cell
  PROVE  Walks(t) \in SUBSET (Cell \X Nat) /\ Reached(t) \in SUBSET Cell
<1>1. PICK f : IsWalks(f, t) /\ Walks(t) = f[Longest]
  BY WalksExist
<1>2. Walks(t) \in SUBSET (Cell \X Nat)
  <2>1. Longest \in 0 .. Longest
    BY LongestType
  <2> QED  BY <1>1, <2>1 DEF IsWalks
<1> QED  BY <1>2 DEF Reached

(* What a call is to find does not change while it runs.                   *)
LEMMA SumsSteady ==
  ASSUME call \in CallType, call' = call
  PROVE  /\ \A A : ValueSum(A)' = ValueSum(A)
         /\ \A t \in Cell : Reached(t)' = Reached(t)
         /\ \A t \in Cell : SumFrom(t)' = SumFrom(t)
         /\ \A t : InMask(t)' <=> InMask(t)
<1>1. ValueMap' = ValueMap
  BY DEF ValueMap, Value
<1>2. \A A : ValueSum(A)' = ValueSum(A)
  BY <1>1, Zenon DEF ValueSum
<1>3. ASSUME NEW t \in Cell PROVE Reached(t)' = Reached(t)
  BY WalksSteady, Zenon DEF Reached
<1>4. ASSUME NEW t \in Cell PROVE SumFrom(t)' = SumFrom(t)
  <2>1. Reached(t)' = Reached(t) /\ Around(Reached(t))' = Around(Reached(t))
    BY <1>3, Zenon DEF Around
  <2>2. ValueSum(Reached(t))' = ValueSum(Reached(t))
    BY <1>1, <2>1, Zenon DEF ValueSum
  <2>3. ValueSum(Around(Reached(t)))' = ValueSum(Around(Reached(t)))
    BY <1>1, <2>1, Zenon DEF ValueSum
  <2> QED  BY <2>2, <2>3 DEF SumFrom
<1> QED  BY <1>2, <1>3, <1>4 DEF InMask

(* Nothing has been summed yet.                                            *)
LEMMA AroundInit == Init => AroundInv
BY DEF Init, AroundInv

(* The first loop sums the cells reached.                                  *)
LEMMA SumCellsAround ==
  ASSUME Inv, AroundInv, SumCells
  PROVE  AroundInv'
<1>1. /\ pc = "search" /\ Within /\ pc' = "adjacent"
      /\ UNCHANGED <<call, cells, adjacentCells>>
      /\ visited' = IF call.inclAdjacent THEN 0 ELSE Len(cells)
  BY DEF SumCells, SearchOver
<1>2. call \in CallType /\ cells \in Seq(Cell) /\ Distinct(cells) /\ adjacentCells = {}
  BY <1>1 DEF Inv, TypeInv, ScratchInv
<1>3. sum' = ValueSum(Range(cells))
  <2>1. sum = 0
    BY <1>1 DEF AroundInv
  <2>2. FoldLeft(LAMBDA s, c : s + Value(c), 0, cells) = ValueSum(Range(cells))
    BY <1>2, FoldIsValueSum
  <2>3. sum' = FoldLeft(LAMBDA s, c : s + Value(c), sum, cells)
    BY DEF SumCells
  <2> QED  BY <2>1, <2>2, <2>3
<1>4. ValueSum(Range(cells)) \in Int /\ ValueSum({}) = 0
  BY <1>2, ValueType, InSequence, SumEmpty DEF ValueSum
<1>5. sum' = (ValueSum(Range(cells)) + ValueSum(adjacentCells))'
  <2>1. ValueMap' = ValueMap
    BY <1>1 DEF ValueMap, Value
  <2>2. ValueSum(Range(cells))' = ValueSum(Range(cells)) /\ ValueSum(adjacentCells)' = ValueSum({})
    BY <1>1, <1>2, <2>1, Zenon DEF ValueSum
  <2> QED  BY <1>3, <1>4, <2>2
<1>6. adjacentCells' = (IF call.inclAdjacent THEN BesideVisited ELSE {})'
  <2>1. call.inclAdjacent => BesideVisited' = {}
    <3>1. 1 .. 0 = {}
      OBVIOUS
    <3> QED  BY <1>1, <3>1 DEF BesideVisited
  <2> QED  BY <1>1, <1>2, <2>1
<1>7. (visited <= Len(cells) /\ (~call.inclAdjacent => visited = Len(cells)))'
  <2>1. Len(cells) \in Nat
    BY <1>2
  <2>2. visited' \in {0, Len(cells)} /\ (~call.inclAdjacent => visited' = Len(cells))
    BY <1>1
  <2>3. visited' <= Len(cells) /\ call' = call /\ cells' = cells
    BY <1>1, <2>1, <2>2
  <2> QED  BY <2>2, <2>3
<1>8. (pc # "search")'
  BY <1>1
<1> QED  BY <1>5, <1>6, <1>7, <1>8 DEF AroundInv

(* The neighbours that are new are those that handleAdjacent has not seen  *)
(* from an earlier cell.                                                   *)
LEMMA AddAdjacentAround ==
  ASSUME Inv, AroundInv, AddAdjacent
  PROVE  AroundInv'
<1> DEFINE next == cells[visited + 1]
           new == NewlyAdjacent(next)
<1>1. /\ pc = "adjacent" /\ visited < Len(cells) /\ visited' = visited + 1
      /\ sum' = sum + MapThenSumSet(Value, new)
      /\ adjacentCells' = adjacentCells \cup new
      /\ UNCHANGED <<call, pc, dist, cells>>
  BY DEF AddAdjacent
<1>2. /\ call \in CallType /\ cells \in Seq(Cell) /\ visited \in Nat
      /\ adjacentCells \in SUBSET Cell /\ dist \in [Cell -> Nat]
  BY DEF Inv, TypeInv
<1>3. next \in Cell
  BY <1>1, <1>2
<1>4. new = {n \in Cell : /\ Straight(next, n) /\ dist[n] > MaxResistance
                          /\ n \notin adjacentCells}
      \/ ~Within
  <2> SUFFICES ASSUME Within
               PROVE  new = {n \in Cell : /\ Straight(next, n) /\ dist[n] > MaxResistance
                                          /\ n \notin adjacentCells}
    OBVIOUS
  <2>1. \A n \in Cell : n \in Range(StraightNeighbours(next)) <=> Straight(next, n)
    BY <1>3, NeighboursComplete
  <2>2. Range(StraightNeighbours(next)) \subseteq Cell
    BY <1>3, NeighboursComplete, InSequence
  <2>3. \A n \in Cell : mark[n] = Todo <=> n \notin adjacentCells
    BY <1>1, MarksDiffer DEF Inv, ScratchInv
  <2> HIDE DEF next
  <2> QED  BY <2>1, <2>2, <2>3 DEF NewlyAdjacent
<1> HIDE DEF new, next
<1> SUFFICES ASSUME Within PROVE AroundInv'
  BY <1>1, InputStable DEF AroundInv
<1>5. new \in SUBSET Cell /\ adjacentCells \cap new = {}
  BY <1>4
<1>6. /\ sum = ValueSum(Range(cells)) + ValueSum(adjacentCells)
      /\ adjacentCells = IF call.inclAdjacent THEN BesideVisited ELSE {}
      /\ ~call.inclAdjacent => visited = Len(cells)
  BY <1>1 DEF AroundInv
<1>7. call.inclAdjacent
  BY <1>1, <1>2, <1>6
<1>8. ValueSum(adjacentCells \cup new) = ValueSum(adjacentCells) + ValueSum(new)
  <2>1. /\ IsFiniteSet(new) /\ IsFiniteSet(adjacentCells)
        /\ \A c \in adjacentCells \cup new : ValueMap[c] \in Int
    BY <1>2, <1>5, ValueType
  <2> QED  BY <1>5, <2>1, SumDisjoint DEF ValueSum
<1>9. sum' = (ValueSum(Range(cells)) + ValueSum(adjacentCells))'
  <2>1. MapThenSumSet(Value, new) = ValueSum(new)
    BY <1>2, <1>5, ValueSumIs
  <2>2. ValueMap' = ValueMap
    BY <1>1 DEF ValueMap, Value
  <2>3. /\ ValueSum(Range(cells))' = ValueSum(Range(cells))
        /\ ValueSum(adjacentCells)' = ValueSum(adjacentCells \cup new)
    BY <1>1, <2>2, Zenon DEF ValueSum
  <2>4. /\ ValueSum(Range(cells)) \in Int /\ ValueSum(adjacentCells) \in Int
        /\ ValueSum(new) \in Int
    BY <1>2, <1>5, ValueType, InSequence
  <2> QED  BY <1>1, <1>6, <1>8, <2>1, <2>3, <2>4
<1>10. adjacentCells' = BesideVisited'
  <2>1. 1 .. visited + 1 = (1 .. visited) \cup {visited + 1}
    BY <1>2
  <2>2. BesideVisited' = {n \in Cell : dist[n] > MaxResistance
                            /\ \E i \in 1 .. visited + 1 : Straight(cells[i], n)}
    BY <1>1 DEF BesideVisited
  <2>3. BesideVisited' = BesideVisited
          \cup {n \in Cell : dist[n] > MaxResistance /\ Straight(next, n)}
    BY <2>1, <2>2 DEF BesideVisited, next
  <2>4. adjacentCells = BesideVisited
    BY <1>6, <1>7
  <2> QED  BY <1>1, <1>4, <2>3, <2>4
<1>11. (visited <= Len(cells) /\ call.inclAdjacent)'
  BY <1>1, <1>2, <1>7
<1>12. (pc # "search")'
  BY <1>1
<1> QED  BY <1>9, <1>10, <1>11, <1>12 DEF AroundInv

(* Every step keeps what is known of the sum.                              *)
LEMMA AroundNext == Inv /\ AroundInv /\ [Next]_vars => AroundInv'
<1> SUFFICES ASSUME Inv, AroundInv, [Next]_vars PROVE AroundInv'
  OBVIOUS
<1>1. CASE SkipCell \/ NextTarget \/ Return \/ Restore
  <2>1. (pc \in {"scan", "returned"})'
    BY <1>1 DEF SkipCell, NextTarget, Return, Restore
  <2> QED  BY <2>1 DEF AroundInv
<1>2. CASE StartSearch
  BY <1>2 DEF StartSearch, AroundInv
<1>3. CASE Pop \/ HandleCell
  <2>1. pc = "search" /\ pc' = "search" /\ sum' = sum /\ call' = call
    BY <1>3 DEF Pop, HandleCell, summing
  <2> QED  BY <2>1, InputStable DEF AroundInv
<1>4. CASE SumCells
  BY <1>4, SumCellsAround
<1>5. CASE AddAdjacent
  BY <1>5, AddAdjacentAround
<1>6. CASE UNCHANGED vars
  <2>1. UNCHANGED <<call, pc, dist, cells, adjacentCells, visited, sum>>
    BY <1>6 DEF vars, search, summing
  <2>2. ValueMap' = ValueMap
    BY <2>1 DEF ValueMap, Value
  <2>3. /\ ValueSum(Range(cells))' = ValueSum(Range(cells))
        /\ ValueSum(adjacentCells)' = ValueSum(adjacentCells)
    BY <2>1, <2>2, Zenon DEF ValueSum
  <2>4. BesideVisited' = BesideVisited
    BY <2>1 DEF BesideVisited
  <2> QED  BY <2>1, <2>3, <2>4, InputStable DEF AroundInv
<1> QED  BY <1>1, <1>2, <1>3, <1>4, <1>5, <1>6 DEF Next

-----------------------------------------------------------------------------

(* No result is written yet.                                               *)
LEMMA WithinInit == Init => SumWithinInv
<1> SUFFICES ASSUME Init PROVE SumWithinInv
  OBVIOUS
<1>1. cursor = FirstCell /\ result = [c \in Cell |-> 0]
  BY DEF Init
<1>2. \A t \in Cell : ~Before(t, FirstCell)
  BY GridAssumption DEF Before, FirstCell, Cell
<1> QED  BY <1>1, <1>2 DEF SumWithinInv

(* When the sum is complete it is what sum_within is to find.              *)
LEMMA SumIsComplete ==
  ASSUME Inv, LengthInv, AroundInv, Restore
  PROVE  cursor \in Cell /\ (Within => sum = SumFrom(cursor))
<1>1. pc = "adjacent" /\ visited = Len(cells)
  BY DEF Restore
<1>2. cursor \in Cell /\ IsLengths(dist, cursor)
  BY <1>1, SearchEnds
<1>3. call \in CallType /\ cells \in Seq(Cell) /\ dist \in [Cell -> Nat]
  BY DEF Inv, TypeInv
<1> SUFFICES ASSUME Within PROVE sum = SumFrom(cursor)
  BY <1>2
<1>4. Reached(cursor) = Range(cells)
  <2>1. Reached(cursor) = Area(dist)
    BY <1>2, <1>3, ReachedIs
  <2>2. \A c \in Cell : c \in Range(cells) <=> dist[c] <= MaxResistance
    BY <1>1, <1>3, UnreachableType, TravelSumAssumption DEF Inv, ScratchInv, DistOfCells
  <2>3. Range(cells) \subseteq Cell
    BY <1>3, InSequence
  <2> QED  BY <2>1, <2>2, <2>3 DEF Area
<1>5. /\ sum = ValueSum(Range(cells)) + ValueSum(adjacentCells)
      /\ adjacentCells = IF call.inclAdjacent THEN BesideVisited ELSE {}
  BY <1>1 DEF AroundInv
<1>6. BesideVisited = Around(Range(cells))
  <2>1. \A n \in Cell : dist[n] > MaxResistance <=> n \notin Range(cells)
    BY <1>1, <1>3, UnreachableType, TravelSumAssumption DEF Inv, ScratchInv, DistOfCells
  <2>2. \A n : (\E i \in 1 .. visited : Straight(cells[i], n))
                 <=> \E c \in Range(cells) : Straight(c, n)
    BY <1>1, <1>3 DEF Range
  <2> QED  BY <2>1, <2>2 DEF BesideVisited, Around
<1>7. ValueSum({}) = 0
  BY SumEmpty DEF ValueSum
<1> QED  BY <1>4, <1>5, <1>6, <1>7 DEF SumFrom

(* Every step keeps what is known of the results of sum_within.            *)
LEMMA WithinNext ==
  Inv /\ LengthInv /\ AroundInv /\ CursorInv /\ SumWithinInv /\ [Next]_vars => SumWithinInv'
<1> SUFFICES ASSUME Inv, LengthInv, AroundInv, CursorInv, SumWithinInv, [Next]_vars
             PROVE  SumWithinInv'
  OBVIOUS
<1>1. call' = call /\ call \in CallType
  BY CallStays DEF Inv, TypeInv
<1> SUFFICES ASSUME Within PROVE SumWithinInv'
  BY <1>1, InputStable DEF SumWithinInv
<1> DEFINE Want(t, at) == IF InMask(t) /\ Before(t, at) THEN SumFrom(t) ELSE 0
<1>2. result = [t \in Cell |-> Want(t, cursor)]
  BY DEF SumWithinInv
<1>3. SUFFICES result' = [t \in Cell |-> Want(t, cursor')]
  <2>1. \A t \in Cell : SumFrom(t)' = SumFrom(t) /\ (InMask(t)' <=> InMask(t))
    BY <1>1, SumsSteady
  <2>2. \A t \in Cell : (IF InMask(t) /\ Before(t, cursor) THEN SumFrom(t) ELSE 0)'
                           = Want(t, cursor')
    BY <2>1
  <2>3. result' = [t \in Cell |-> (IF InMask(t) /\ Before(t, cursor) THEN SumFrom(t) ELSE 0)']
    BY <1>3, <2>2
  <2> QED  BY <2>3 DEF SumWithinInv
<1>4. CASE UNCHANGED <<cursor, result>>
  BY <1>2, <1>4
<1>5. CASE SkipCell
  <2>1. /\ cursor' = NextCell(cursor) /\ result' = result /\ ~InMask(cursor)
        /\ cursor \in (0 .. Rows) \X (0 .. Cols - 1) /\ ~PastEnd(cursor)
    BY <1>5 DEF SkipCell, Inv, TypeInv
  <2>2. \A t \in Cell : InMask(t) => (Before(t, cursor') <=> Before(t, cursor))
    BY <2>1, NextCellInGrid
  <2>3. \A t \in Cell : Want(t, cursor') = Want(t, cursor)
    BY <2>2
  <2> HIDE DEF Want
  <2> QED  BY <1>2, <2>1, <2>3
<1>6. CASE Restore
  <2>1. /\ cursor' = NextCell(cursor) /\ result' = [result EXCEPT ![cursor] = sum]
        /\ cursor \in Cell /\ sum = SumFrom(cursor) /\ InMask(cursor)
    BY <1>6, SumIsComplete DEF Restore, CursorInv
  <2>2. \A t \in Cell : Before(t, cursor') <=> Before(t, cursor) \/ t = cursor
    <3>1. ~PastEnd(cursor) /\ cursor \in (0 .. Rows) \X (0 .. Cols - 1)
      BY <2>1, GridAssumption DEF PastEnd, Cell
    <3> QED  BY <2>1, <3>1, NextCellInGrid
  <2>3. \A t \in Cell : Want(t, cursor') = IF t = cursor THEN sum ELSE Want(t, cursor)
    BY <2>1, <2>2
  <2> HIDE DEF Want
  <2> QED  BY <1>2, <2>1, <2>3
<1>7. CASE StartSearch \/ Return \/ SumCells \/ AddAdjacent \/ HandleCell \/ UNCHANGED vars
  BY <1>4, <1>7 DEF StartSearch, Return, SumCells, AddAdjacent, HandleCell, vars
<1>8. CASE Pop
  BY <1>4, <1>8 DEF Pop
<1>9. CASE NextTarget
  BY <1>9 DEF NextTarget
<1> QED  BY <1>5, <1>6, <1>7, <1>8, <1>9 DEF Next

-----------------------------------------------------------------------------
(* sum_targets_within_travel_distance                                      *)

(* The targets before cell at that have reached c.                         *)
Passed(c, at) ==
  {t \in Cell : InMask(t) /\ Source(t) /\ Before(t, at) /\ c \in Reached(t)}

TargetSum(c, at) == SumFunctionOnSet(call.mask, Passed(c, at))

AddedNow(c) == pc = "search" /\ c \in added

(* The target at the cursor has been added for the cells it has come to    *)
(* that are no longer in the border.                                       *)
SumTargetsInv ==
  call.op = "sum_targets" =>
    /\ result = [c \in Cell |-> TargetSum(c, cursor)
                                  + IF AddedNow(c) THEN call.mask[cursor] ELSE 0]
    /\ pc = "search" =>
         /\ added \subseteq {c \in Cell : dist[c] <= MaxResistance}
         /\ Source(cursor) =>
              \A c \in Cell : dist[c] <= MaxResistance => c \in added \cup Range(border)
         /\ ~Source(cursor) => added = {} /\ border = <<>> /\ neighbours = <<>>

(* Sums of targets are integers.                                           *)
LEMMA TargetSumType ==
  ASSUME call \in CallType
  PROVE  /\ \A t \in Cell : InMask(t) => call.mask[t] \in Int
         /\ \A A \in SUBSET {t \in Cell : InMask(t)} :
              /\ IsFiniteSet(A) /\ \A t \in A : call.mask[t] \in Int
              /\ SumFunctionOnSet(call.mask, A) \in Int
<1>1. \A t \in Cell : InMask(t) => call.mask[t] \in Int
  BY DEF CallType, InMask
<1>2. ASSUME NEW A \in SUBSET {t \in Cell : InMask(t)}
      PROVE  /\ IsFiniteSet(A) /\ \A t \in A : call.mask[t] \in Int
             /\ SumFunctionOnSet(call.mask, A) \in Int
  <2>1. IsFiniteSet(A) /\ \A t \in A : call.mask[t] \in Int
    BY <1>1, CellsFinite, FS_Subset
  <2> QED  BY <2>1, SumType
<1> QED  BY <1>1, <1>2

(* What targets reach does not change during a call.                       *)
LEMMA TargetsSteady ==
  ASSUME call \in CallType, call' = call
  PROVE  /\ \A c : TargetSum(c, cursor)' = TargetSum(c, cursor')
         /\ Source(cursor)' <=> Source(cursor')
         /\ (call.op = "sum_targets")' <=> call.op = "sum_targets"
<1>1. ASSUME NEW c PROVE Passed(c, cursor)' = Passed(c, cursor')
  BY SumsSteady, LengthsSteady DEF Passed
<1>2. ASSUME NEW c PROVE TargetSum(c, cursor)' = TargetSum(c, cursor')
  BY <1>1, Zenon DEF TargetSum
<1>3. Source(cursor)' <=> Source(cursor')
  BY DEF Source, Decays
<1> QED  BY <1>2, <1>3

(* No target has been added yet.                                           *)
LEMMA TargetsInit == Init => SumTargetsInv
<1> SUFFICES ASSUME Init PROVE SumTargetsInv
  OBVIOUS
<1>1. cursor = FirstCell /\ result = [c \in Cell |-> 0] /\ pc = "scan"
  BY DEF Init
<1>2. \A c \in Cell : TargetSum(c, cursor) = 0
  <2>1. \A c : Passed(c, cursor) = {}
    BY <1>1, GridAssumption DEF Passed, Before, FirstCell, Cell
  <2> QED  BY <2>1, SumEmpty DEF TargetSum
<1> QED  BY <1>1, <1>2 DEF SumTargetsInv, AddedNow

(* The target is added for the cell that leaves the border, once.          *)
LEMMA PopTargets ==
  ASSUME Inv, CursorInv, SumTargetsInv, Pop
  PROVE  SumTargetsInv'
<1>1. /\ pc = "search" /\ pc' = "search" /\ neighbours = <<>>
      /\ border # <<>> /\ cell' = Head(border) /\ border' = Tail(border)
      /\ UNCHANGED <<call, cursor, dist>>
      /\ call \in CallType /\ border \in Seq(Cell)
  BY DEF Pop, Fifo!PopHead, Inv, TypeInv
<1>2. cell' \in Cell /\ Range(border) = {cell'} \cup Range(border')
  BY <1>1, RangeHeadTail
<1> SUFFICES ASSUME call.op = "sum_targets" PROVE SumTargetsInv'
  BY <1>1 DEF SumTargetsInv
<1>3. IF dist[cell'] <= MaxResistance /\ cell' \notin added
        THEN /\ result' = [result EXCEPT ![cell'] = result[cell'] + call.mask[cursor]]
             /\ added' = added \cup {cell'}
        ELSE UNCHANGED <<result, added>>
  BY DEF Pop, Within, Decays, Arrived
<1> DEFINE Got(c) == TargetSum(c, cursor) + IF c \in added THEN call.mask[cursor] ELSE 0
           Gets(c) == TargetSum(c, cursor) + IF c \in added' THEN call.mask[cursor] ELSE 0
<1>4. result = [c \in Cell |-> Got(c)]
  BY <1>1 DEF SumTargetsInv, AddedNow
<1>5. /\ added \subseteq {c \in Cell : dist[c] <= MaxResistance}
      /\ Source(cursor) =>
           \A c \in Cell : dist[c] <= MaxResistance => c \in added \cup Range(border)
      /\ ~Source(cursor) => added = {} /\ border = <<>> /\ neighbours = <<>>
  BY <1>1 DEF SumTargetsInv
<1>6. call.mask[cursor] \in Int /\ \A c \in Cell : TargetSum(c, cursor) \in Int
  <2>1. InMask(cursor) /\ cursor \in Cell
    BY <1>1 DEF CursorInv, Inv, TypeInv
  <2>2. \A c : Passed(c, cursor) \in SUBSET {t \in Cell : InMask(t)}
    BY DEF Passed
  <2> QED  BY <1>1, <2>1, <2>2, TargetSumType DEF TargetSum
<1>7. result' = [c \in Cell |-> Gets(c)]
  <2>1. CASE dist[cell'] <= MaxResistance /\ cell' \notin added
    <3>1. added' = added \cup {cell'} /\ result' = [result EXCEPT ![cell'] = result[cell'] + call.mask[cursor]]
      BY <1>3, <2>1
    <3>2. Gets(cell') = Got(cell') + call.mask[cursor]
      BY <1>2, <1>6, <2>1, <3>1
    <3>3. \A c \in Cell : c # cell' => Gets(c) = Got(c)
      BY <3>1
    <3> HIDE DEF Got, Gets
    <3> QED  BY <1>2, <1>4, <3>1, <3>2, <3>3
  <2>2. CASE ~(dist[cell'] <= MaxResistance /\ cell' \notin added)
    <3>1. added' = added /\ result' = result
      BY <1>3, <2>2
    <3> QED  BY <1>4, <3>1
  <2> QED  BY <2>1, <2>2
<1>8. added' \subseteq {c \in Cell : dist'[c] <= MaxResistance}
  BY <1>1, <1>2, <1>3, <1>5
<1>9. \A c \in Cell : dist'[c] <= MaxResistance => c \in added' \cup Range(border')
  BY <1>1, <1>2, <1>3, <1>5
<1>10. Source(cursor)'
  <2>1. Source(cursor)
    BY <1>1, <1>5
  <2> QED  BY <1>1, <2>1, TargetsSteady
<1>11. (result = [c \in Cell |-> TargetSum(c, cursor)
                                   + IF AddedNow(c) THEN call.mask[cursor] ELSE 0])'
  <2>1. \A c : TargetSum(c, cursor)' = TargetSum(c, cursor)
    BY <1>1, TargetsSteady
  <2>2. \A c : AddedNow(c)' <=> c \in added'
    BY <1>1 DEF AddedNow
  <2> QED  BY <1>1, <1>7, <2>1, <2>2
<1> QED  BY <1>8, <1>9, <1>10, <1>11 DEF SumTargetsInv

(* A cell that comes closer is in the border.                              *)
LEMMA HandleBrings ==
  ASSUME Inv, HandleCell
  PROVE  /\ Range(border) \subseteq Range(border')
         /\ \A c \in Cell : dist'[c] # dist[c] =>
              c \in Range(border') /\ dist'[c] \in Nat /\ dist'[c] <= dist[c]
<1> DEFINE n == Head(neighbours)
           d == dist[cell] + StepCost(cell, n)
<1>1. /\ neighbours # <<>> /\ call \in CallType /\ cell \in Cell
      /\ dist \in [Cell -> Nat] /\ n \in Cell
  BY RangeHeadTail DEF HandleCell, Inv, TypeInv
<1>2. CASE Improves(cell, n)
  <2>1. /\ dist' = [dist EXCEPT ![n] = d] /\ dist[n] > d /\ ~Blocked(n)
        /\ IF mark[n] # InBorder
             THEN Fifo!PushBack(n)
             ELSE UNCHANGED border
    BY <1>2 DEF HandleCell, Improves
  <2>2. Priced(cell) /\ Priced(n)
    BY <1>1, <2>1 DEF Inv, TypeInv, Priced, Blocked
  <2>3. d \in Nat
    <3>1. StepCost(cell, n) \in Nat
      BY <1>1, <2>1, <2>2, StepCostType
    <3> QED  BY <1>1, <3>1
  <2> HIDE DEF n, d
  <2>4. Range(border') = Range(border) \cup {n}
    <3>1. CASE mark[n] # InBorder
      BY <1>1, <2>1, <2>2, <3>1, PushKeepsQueue DEF Inv
    <3>2. CASE mark[n] = InBorder
      BY <1>1, <2>1, <3>2 DEF Inv, QueueInv
    <3> QED  BY <3>1, <3>2
  <2>5. \A c \in Cell : dist'[c] = IF c = n THEN d ELSE dist[c]
    BY <1>1, <2>1
  <2> QED  BY <1>1, <2>1, <2>3, <2>4, <2>5
<1>3. CASE ~Improves(cell, n)
  BY <1>3 DEF HandleCell
<1> QED  BY <1>2, <1>3

(* A cell that comes closer goes back to the border and stays added.       *)
LEMMA HandleTargets ==
  ASSUME Inv, SumTargetsInv, HandleCell
  PROVE  SumTargetsInv'
<1>1. /\ pc = "search" /\ pc' = "search" /\ neighbours # <<>>
      /\ UNCHANGED <<call, cursor, added, result>>
      /\ call \in CallType /\ dist \in [Cell -> Nat]
  BY DEF HandleCell, Inv, TypeInv
<1> SUFFICES ASSUME call.op = "sum_targets" PROVE SumTargetsInv'
  BY <1>1 DEF SumTargetsInv
<1>2. /\ added \subseteq {c \in Cell : dist[c] <= MaxResistance}
      /\ \A c \in Cell : dist[c] <= MaxResistance => c \in added \cup Range(border)
      /\ Source(cursor)
  BY <1>1 DEF SumTargetsInv
<1>3. /\ Range(border) \subseteq Range(border')
      /\ \A c \in Cell : dist'[c] # dist[c] =>
           c \in Range(border') /\ dist'[c] \in Nat /\ dist'[c] <= dist[c]
  BY HandleBrings
<1>4. added' \subseteq {c \in Cell : dist'[c] <= MaxResistance}
  BY <1>1, <1>2, <1>3, TravelSumAssumption
<1>5. \A c \in Cell : dist'[c] <= MaxResistance => c \in added' \cup Range(border')
  BY <1>1, <1>2, <1>3
<1>6. Source(cursor)'
  BY <1>1, <1>2, TargetsSteady
<1>7. (result = [c \in Cell |-> TargetSum(c, cursor)
                                  + IF AddedNow(c) THEN call.mask[cursor] ELSE 0])'
  <2>1. \A c : TargetSum(c, cursor)' = TargetSum(c, cursor)
    BY <1>1, TargetsSteady
  <2>2. \A c : AddedNow(c)' <=> AddedNow(c)
    BY <1>1 DEF AddedNow
  <2> QED  BY <1>1, <2>1, <2>2 DEF SumTargetsInv
<1> QED  BY <1>4, <1>5, <1>6, <1>7 DEF SumTargetsInv

(* At first a target has been added for no cell.                           *)
LEMMA StartTargets ==
  ASSUME Inv, CursorInv, SumTargetsInv, StartSearch
  PROVE  SumTargetsInv'
<1> DEFINE enters == Decays \/ call.resistance[cursor] # NoData
<1>1. /\ pc = "scan" /\ ~PastEnd(cursor) /\ pc' = "search" /\ added' = {}
      /\ UNCHANGED <<call, cursor, neighbours, result>>
      /\ IF enters THEN Fifo!PushBack(cursor)
                   ELSE UNCHANGED <<border, thrown, cell>>
      /\ call \in CallType
  BY DEF StartSearch, Inv, TypeInv
<1>2. cursor \in Cell
  BY <1>1, NextCellInGrid DEF Inv, TypeInv
<1> SUFFICES ASSUME call.op = "sum_targets" PROVE SumTargetsInv'
  BY <1>1 DEF SumTargetsInv
<1>3. dist' = [[c \in Cell |-> Unreachable] EXCEPT ![cursor] = 0]
  BY DEF StartSearch, Within
<1>4. \A c \in Cell : dist'[c] <= MaxResistance => c = cursor
  BY <1>2, <1>3, UnreachableType, TravelSumAssumption
<1>5. border = <<>> /\ neighbours = <<>> /\ mark[cursor] # InBorder
  BY <1>1, <1>2, RangeEmpty DEF Inv, QueueInv
<1>6. enters <=> Source(cursor)
  BY DEF Source
<1> HIDE DEF enters
<1>7. IF enters THEN Range(border') = {cursor} ELSE border' = <<>>
  <2>1. Within => Priced(cursor)
    BY DEF Within
  <2>2. enters => Priced(cursor)
    BY <2>1 DEF Priced
  <2>3. CASE enters
    BY <1>1, <1>2, <1>5, <2>2, <2>3, PushKeepsQueue, RangeEmpty DEF Inv
  <2>4. CASE ~enters
    BY <1>1, <1>5, <2>4
  <2> QED  BY <2>3, <2>4
<1>8. Source(cursor)' <=> Source(cursor)
  BY <1>1, TargetsSteady
<1>9. (result = [c \in Cell |-> TargetSum(c, cursor)
                                  + IF AddedNow(c) THEN call.mask[cursor] ELSE 0])'
  <2>1. \A c : TargetSum(c, cursor)' = TargetSum(c, cursor)
    BY <1>1, TargetsSteady
  <2>2. \A c : ~AddedNow(c)' /\ ~AddedNow(c)
    BY <1>1 DEF AddedNow
  <2> QED  BY <1>1, <2>1, <2>2 DEF SumTargetsInv
<1> QED  BY <1>1, <1>4, <1>5, <1>6, <1>7, <1>8, <1>9 DEF SumTargetsInv

(* When the search is over, the target has been added for all the cells it *)
(* has reached.                                                            *)
LEMMA NextTargets ==
  ASSUME Inv, LengthInv, CursorInv, SumTargetsInv, NextTarget
  PROVE  SumTargetsInv'
<1>1. /\ SearchOver /\ pc = "search" /\ pc' = "scan" /\ border = <<>>
      /\ cursor' = NextCell(cursor) /\ UNCHANGED <<call, result>>
      /\ call \in CallType
  BY DEF NextTarget, SearchOver, Inv, TypeInv
<1>2. cursor \in Cell /\ IsLengths(dist, cursor) /\ InMask(cursor)
  BY <1>1, SearchEnds DEF CursorInv
<1> SUFFICES ASSUME call.op = "sum_targets" PROVE SumTargetsInv'
  BY <1>1 DEF SumTargetsInv
<1>3. Reached(cursor) = Area(dist)
  BY <1>1, <1>2, ReachedIs
<1>4. /\ added \subseteq {c \in Cell : dist[c] <= MaxResistance}
      /\ Source(cursor) => \A c \in Cell : dist[c] <= MaxResistance => c \in added
      /\ ~Source(cursor) => added = {}
  BY <1>1, RangeEmpty DEF SumTargetsInv
<1>5. \A t \in Cell : Before(t, cursor') <=> Before(t, cursor) \/ t = cursor
  <2>1. ~PastEnd(cursor) /\ cursor \in (0 .. Rows) \X (0 .. Cols - 1)
    BY <1>2, GridAssumption DEF PastEnd, Cell
  <2> QED  BY <1>1, <2>1, NextCellInGrid
<1>6. \A c \in Cell : Passed(c, cursor')
        = Passed(c, cursor) \cup (IF c \in added THEN {cursor} ELSE {})
  BY <1>2, <1>3, <1>4, <1>5 DEF Passed, Area
<1>7. ASSUME NEW c \in Cell
      PROVE  TargetSum(c, cursor') = TargetSum(c, cursor)
                                       + IF c \in added THEN call.mask[cursor] ELSE 0
  <2> DEFINE P == Passed(c, cursor)
  <2>1. /\ IsFiniteSet(P) /\ SumFunctionOnSet(call.mask, P) \in Int
        /\ \A t \in P \cup {cursor} : call.mask[t] \in Int
    <3>1. P \in SUBSET {t \in Cell : InMask(t)}
      BY DEF Passed
    <3>2. call.mask[cursor] \in Int
      BY <1>1, <1>2, TargetSumType
    <3> HIDE DEF P
    <3> QED  BY <1>1, <3>1, <3>2, TargetSumType
  <2>2. cursor \notin P
    BY GridAssumption, <1>2 DEF Passed, Before, Cell
  <2>3. CASE c \in added
    <3>1. Passed(c, cursor') = P \cup {cursor}
      BY <1>6, <2>3
    <3> HIDE DEF P
    <3>2. SumFunctionOnSet(call.mask, P \cup {cursor})
            = SumFunctionOnSet(call.mask, P) + call.mask[cursor]
      <4> DEFINE f == call.mask
                 y == cursor
      <4>1. IsFiniteSet(P) /\ y \notin P /\ \A x \in P \cup {y} : f[x] \in Int
        BY <2>1, <2>2
      <4> HIDE DEF f, y
      <4>2. SumFunctionOnSet(f, P \cup {y}) = SumFunctionOnSet(f, P) + f[y]
        BY <4>1, SumAddOne
      <4> QED  BY <4>2 DEF f, y
    <3>3. TargetSum(c, cursor') = SumFunctionOnSet(call.mask, P) + call.mask[cursor]
      BY <3>1, <3>2, Zenon DEF TargetSum
    <3> QED  BY <2>3, <3>3 DEF TargetSum, P
  <2>4. CASE c \notin added
    <3>1. Passed(c, cursor') = P
      BY <1>6, <2>4
    <3>2. TargetSum(c, cursor') = TargetSum(c, cursor)
      BY <3>1, Zenon DEF TargetSum
    <3>3. TargetSum(c, cursor) \in Int
      BY <2>1 DEF TargetSum
    <3> QED  BY <2>4, <3>2, <3>3
  <2> QED  BY <2>3, <2>4
<1>8. ASSUME NEW c \in Cell PROVE TargetSum(c, cursor') \in Int
  <2>1. Passed(c, cursor') \in SUBSET {t \in Cell : InMask(t)}
    BY DEF Passed
  <2> QED  BY <1>1, <2>1, TargetSumType DEF TargetSum
<1>9. (result = [c \in Cell |-> TargetSum(c, cursor)
                                  + IF AddedNow(c) THEN call.mask[cursor] ELSE 0])'
  <2>1. \A c : TargetSum(c, cursor)' = TargetSum(c, cursor')
    BY <1>1, TargetsSteady
  <2>2. \A c : ~AddedNow(c)' /\ (AddedNow(c) <=> c \in added)
    BY <1>1 DEF AddedNow
  <2>3. result = [c \in Cell |-> TargetSum(c, cursor')]
    BY <1>7, <2>2 DEF SumTargetsInv
  <2>4. \A c \in Cell : TargetSum(c, cursor') = TargetSum(c, cursor') + 0
    BY <1>8
  <2> QED  BY <1>1, <2>1, <2>2, <2>3, <2>4
<1> QED  BY <1>1, <1>9 DEF SumTargetsInv

(* The scan passes a cell that is no target, or ends.                      *)
LEMMA ScanTargets ==
  ASSUME Inv, SumTargetsInv, SkipCell \/ Return
  PROVE  SumTargetsInv'
<1>1. /\ pc = "scan" /\ pc' # "search" /\ UNCHANGED <<call, result>>
      /\ call \in CallType
  BY DEF SkipCell, Return, Inv, TypeInv
<1>2. \A c : Passed(c, cursor') = Passed(c, cursor)
  <2>1. CASE SkipCell
    <3>1. \A t \in Cell : InMask(t) => (Before(t, cursor') <=> Before(t, cursor))
      BY <2>1, NextCellInGrid DEF SkipCell, Inv, TypeInv
    <3> QED  BY <3>1 DEF Passed
  <2>2. CASE Return
    BY <2>2 DEF Return
  <2> QED  BY <2>1, <2>2
<1>3. \A c : TargetSum(c, cursor)' = TargetSum(c, cursor)
  <2>1. \A c : TargetSum(c, cursor)' = TargetSum(c, cursor')
    BY <1>1, TargetsSteady
  <2> QED  BY <1>2, <2>1, Zenon DEF TargetSum
<1>4. \A c : ~AddedNow(c)' /\ ~AddedNow(c)
  BY <1>1 DEF AddedNow
<1>5. ASSUME call.op = "sum_targets"
      PROVE  (result = [c \in Cell |-> TargetSum(c, cursor)
                                  + IF AddedNow(c) THEN call.mask[cursor] ELSE 0])'
  BY <1>1, <1>3, <1>4, <1>5 DEF SumTargetsInv
<1> QED  BY <1>1, <1>5 DEF SumTargetsInv

(* Every step keeps what is known of the results of sum_targets.           *)
LEMMA TargetsNext ==
  Inv /\ LengthInv /\ CursorInv /\ SumTargetsInv /\ [Next]_vars => SumTargetsInv'
<1> SUFFICES ASSUME Inv, LengthInv, CursorInv, SumTargetsInv, [Next]_vars
             PROVE  SumTargetsInv'
  OBVIOUS
<1>1. CASE SkipCell \/ Return
  BY <1>1, ScanTargets
<1>2. CASE StartSearch
  BY <1>2, StartTargets
<1>3. CASE Pop
  BY <1>3, PopTargets
<1>4. CASE HandleCell
  BY <1>4, HandleTargets
<1>5. CASE NextTarget
  BY <1>5, NextTargets
<1>6. CASE SumCells \/ AddAdjacent \/ Restore
  <2>1. Within /\ call' = call
    BY <1>6 DEF SumCells, AddAdjacent, Restore, CursorInv
  <2> QED  BY <2>1 DEF SumTargetsInv, Within
<1>7. CASE UNCHANGED vars
  <2>1. /\ UNCHANGED <<call, pc, cursor, dist, border, neighbours, added, result>>
        /\ call \in CallType
    BY <1>7 DEF vars, search, Inv, TypeInv
  <2>2. /\ \A c : TargetSum(c, cursor)' = TargetSum(c, cursor)
        /\ Source(cursor)' <=> Source(cursor)
    BY <2>1, TargetsSteady
  <2>3. \A c : AddedNow(c)' <=> AddedNow(c)
    BY <2>1 DEF AddedNow
  <2> QED  BY <2>1, <2>2, <2>3 DEF SumTargetsInv
<1> QED  BY <1>1, <1>2, <1>3, <1>4, <1>5, <1>6, <1>7 DEF Next

-----------------------------------------------------------------------------
(* node_value_distance_decay                                               *)

(* A target has been searched from.                                        *)
SentBefore(t, at) == InMask(t) /\ Before(t, at)

(* What distance_decay has made of the targets before at, and of what the  *)
(* one at it has sent so far: no less than they send on any way, and no    *)
(* more than one of them does.  What has been found for the target at the  *)
(* cursor is of use until a shorter way is.                                *)
AtLeastSent(r, at) ==
  \A t \in Cell : SentBefore(t, at) =>
    \A w \in Walks(t) : r[w[1]] >= Decayed(call.mask[t], w[2])

SentBy(c, amount, at) ==
  \E t \in Cell : SentBefore(t, at) /\
    \E w \in Walks(t) : w[1] = c /\ amount = Decayed(call.mask[t], w[2])

OnItsWay(amount, at, d) ==
  \E l \in Nat : d <= l /\ l <= MaxResistance /\ amount = Decayed(call.mask[at], l)

DecayInv ==
  Decays =>
    /\ result \in [Cell -> Nat]
    /\ AtLeastSent(result, cursor)
    /\ \A c \in Cell : \/ result[c] = 0
                       \/ SentBy(c, result[c], cursor)
                       \/ pc = "search" /\ OnItsWay(result[c], cursor, dist[c])
    /\ pc = "search" =>
         \A c \in Cell : dist[c] <= MaxResistance /\ c \notin Range(border) =>
           result[c] >= Decayed(call.mask[cursor], dist[c])

(* Products with a natural number, by size.                                *)
LEMMA NatMonotone == \A m, x, y \in Nat : x <= y => m * x <= m * y
OBVIOUS

(* Products with a negative number are not above zero.                     *)
LEMMA NegativeTimes == \A m \in Int, x \in Nat : m <= 0 => m * x <= 0
OBVIOUS

(* Products of integers are integers.                                      *)
LEMMA IntTimes == \A m, x \in Int : m * x \in Int
OBVIOUS

(* The further a target has come the less is left of it; what is negative  *)
(* never counts.                                                           *)
LEMMA DecayedFacts ==
  ASSUME NEW m \in Int, NEW a \in Nat, NEW b \in Nat, a <= b, b <= MaxResistance
  PROVE  /\ Decayed(m, a) \in Int /\ Decayed(m, b) \in Int
         /\ m >= 0 => Decayed(m, b) <= Decayed(m, a)
         /\ m < 0 => Decayed(m, b) <= 0
<1> DEFINE x == Unreachable - b
           y == Unreachable - a
<1>1. x \in Nat /\ y \in Nat /\ x <= y
  BY UnreachableType, TravelSumAssumption
<1>2. Decayed(m, a) = m * y /\ Decayed(m, b) = m * x
  BY DEF Decayed
<1> HIDE DEF x, y
<1>3. m * x \in Int /\ m * y \in Int
  BY <1>1, IntTimes
<1>4. m >= 0 => m * x <= m * y
  BY <1>1, NatMonotone
<1>5. m < 0 => m * x <= 0
  BY <1>1, NegativeTimes
<1> QED  BY <1>2, <1>3, <1>4, <1>5

(* The largest of a set is the one that is.                                *)
LEMMA MaxIsThat ==
  ASSUME NEW S \in SUBSET Int, NEW x \in S, \A y \in S : x >= y
  PROVE  Max(S) = x
<1>1. Max(S) \in S /\ \A y \in S : Max(S) >= y
  BY DEF Max
<1> DEFINE y == Max(S)
<1>2. y \in Int /\ x \in Int /\ y >= x /\ x >= y
  BY <1>1
<1> HIDE DEF y
<1>3. y = x
  BY <1>2
<1> QED  BY <1>3 DEF y

(* No target has been sent yet.                                            *)
LEMMA DecayInit == Init => DecayInv
<1> SUFFICES ASSUME Init PROVE DecayInv
  OBVIOUS
<1>1. cursor = FirstCell /\ result = [c \in Cell |-> 0] /\ pc = "scan"
  BY DEF Init
<1>2. \A t \in Cell : ~Before(t, cursor)
  BY <1>1, GridAssumption DEF Before, FirstCell, Cell
<1> QED  BY <1>1, <1>2 DEF DecayInv, AtLeastSent, SentBefore

(* What targets send does not change during a call.                        *)
LEMMA DecaySteady ==
  ASSUME call \in CallType, call' = call
  PROVE  /\ Decays' <=> Decays
         /\ AtLeastSent(result, cursor)' <=> AtLeastSent(result', cursor')
         /\ \A c : SentBy(c, result[c], cursor)' <=> SentBy(c, result'[c], cursor')
         /\ \A c : OnItsWay(result[c], cursor, dist[c])'
                     <=> OnItsWay(result'[c], cursor', dist'[c])
         /\ \A m, d : Decayed(m, d)' = Decayed(m, d)
<1>1. Decays' <=> Decays
  BY DEF Decays
<1>2. \A t : SentBefore(t, cursor)' <=> SentBefore(t, cursor')
  BY DEF SentBefore, InMask
<1>3. \A m, d : Decayed(m, d)' = Decayed(m, d)
  BY InputStable DEF Decayed
<1>4. \A t \in Cell : Walks(t)' = Walks(t)
  BY WalksSteady
<1>5. AtLeastSent(result, cursor)' <=> AtLeastSent(result', cursor')
  BY <1>2, <1>3, <1>4 DEF AtLeastSent
<1>6. \A c : SentBy(c, result[c], cursor)' <=> SentBy(c, result'[c], cursor')
  BY <1>2, <1>3, <1>4 DEF SentBy
<1>7. \A c : OnItsWay(result[c], cursor, dist[c])'
               <=> OnItsWay(result'[c], cursor', dist'[c])
  BY <1>3 DEF OnItsWay
<1> QED  BY <1>1, <1>3, <1>5, <1>6, <1>7

(* The invariant in terms of the values after a step.                      *)
LEMMA DecayHolds ==
  ASSUME call \in CallType, call' = call,
         result' \in [Cell -> Nat],
         AtLeastSent(result', cursor'),
         \A c \in Cell : \/ result'[c] = 0
                         \/ SentBy(c, result'[c], cursor')
                         \/ pc' = "search" /\ OnItsWay(result'[c], cursor', dist'[c]),
         pc' = "search" =>
           \A c \in Cell : dist'[c] <= MaxResistance /\ c \notin Range(border') =>
             result'[c] >= Decayed(call.mask[cursor'], dist'[c])
  PROVE  DecayInv'
BY DecaySteady DEF DecayInv

(* A cell keeps the better of what it has and what arrives.                *)
LEMMA PopDecay ==
  ASSUME Inv, CursorInv, DecayInv, Decays, Pop
  PROVE  DecayInv'
<1>1. /\ pc = "search" /\ pc' = "search"
      /\ border # <<>> /\ cell' = Head(border) /\ border' = Tail(border)
      /\ UNCHANGED <<call, cursor, dist>>
      /\ call \in CallType /\ border \in Seq(Cell) /\ dist \in [Cell -> Nat]
      /\ cursor \in Cell /\ InMask(cursor)
  BY DEF Pop, Fifo!PopHead, Inv, TypeInv, CursorInv
<1>2. cell' \in Cell /\ Range(border) = {cell'} \cup Range(border')
  BY <1>1, RangeHeadTail
<1> DEFINE m == call.mask[cursor]
           sent == Decayed(m, dist[cell'])
           best == Max({result[cell'], sent})
<1>3. m \in Int
  BY <1>1, TargetSumType
<1>4. IF dist[cell'] <= MaxResistance
        THEN result' = [result EXCEPT ![cell'] = best]
        ELSE result' = result
  BY DEF Pop, Within, Decays, CursorInv, Arrived
<1>5. /\ result \in [Cell -> Nat] /\ AtLeastSent(result, cursor)
      /\ \A c \in Cell : \/ result[c] = 0
                         \/ SentBy(c, result[c], cursor)
                         \/ OnItsWay(result[c], cursor, dist[c])
      /\ \A c \in Cell : dist[c] <= MaxResistance /\ c \notin Range(border) =>
           result[c] >= Decayed(m, dist[c])
  BY <1>1 DEF DecayInv
<1>6. ASSUME dist[cell'] <= MaxResistance
      PROVE  /\ sent \in Int /\ best \in Nat /\ best >= result[cell'] /\ best >= sent
             /\ best = result[cell'] \/ best = sent
  <2> DEFINE d == dist[cell']
             a == result[cell']
             both == {a, sent}
  <2>1. d \in Nat /\ d <= MaxResistance /\ sent = Decayed(m, d)
    BY <1>1, <1>2, <1>6
  <2>2. a \in Nat
    BY <1>2, <1>5
  <2> HIDE DEF d, a, m, sent
  <2>3. sent \in Int
    <3>1. d <= d
      BY <2>1
    <3> QED  BY <1>3, <2>1, <3>1, DecayedFacts
  <2>4. both \in SUBSET Int /\ a \in both /\ sent \in both
    BY <2>2, <2>3
  <2>5. CASE a >= sent
    <3>1. \A y \in both : a >= y
      BY <2>2, <2>5
    <3> HIDE DEF both
    <3>2. Max(both) = a
      BY <2>4, <3>1, MaxIsThat
    <3>3. best = a
      BY <3>2 DEF both, a
    <3> QED  BY <2>2, <2>3, <2>5, <3>3 DEF a
  <2>6. CASE ~(a >= sent)
    <3>1. \A y \in both : sent >= y
      BY <2>2, <2>3, <2>6
    <3> HIDE DEF both
    <3>2. Max(both) = sent
      BY <2>4, <3>1, MaxIsThat
    <3>3. best = sent
      BY <3>2 DEF both, a
    <3>4. sent \in Nat /\ sent >= a
      BY <2>2, <2>3, <2>6
    <3> HIDE DEF best
    <3> QED  BY <2>3, <3>3, <3>4 DEF a
  <2> QED  BY <2>5, <2>6
<1>7. dist[cell'] <= MaxResistance => OnItsWay(sent, cursor, dist[cell'])
  BY <1>1, <1>2 DEF OnItsWay
<1>8. dist[cell'] <= MaxResistance => sent = Decayed(m, dist[cell'])
  OBVIOUS
<1> HIDE DEF sent, best, m
<1>9. /\ result' \in [Cell -> Nat]
      /\ \A c \in Cell : c # cell' => result'[c] = result[c]
      /\ \A c \in Cell : result'[c] >= result[c]
      /\ IF dist[cell'] <= MaxResistance THEN result'[cell'] = best
                                         ELSE result'[cell'] = result[cell']
  BY <1>2, <1>4, <1>5, <1>6
<1>10. AtLeastSent(result', cursor')
  <2> SUFFICES ASSUME NEW t \in Cell, SentBefore(t, cursor), NEW w \in Walks(t)
               PROVE  result'[w[1]] >= Decayed(call.mask[t], w[2])
    BY <1>1 DEF AtLeastSent
  <2>1. w[1] \in Cell /\ w[2] \in Nat
    BY <1>1, ReachedType
  <2>2. result[w[1]] >= Decayed(call.mask[t], w[2])
    BY <1>5 DEF AtLeastSent
  <2>3. call.mask[t] \in Int
    BY <1>1, TargetSumType DEF SentBefore
  <2>4. Decayed(call.mask[t], w[2]) \in Int
    BY <1>1, <2>1, <2>3, IntTimes, UnreachableType DEF Decayed
  <2>5. result[w[1]] \in Nat /\ result'[w[1]] \in Nat /\ result'[w[1]] >= result[w[1]]
    BY <1>5, <1>9, <2>1
  <2> QED  BY <2>2, <2>4, <2>5
<1>11. ASSUME NEW c \in Cell
       PROVE  \/ result'[c] = 0
              \/ SentBy(c, result'[c], cursor')
              \/ pc' = "search" /\ OnItsWay(result'[c], cursor', dist'[c])
  <2>1. CASE c = cell' /\ dist[cell'] <= MaxResistance /\ best = sent
    BY <1>1, <1>7, <1>9, <2>1
  <2>2. CASE result'[c] = result[c]
    BY <1>1, <1>5, <2>2
  <2> QED  BY <1>6, <1>9, <2>1, <2>2
<1>12. ASSUME NEW c \in Cell, dist'[c] <= MaxResistance, c \notin Range(border')
       PROVE  result'[c] >= Decayed(call.mask[cursor'], dist'[c])
  <2>1. CASE c = cell'
    BY <1>1, <1>6, <1>8, <1>9, <1>12, <2>1 DEF m
  <2>2. CASE c # cell'
    BY <1>1, <1>2, <1>5, <1>9, <1>12, <2>2 DEF m
  <2> QED  BY <2>1, <2>2
<1> QED  BY <1>1, <1>9, <1>10, <1>11, <1>12, DecayHolds

(* A way that has become shorter is in the border until it is used.        *)
LEMMA HandleDecay ==
  ASSUME Inv, DecayInv, Decays, HandleCell
  PROVE  DecayInv'
<1>1. /\ pc = "search" /\ pc' = "search" /\ UNCHANGED <<call, cursor, result>>
      /\ call \in CallType /\ dist \in [Cell -> Nat]
  BY DEF HandleCell, Inv, TypeInv
<1>2. /\ result \in [Cell -> Nat] /\ AtLeastSent(result, cursor)
      /\ \A c \in Cell : \/ result[c] = 0
                         \/ SentBy(c, result[c], cursor)
                         \/ OnItsWay(result[c], cursor, dist[c])
      /\ \A c \in Cell : dist[c] <= MaxResistance /\ c \notin Range(border) =>
           result[c] >= Decayed(call.mask[cursor], dist[c])
  BY <1>1 DEF DecayInv
<1>3. /\ Range(border) \subseteq Range(border')
      /\ \A c \in Cell : dist'[c] # dist[c] =>
           c \in Range(border') /\ dist'[c] \in Nat /\ dist'[c] <= dist[c]
  BY HandleBrings
<1>4. \A c \in Cell : OnItsWay(result[c], cursor, dist[c]) =>
                        OnItsWay(result[c], cursor, dist'[c])
  <2>1. \A c \in Cell : dist'[c] \in Nat /\ dist[c] \in Nat /\ dist'[c] <= dist[c]
    BY <1>1, <1>3
  <2> QED  BY <2>1, TravelSumAssumption DEF OnItsWay
<1>5. \A c \in Cell : dist'[c] <= MaxResistance /\ c \notin Range(border') =>
        result[c] >= Decayed(call.mask[cursor], dist'[c])
  BY <1>2, <1>3
<1> QED  BY <1>1, <1>2, <1>4, <1>5, DecayHolds

(* What starts on its way is the target itself, at its own cell.           *)
LEMMA StartDecay ==
  ASSUME Inv, DecayInv, Decays, StartSearch
  PROVE  DecayInv'
<1>1. /\ pc = "scan" /\ ~PastEnd(cursor) /\ pc' = "search"
      /\ UNCHANGED <<call, cursor, result>> /\ Fifo!PushBack(cursor)
      /\ call \in CallType
  BY DEF StartSearch, Inv, TypeInv
<1>2. cursor \in Cell
  BY <1>1, NextCellInGrid DEF Inv, TypeInv
<1>3. dist' = [[c \in Cell |-> Unreachable] EXCEPT ![cursor] = 0]
  BY DEF StartSearch, Within, Decays
<1>4. \A c \in Cell : dist'[c] <= MaxResistance => c = cursor
  BY <1>2, <1>3, UnreachableType, TravelSumAssumption
<1>5. cursor \in Range(border')
  <2>1. border = <<>> /\ mark[cursor] # InBorder /\ Priced(cursor)
    BY <1>1, <1>2, RangeEmpty DEF Inv, QueueInv, Priced, Within, Decays
  <2> QED  BY <1>1, <1>2, <2>1, PushKeepsQueue DEF Inv
<1>6. /\ result \in [Cell -> Nat] /\ AtLeastSent(result, cursor)
      /\ \A c \in Cell : result[c] = 0 \/ SentBy(c, result[c], cursor)
  BY <1>1 DEF DecayInv
<1> QED  BY <1>1, <1>4, <1>5, <1>6, DecayHolds

(* When the search is over, what the target has sent is best on a shortest *)
(* way.                                                                    *)
LEMMA NextDecay ==
  ASSUME Inv, LengthInv, CursorInv, DecayInv, Decays, NextTarget
  PROVE  DecayInv'
<1>1. /\ SearchOver /\ pc = "search" /\ pc' = "scan" /\ border = <<>>
      /\ cursor' = NextCell(cursor) /\ UNCHANGED <<call, result>>
      /\ call \in CallType /\ dist \in [Cell -> Nat]
  BY DEF NextTarget, SearchOver, Inv, TypeInv
<1>2. cursor \in Cell /\ IsLengths(dist, cursor) /\ InMask(cursor)
  BY <1>1, SearchEnds DEF CursorInv
<1> DEFINE m == call.mask[cursor]
<1>3. m \in Int
  BY <1>1, <1>2, TargetSumType
<1>4. /\ result \in [Cell -> Nat] /\ AtLeastSent(result, cursor)
      /\ \A c \in Cell : \/ result[c] = 0
                         \/ SentBy(c, result[c], cursor)
                         \/ OnItsWay(result[c], cursor, dist[c])
      /\ \A c \in Cell : dist[c] <= MaxResistance => result[c] >= Decayed(m, dist[c])
  BY <1>1, RangeEmpty DEF DecayInv
<1>5. \A t \in Cell : SentBefore(t, cursor') <=> SentBefore(t, cursor) \/ t = cursor
  <2>1. ~PastEnd(cursor) /\ cursor \in (0 .. Rows) \X (0 .. Cols - 1)
    BY <1>2, GridAssumption DEF PastEnd, Cell
  <2> QED  BY <1>1, <1>2, <2>1, NextCellInGrid DEF SentBefore
<1>6. ASSUME NEW w \in Walks(cursor) PROVE result[w[1]] >= Decayed(m, w[2])
  <2>1. /\ w[1] \in Cell /\ w[2] \in Nat /\ w[2] <= MaxResistance
        /\ dist[w[1]] <= w[2] /\ dist[w[1]] \in Nat
    BY <1>1, <1>2, NoWalkIsShorter
  <2> DEFINE a == dist[w[1]]
             b == w[2]
             x == result[w[1]]
  <2>2. x \in Nat /\ x >= Decayed(m, a)
    BY <1>4, <2>1, TravelSumAssumption
  <2>3. a \in Nat /\ b \in Nat /\ a <= b /\ b <= MaxResistance
    BY <2>1
  <2> HIDE DEF a, b, x, m
  <2>4. /\ Decayed(m, a) \in Int /\ Decayed(m, b) \in Int
        /\ m >= 0 => Decayed(m, b) <= Decayed(m, a)
        /\ m < 0 => Decayed(m, b) <= 0
    BY <1>3, <2>3, DecayedFacts
  <2>5. x >= Decayed(m, b)
    BY <1>3, <2>2, <2>4
  <2> QED  BY <2>5 DEF x, b
<1>7. AtLeastSent(result', cursor')
  BY <1>1, <1>4, <1>5, <1>6 DEF AtLeastSent
<1>8. ASSUME NEW c \in Cell, OnItsWay(result[c], cursor, dist[c])
      PROVE  result[c] = 0 \/ SentBy(c, result[c], cursor')
  <2>1. PICK l \in Nat : dist[c] <= l /\ l <= MaxResistance /\ result[c] = Decayed(m, l)
    BY <1>8 DEF OnItsWay
  <2> DEFINE a == dist[c]
             x == result[c]
  <2>2. a \in Nat /\ a <= l /\ l <= MaxResistance /\ x \in Nat /\ x = Decayed(m, l)
    BY <1>1, <1>4, <2>1
  <2>3. a <= MaxResistance
    BY <2>2, TravelSumAssumption
  <2>4. x >= Decayed(m, a)
    BY <1>4, <2>3
  <2> HIDE DEF a, x, m
  <2>5. /\ Decayed(m, a) \in Int /\ Decayed(m, l) \in Int
        /\ m >= 0 => Decayed(m, l) <= Decayed(m, a)
        /\ m < 0 => Decayed(m, l) <= 0
    BY <1>3, <2>2, DecayedFacts
  <2>6. x = 0 \/ x = Decayed(m, a)
    BY <1>3, <2>2, <2>4, <2>5
  <2>7. ASSUME x = Decayed(m, a) PROVE SentBy(c, result[c], cursor')
    <3>1. <<c, dist[c]>> \in Walks(cursor)
      BY <1>1, <1>2, <2>3, ShortestIsWalked DEF a
    <3>2. SentBefore(cursor, cursor')
      BY <1>2, <1>5
    <3>3. result[c] = Decayed(call.mask[cursor], <<c, dist[c]>>[2]) /\ <<c, dist[c]>>[1] = c
      BY <2>7 DEF x, a, m
    <3> QED  BY <1>2, <3>1, <3>2, <3>3, Zenon DEF SentBy
  <2> QED  BY <2>6, <2>7 DEF x
<1>9. \A c \in Cell : SentBy(c, result[c], cursor) => SentBy(c, result[c], cursor')
  BY <1>5 DEF SentBy
<1>10. \A c \in Cell : result'[c] = 0 \/ SentBy(c, result'[c], cursor')
  BY <1>1, <1>4, <1>8, <1>9
<1> QED  BY <1>1, <1>4, <1>7, <1>10, DecayHolds

(* The scan passes a cell that is no target, or ends.                      *)
LEMMA ScanDecay ==
  ASSUME Inv, DecayInv, Decays, SkipCell \/ Return
  PROVE  DecayInv'
<1>1. /\ pc = "scan" /\ pc' # "search" /\ UNCHANGED <<call, result>>
      /\ call \in CallType
  BY DEF SkipCell, Return, Inv, TypeInv
<1>2. \A t \in Cell : SentBefore(t, cursor') <=> SentBefore(t, cursor)
  <2>1. CASE SkipCell
    BY <2>1, NextCellInGrid DEF SkipCell, Inv, TypeInv, SentBefore
  <2>2. CASE Return
    BY <2>2 DEF Return
  <2> QED  BY <2>1, <2>2
<1>3. /\ result \in [Cell -> Nat] /\ AtLeastSent(result, cursor)
      /\ \A c \in Cell : result[c] = 0 \/ SentBy(c, result[c], cursor)
  BY <1>1 DEF DecayInv
<1>4. AtLeastSent(result', cursor')
  BY <1>1, <1>2, <1>3 DEF AtLeastSent
<1>5. \A c \in Cell : result'[c] = 0 \/ SentBy(c, result'[c], cursor')
  BY <1>1, <1>2, <1>3 DEF SentBy
<1> QED  BY <1>1, <1>3, <1>4, <1>5, DecayHolds

(* Every step keeps what is known of the results of the decay.             *)
LEMMA DecayNext ==
  Inv /\ LengthInv /\ CursorInv /\ DecayInv /\ [Next]_vars => DecayInv'
<1> SUFFICES ASSUME Inv, LengthInv, CursorInv, DecayInv, [Next]_vars
             PROVE  DecayInv'
  OBVIOUS
<1>1. call' = call /\ call \in CallType
  BY CallStays DEF Inv, TypeInv
<1> SUFFICES ASSUME Decays PROVE DecayInv'
  BY <1>1, DecaySteady DEF DecayInv
<1>2. CASE SkipCell \/ Return
  BY <1>2, ScanDecay
<1>3. CASE StartSearch
  BY <1>3, StartDecay
<1>4. CASE Pop
  BY <1>4, PopDecay
<1>5. CASE HandleCell
  BY <1>5, HandleDecay
<1>6. CASE NextTarget
  BY <1>6, NextDecay
<1>7. CASE SumCells \/ AddAdjacent \/ Restore
  <2>1. Within
    BY <1>7 DEF SumCells, AddAdjacent, Restore, CursorInv
  <2> QED  BY <2>1 DEF Within, Decays
<1>8. CASE UNCHANGED vars
  <2>1. UNCHANGED <<pc, cursor, dist, border, result>>
    BY <1>8 DEF vars, search
  <2> QED  BY <1>1, <2>1, DecaySteady DEF DecayInv
<1> QED  BY <1>2, <1>3, <1>4, <1>5, <1>6, <1>7, <1>8 DEF Next

-----------------------------------------------------------------------------
(* What the run checks: the sums                                           *)

(* What holds between any two steps of a call.                             *)
SumsInv == /\ Inv /\ LengthInv /\ CursorInv
           /\ AroundInv /\ SumWithinInv /\ SumTargetsInv /\ DecayInv

(* The parts of the invariant hold at first.                               *)
LEMMA SumsInvInit == Init => SumsInv
BY InvInit, LengthInit, CursorInit, AroundInit, WithinInit, TargetsInit, DecayInit DEF SumsInv

(* Each step keeps them together: a part about the results needs the one   *)
(* about the distances.                                                    *)
LEMMA SumsInvNext == SumsInv /\ [Next]_vars => SumsInv'
BY InvNext, LengthNext, CursorNext, AroundNext, WithinNext, TargetsNext, DecayNext DEF SumsInv

(* At the end of the scan every cell is behind the cursor.                 *)
LEMMA PastAll ==
  ASSUME NEW c \in Cell, PastEnd(cursor), cursor \in Nat \X Nat
  PROVE  Before(c, cursor)
BY GridAssumption DEF PastEnd, Before, Cell

(* What SumsExact compares the results with.                               *)
Targets == {c \in Cell : InMask(c)}
ReachedFrom == {<<t, Reached(t)>> : t \in Targets}
ReachedBy(c) == {r[1] : r \in {q \in ReachedFrom : c \in q[2] /\ call.resistance[q[1]] # NoData}}
Sum(area) == MapThenSumSet(Value, area)
SumsFound == {<<r[1], Sum(r[2]) + IF call.inclAdjacent THEN Sum(Around(r[2])) ELSE 0>> :
                r \in ReachedFrom}
Arrivals == UNION {{<<w[1], Decayed(call.mask[t], w[2])>> : w \in Walks(t)} : t \in Targets}
Amounts(c) == {0} \cup {a[2] : a \in {b \in Arrivals : b[1] = c}}

(* The property with names for its parts.                                  *)
LEMMA SumsExactIs ==
  ASSUME pc = "returned" =>
           \A c \in Cell :
             IF Within
               THEN IF InMask(c) THEN <<c, result[c]>> \in SumsFound ELSE result[c] = 0
             ELSE IF Decays
               THEN result[c] = Max(Amounts(c))
               ELSE result[c] = MapThenSumSet(LAMBDA t : call.mask[t], ReachedBy(c))
  PROVE  SumsExact
BY DEF SumsExact, SumsFound, Sum, ReachedFrom, Targets, Amounts, Arrivals, ReachedBy

(* What is left when all cells of the mask are done.                       *)
LEMMA WithinExact ==
  ASSUME SumsInv, pc = "returned", Within, NEW c \in Cell,
         \A t \in Cell : Before(t, cursor)
  PROVE  IF InMask(c) THEN <<c, result[c]>> \in SumsFound ELSE result[c] = 0
<1>1. call \in CallType
  BY DEF SumsInv, Inv, TypeInv
<1>2. result[c] = IF InMask(c) THEN SumFrom(c) ELSE 0
  BY DEF SumsInv, SumWithinInv
<1>3. ASSUME InMask(c) PROVE <<c, SumFrom(c)>> \in SumsFound
  <2> DEFINE r == <<c, Reached(c)>>
             found == Sum(r[2]) + IF call.inclAdjacent THEN Sum(Around(r[2])) ELSE 0
  <2>1. r \in ReachedFrom /\ r[1] = c /\ r[2] = Reached(c)
    BY <1>3 DEF ReachedFrom, Targets
  <2>2. <<r[1], found>> \in SumsFound
    BY <2>1 DEF SumsFound
  <2>3. Reached(c) \in SUBSET Cell /\ Around(Reached(c)) \in SUBSET Cell
    BY <1>1, ReachedType DEF Around
  <2>4. Sum(Reached(c)) = ValueSum(Reached(c))
    BY <1>1, <2>3, ValueSumIs DEF Sum
  <2>5. Sum(Around(Reached(c))) = ValueSum(Around(Reached(c)))
    BY <1>1, <2>3, ValueSumIs DEF Sum
  <2> HIDE DEF r
  <2>6. found = SumFrom(c)
    BY <2>1, <2>4, <2>5 DEF SumFrom
  <2> HIDE DEF found
  <2> QED  BY <2>1, <2>2, <2>6
<1> QED  BY <1>2, <1>3

(* The same of the targets that reach a cell.                              *)
LEMMA TargetsExact ==
  ASSUME SumsInv, pc = "returned", ~Within, ~Decays, NEW c \in Cell,
         \A t \in Cell : Before(t, cursor)
  PROVE  result[c] = MapThenSumSet(LAMBDA t : call.mask[t], ReachedBy(c))
<1>1. call \in CallType /\ call.op = "sum_targets"
  BY DEF SumsInv, Inv, TypeInv, CallType, Operations, Within, Decays
<1>2. result = [d \in Cell |-> TargetSum(d, cursor)
                                 + IF AddedNow(d) THEN call.mask[cursor] ELSE 0]
  BY <1>1 DEF SumsInv, SumTargetsInv
<1>3. ~AddedNow(c)
  BY DEF AddedNow
<1>4. Passed(c, cursor) \in SUBSET {t \in Cell : InMask(t)}
  BY DEF Passed
<1>5. TargetSum(c, cursor) \in Int
  BY <1>1, <1>4, TargetSumType DEF TargetSum
<1>6. result[c] = TargetSum(c, cursor)
  BY <1>2, <1>3, <1>5
<1>7. ReachedBy(c) = Passed(c, cursor)
  <2>1. \A t \in Cell : Source(t) <=> call.resistance[t] # NoData
    BY DEF Source
  <2>2. ASSUME NEW t \in Passed(c, cursor) PROVE t \in ReachedBy(c)
    <3>1. <<t, Reached(t)>> \in ReachedFrom
      BY DEF Passed, ReachedFrom, Targets
    <3> QED  BY <2>1, <3>1 DEF Passed, ReachedBy
  <2>3. ASSUME NEW t \in ReachedBy(c) PROVE t \in Passed(c, cursor)
    BY <2>1 DEF Passed, ReachedBy, ReachedFrom, Targets
  <2> QED  BY <2>2, <2>3
<1> QED  BY <1>6, <1>7, MaskSumIs DEF TargetSum

(* The same of the best that arrives at a cell.                            *)
LEMMA DecaysExact ==
  ASSUME SumsInv, pc = "returned", Decays, NEW c \in Cell,
         \A t \in Cell : Before(t, cursor)
  PROVE  result[c] = Max(Amounts(c))
<1>1. call \in CallType /\ result \in [Cell -> Nat]
  BY DEF SumsInv, Inv, TypeInv, DecayInv
<1>2. AtLeastSent(result, cursor) /\ (result[c] = 0 \/ SentBy(c, result[c], cursor))
  BY DEF SumsInv, DecayInv
<1>3. ASSUME NEW t \in Cell, InMask(t), NEW w \in Walks(t)
      PROVE  w[2] \in Nat /\ call.mask[t] \in Int /\ Decayed(call.mask[t], w[2]) \in Int
  <2>1. w[2] \in Nat /\ call.mask[t] \in Int
    BY <1>1, <1>3, ReachedType, TargetSumType
  <2> QED  BY <2>1, IntTimes, UnreachableType DEF Decayed
<1>4. ASSUME NEW a \in Amounts(c)
      PROVE  a = 0 \/ \E t \in Cell : InMask(t) /\
                        \E w \in Walks(t) : w[1] = c /\ a = Decayed(call.mask[t], w[2])
  BY DEF Amounts, Arrivals, Targets
<1>5. Amounts(c) \in SUBSET Int
  BY <1>3, <1>4
<1>6. result[c] \in Amounts(c)
  <2>1. CASE result[c] = 0
    BY <2>1 DEF Amounts
  <2>2. CASE SentBy(c, result[c], cursor)
    <3>1. PICK t \in Cell : SentBefore(t, cursor) /\
                 \E w \in Walks(t) : w[1] = c /\ result[c] = Decayed(call.mask[t], w[2])
      BY <2>2 DEF SentBy
    <3>2. PICK w \in Walks(t) : w[1] = c /\ result[c] = Decayed(call.mask[t], w[2])
      BY <3>1
    <3>3. <<c, result[c]>> \in Arrivals
      BY <3>1, <3>2 DEF Arrivals, Targets, SentBefore
    <3> QED  BY <3>3 DEF Amounts
  <2> QED  BY <1>2, <2>1, <2>2
<1>7. ASSUME NEW a \in Amounts(c) PROVE result[c] >= a
  <2>1. CASE a = 0
    BY <1>1, <2>1
  <2>2. ASSUME NEW t \in Cell, InMask(t), NEW w \in Walks(t),
               w[1] = c, a = Decayed(call.mask[t], w[2])
        PROVE  result[c] >= a
    BY <1>2, <2>2 DEF AtLeastSent, SentBefore
  <2> QED  BY <1>4, <2>1, <2>2
<1> HIDE DEF Amounts
<1> QED  BY <1>5, <1>6, <1>7, MaxIsThat

(* sum_within_travel_distance (distance.h:661) returns for each cell of    *)
(* the mask the sum over the cells that some walk within the maximal       *)
(* resistance comes to and, if asked for, those beside them, each counted  *)
(* once; sum_targets_within_travel_distance (distance.h:731) returns for   *)
(* each cell the sum of the targets that can reach it, each counted once;  *)
(* node_value_distance_decay (distancedecay.h:27) returns the best of what *)
(* targets send it, on a shortest way.                                     *)
THEOREM SumsAreExact == Spec => []SumsExact
<1>1. SumsInv => SumsExact
  <2> SUFFICES ASSUME SumsInv, pc = "returned"
               PROVE  \A c \in Cell :
             IF Within
               THEN IF InMask(c) THEN <<c, result[c]>> \in SumsFound ELSE result[c] = 0
             ELSE IF Decays
               THEN result[c] = Max(Amounts(c))
               ELSE result[c] = MapThenSumSet(LAMBDA t : call.mask[t], ReachedBy(c))
    BY SumsExactIs
  <2>1. \A t \in Cell : Before(t, cursor)
    BY PastAll DEF SumsInv, CursorInv, Inv, TypeInv
  <2> QED  BY <2>1, WithinExact, TargetsExact, DecaysExact
<1> QED  BY <1>1, SumsInvInit, SumsInvNext, PTL DEF Spec
=============================================================================
