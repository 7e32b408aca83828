--------------------------- MODULE DistanceProofs ---------------------------
(***************************************************************************)
(* For every grid, call and length of the steps: the types are kept, the   *)
(* border holds exactly the cells marked for it and never overflows, and   *)
(* what the functions return are the lengths of shortest paths, with the   *)
(* value of the target at their end.                                       *)
(***************************************************************************)
EXTENDS Distance, GridProofs

Adjacent(c, n) == Straight(c, n) \/ Diagonal(c, n)

(* Every cell on the border is marked and is there once, and a scan that   *)
(* has not come to a cell has not marked it.                               *)
QueueInv ==
  /\ thrown = FALSE
  /\ \A i, j \in 1 .. Len(border) : border[i] = border[j] => i = j
  /\ \A c \in Cell : mark[c] = InBorder <=> c \in Range(border)
  /\ \A c \in Cell : ~Before(c, cursor) => mark[c] = Todo
  /\ neighbours # <<>> =>
       PastEnd(cursor) /\ \A n \in Range(neighbours) : Adjacent(cell, n)
  /\ returned => PastEnd(cursor) /\ neighbours = <<>> /\ border = <<>>

(* A target that starts a path of length zero, with its own value.         *)
Starts(n) ==
  /\ Seeds(n) /\ dist[n] = 0
  /\ call.op \in Carrying => carried[n] = SeedValue(n)

OnlyStarts ==
  \A c \in Cell : dist[c] # Unreachable => Starts(c) /\ c \in Range(border)

(* While the scan goes on only targets have a distance; all of those it    *)
(* has passed, and the cells hidden are those that must be.                *)
SeedInv ==
  /\ \A c \in Cell : dist[c] <= Unreachable
  /\ ~PastEnd(cursor) => OnlyStarts
  /\ \A c \in Cell : Before(c, cursor) /\ Seeds(c) => dist[c] = 0
  /\ \A c \in hidden : Hides(c)
  /\ \A c \in Cell : Before(c, cursor) /\ Hides(c) => c \in hidden

(* A step that would shorten a path is one that is still to be looked at.  *)
SettledInv ==
  \A c, n \in Cell :
    Adjacent(c, n) /\ c \notin Range(border) /\ Improves(c, n) =>
      c = cell /\ n \in Range(neighbours)

(* n was given its distance from c.  If c has come closer since, n is      *)
(* further than it need be and may carry the value of another target.      *)
ReachedFrom(c, n) ==
  /\ Adjacent(c, n) /\ Passable(c, n)
  /\ dist[n] >= dist[c] + StepCost(c, n)
  /\ dist[n] = dist[c] + StepCost(c, n) /\ call.op \in Carrying => carried[n] = carried[c]

SupportedInv ==
  \A n \in Cell : dist[n] # Unreachable =>
    Starts(n) \/ \E c \in Cell : ReachedFrom(c, n)

SearchInv == QueueInv /\ SeedInv /\ SettledInv /\ SupportedInv

-----------------------------------------------------------------------------
(* The operators                                                           *)

LEMMA Products == \A a, b \in Nat : a * b \in Nat
OBVIOUS

LEMMA UnreachableType ==
  ASSUME TypeOK
  PROVE  Unreachable \in Nat \ {0}
<1>1. Rows * Cols \in Nat
  BY Products, GridAssumption
<1>2. StraightStep * (Rows * Cols + 1) \in Nat \ {0}
  <2>1. StraightStep \in Nat \ {0} /\ Rows * Cols + 1 \in Nat \ {0}
    BY <1>1, DistanceAssumption
  <2>2. \A a, b \in Nat \ {0} : a * b \in Nat \ {0}
    OBVIOUS
  <2> QED  BY <2>1, <2>2
<1>3. StraightStep * (Rows * Cols) \in Nat
  BY <1>1, Products, DistanceAssumption
<1>4. Infinity \in Nat \ {0}
  BY <1>3, DistanceAssumption
<1> QED  BY <1>2, <1>4, DistanceAssumption DEF Unreachable

LEMMA StepCostKnown ==
  ASSUME TypeOK, NEW c \in Cell, NEW n \in Cell,
         call.op \in Metered => call.layer[n] # NoData
  PROVE  StepCost(c, n) \in Nat
<1> DEFINE step == IF Straight(c, n) THEN StraightStep ELSE DiagStep
           price == IF call.op \in Metered THEN call.layer[n] ELSE 1
<1>1. step \in Nat
  BY DistanceAssumption
<1>2. price \in Nat
  <2>1. call.layer[n] \in Nat \cup {NoData}
    BY DEF TypeOK, CallType
  <2> QED  BY <2>1
<1> HIDE DEF step, price
<1>3. step * price \in Nat
  BY <1>1, <1>2, Products
<1> QED  BY <1>3 DEF StepCost, step, price

LEMMA StepCostType ==
  ASSUME TypeOK, NEW c \in Cell, NEW n \in Cell, Passable(c, n)
  PROVE  StepCost(c, n) \in Nat
BY StepCostKnown DEF Passable

LEMMA AdjacentDiffers ==
  ASSUME NEW c \in Cell, NEW n \in Cell, Adjacent(c, n)
  PROVE  c # n
BY DEF Adjacent, Straight, Diagonal, Cell

(* What Pop puts in neighbours.                                            *)
LEMMA NeighboursOf ==
  ASSUME NEW c \in Cell
  PROVE  /\ StraightNeighbours(c) \o DiagNeighbours(c) \in Seq(Cell)
         /\ \A n \in Cell : Adjacent(c, n) <=>
              n \in Range(StraightNeighbours(c) \o DiagNeighbours(c))
BY NeighboursComplete, RangeConcat DEF Adjacent

LEMMA PushType ==
  ASSUME TypeOK, NEW n \in Cell, Fifo!PushBack(n)
  PROVE  border' \in Seq(Cell) /\ thrown' \in BOOLEAN /\ cell' \in Cell
<1>1. border \in Seq(Cell) /\ cell \in Cell
  BY DEF TypeOK
<1>2. border' \in Seq(Cell) /\ cell' \in Cell
  BY <1>1 DEF Fifo!PushBack
<1>3. thrown \in BOOLEAN
  BY DEF TypeOK
<1>4. thrown' \in BOOLEAN
  BY <1>3, Zenon DEF Fifo!PushBack
<1> QED  BY <1>2, <1>4

(* The border has room for a cell that is not on it.                       *)
LEMMA RoomForOneMore ==
  ASSUME TypeOK, QueueInv, NEW n \in Cell, mark[n] # InBorder
  PROVE  Fifo!HasRoom
<1>1. border \in Seq(Cell) /\ n \notin Range(border)
  BY DEF TypeOK, QueueInv
<1>2. Len(border) < Cardinality(Cell)
  BY <1>1, CellsFinite, DistinctIsShort DEF QueueInv
<1> QED  BY <1>2, CellsFinite DEF Fifo!HasRoom

-----------------------------------------------------------------------------
(* Type correctness                                                        *)

LEMMA TypeInit == Init => TypeOK
<1> SUFFICES ASSUME Init PROVE TypeOK
  OBVIOUS
<1>1. call \in CallType
  BY DistanceAssumption DEF Init
<1>2. FirstCell \in Cell /\ FirstCell \in (0 .. Rows) \X (0 .. Cols - 1)
  BY GridAssumption DEF FirstCell, Cell
<1>3. cursor \in (0 .. Rows) \X (0 .. Cols - 1) /\ cell \in Cell
  BY <1>2 DEF Init, Fifo!Init
<1>4. Unreachable \in Nat
  <2>1. Rows * Cols \in Nat
    BY Products, GridAssumption
  <2>2. StraightStep * (Rows * Cols + 1) \in Nat
    BY <2>1, Products, DistanceAssumption
  <2> QED  BY <2>2, DistanceAssumption DEF Unreachable
<1>5. /\ hidden \subseteq Cell
      /\ dist \in [Cell -> Nat]
      /\ carried \in [Cell -> Int \cup {NoData, Raw}]
      /\ mark \in [Cell -> {Todo, InBorder, Done}]
      /\ border \in Seq(Cell) /\ neighbours \in Seq(Cell)
  BY <1>4 DEF Init, Fifo!Init
<1>6. thrown \in BOOLEAN /\ returned \in BOOLEAN
  BY Zenon DEF Init, Fifo!Init
<1> QED  BY <1>1, <1>3, <1>5, <1>6 DEF TypeOK

LEMMA TypeNext == TypeOK /\ [Next]_vars => TypeOK'
<1> SUFFICES ASSUME TypeOK, [Next]_vars PROVE TypeOK'
  OBVIOUS
<1> USE DEF TypeOK
<1>1. CASE SeedCell
  <2>1. cursor \in Cell /\ cursor' \in (0 .. Rows) \X (0 .. Cols - 1)
    BY <1>1, NextCellInGrid DEF SeedCell
  <2>2. UNCHANGED <<call, neighbours, returned>>
    BY <1>1 DEF SeedCell
  <2>3. CASE Hides(cursor)
    <3>1. ~Seeds(cursor)
      BY <2>3 DEF Seeds
    <3>2. /\ hidden' = hidden \cup {cursor}
          /\ UNCHANGED <<dist, mark, border, thrown, cell>>
          /\ carried' = IF call.op \notin TravelTarget THEN carried
                        ELSE [carried EXCEPT ![cursor] =
                                IF call.storage = "masked" THEN Raw ELSE NoData]
      BY <1>1, <2>3, <3>1 DEF SeedCell
    <3>3. carried' \in [Cell -> Int \cup {NoData, Raw}]
      BY <3>2, <2>1
    <3> QED  BY <2>1, <2>2, <3>2, <3>3
  <2>4. CASE Seeds(cursor)
    <3>1. ~Hides(cursor)
      BY <2>4 DEF Seeds
    <3>2. /\ dist' = [dist EXCEPT ![cursor] = 0]
          /\ carried' = IF call.op \in Carrying
                          THEN [carried EXCEPT ![cursor] = SeedValue(cursor)]
                          ELSE carried
          /\ mark' = [mark EXCEPT ![cursor] = InBorder]
          /\ Fifo!PushBack(cursor)
          /\ UNCHANGED hidden
      BY <1>1, <2>4, <3>1 DEF SeedCell
    <3>3. SeedValue(cursor) \in Int \cup {NoData, Raw}
      BY <2>1 DEF SeedValue, CallType
    <3>4. /\ carried' \in [Cell -> Int \cup {NoData, Raw}]
          /\ mark' \in [Cell -> {Todo, InBorder, Done}]
          /\ dist' \in [Cell -> Nat]
      BY <3>2, <3>3, <2>1
    <3>5. border' \in Seq(Cell) /\ thrown' \in BOOLEAN /\ cell' \in Cell
      BY <2>1, <3>2, PushType
    <3> QED  BY <2>1, <2>2, <3>2, <3>4, <3>5
  <2>5. CASE ~Hides(cursor) /\ ~Seeds(cursor)
    <3>1. UNCHANGED <<hidden, dist, carried, mark, border, thrown, cell>>
      BY <1>1, <2>5 DEF SeedCell
    <3> QED  BY <2>1, <2>2, <3>1
  <2> QED  BY <2>3, <2>4, <2>5
<1>2. CASE Pop
  <2>1. /\ border # <<>> /\ cell' = Head(border) /\ border' = Tail(border)
        /\ UNCHANGED thrown
    BY <1>2 DEF Pop, Fifo!PopHead
  <2>2. cell' \in Cell /\ border' \in Seq(Cell)
    BY <2>1
  <2>3. neighbours' \in Seq(Cell)
    BY <2>2, <1>2, NeighboursOf DEF Pop
  <2>4. mark' \in [Cell -> {Todo, InBorder, Done}]
    BY <2>2, <1>2 DEF Pop
  <2> QED  BY <2>1, <2>2, <2>3, <2>4, <1>2 DEF Pop
<1>3. CASE HandleCell
  <2> DEFINE n == Head(neighbours)
  <2>1. n \in Cell /\ neighbours' \in Seq(Cell)
    BY <1>3 DEF HandleCell
  <2>2. UNCHANGED <<call, cursor, hidden, returned>>
    BY <1>3 DEF HandleCell
  <2>3. CASE Improves(cell, n)
    <3>1. /\ dist' = [dist EXCEPT ![n] = dist[cell] + StepCost(cell, n)]
          /\ CarryTo(n)
          /\ IF mark[n] # InBorder
               THEN /\ mark' = [mark EXCEPT ![n] = InBorder]
                    /\ Fifo!PushBack(n)
               ELSE UNCHANGED <<mark, border, thrown, cell>>
      BY <1>3, <2>3 DEF HandleCell
    <3>2. StepCost(cell, n) \in Nat
      BY <2>1, <2>3, StepCostType DEF Improves
    <3> HIDE DEF n
    <3>3. dist' \in [Cell -> Nat]
      BY <2>1, <3>1, <3>2
    <3>4. carried' \in [Cell -> Int \cup {NoData, Raw}]
      BY <2>1, <3>1 DEF CarryTo
    <3>5. mark' \in [Cell -> {Todo, InBorder, Done}]
      BY <2>1, <3>1
    <3>6. border' \in Seq(Cell) /\ thrown' \in BOOLEAN /\ cell' \in Cell
      BY <2>1, <3>1, PushType
    <3> QED  BY <2>1, <2>2, <3>3, <3>4, <3>5, <3>6
  <2>4. CASE ~Improves(cell, n)
    <3>1. UNCHANGED <<dist, carried, mark, border, thrown, cell>>
      BY <1>3, <2>4 DEF HandleCell
    <3> QED  BY <2>1, <2>2, <3>1
  <2> QED  BY <2>3, <2>4
<1>4. CASE Return
  <2>1. UNCHANGED <<call, cursor, hidden, dist, carried, mark, border, thrown, cell,
                    neighbours>>
    BY <1>4 DEF Return
  <2>2. returned' \in BOOLEAN
    BY <1>4, Zenon DEF Return
  <2> QED  BY <2>1, <2>2
<1>5. CASE UNCHANGED vars
  BY <1>5 DEF vars
<1> QED  BY <1>1, <1>2, <1>3, <1>4, <1>5 DEF Next

(* Every variable of the eight functions keeps its type, whatever the       *)
(* targets, obstacles and travel times (distance.h).                       *)
THEOREM TypeCorrect == Spec => []TypeOK
BY TypeInit, TypeNext, PTL DEF Spec

-----------------------------------------------------------------------------
(* The inductive invariant                                                 *)

LEMMA InputStable ==
  ASSUME call' = call
  PROVE  /\ Unreachable' = Unreachable
         /\ \A c \in Cell : /\ Seeds(c)' <=> Seeds(c)
                            /\ Hides(c)' <=> Hides(c)
                            /\ SeedValue(c)' = SeedValue(c)
         /\ \A c, n \in Cell : StepCost(c, n)' = StepCost(c, n)
         /\ hidden' = hidden =>
              \A c, n \in Cell : Passable(c, n)' <=> Passable(c, n)
<1>1. Unreachable' = Unreachable
  BY DEF Unreachable
<1>2. \A c \in Cell : /\ Seeds(c)' <=> Seeds(c)
                      /\ Hides(c)' <=> Hides(c)
                      /\ SeedValue(c)' = SeedValue(c)
  BY DEF Seeds, Hides, SeedValue
<1>3. \A c, n \in Cell : StepCost(c, n)' = StepCost(c, n)
  BY DEF StepCost
<1>4. hidden' = hidden =>
        \A c, n \in Cell : Passable(c, n)' <=> Passable(c, n)
  BY DEF Passable, NaN, Obstacle
<1> QED  BY <1>1, <1>2, <1>3, <1>4

LEMMA AllBefore ==
  ASSUME PastEnd(cursor), NEW c \in Cell
  PROVE  Before(c, cursor)
BY GridAssumption DEF PastEnd, Before, Cell

(* As long as the only distances are those of the targets on the border    *)
(* there is nothing to be said about paths.                                *)
LEMMA StartsSuffice ==
  TypeOK /\ (\A c \in Cell : dist[c] <= Unreachable) /\ OnlyStarts
    => SettledInv /\ SupportedInv
<1> SUFFICES ASSUME TypeOK, \A c \in Cell : dist[c] <= Unreachable, OnlyStarts
             PROVE  SettledInv /\ SupportedInv
  OBVIOUS
<1>1. SupportedInv
  BY DEF SupportedInv, OnlyStarts
<1>2. ASSUME NEW c \in Cell, NEW n \in Cell, c \notin Range(border), Improves(c, n)
      PROVE  FALSE
  <2>1. dist[c] = Unreachable
    BY <1>2 DEF OnlyStarts
  <2>2. StepCost(c, n) \in Nat /\ Unreachable \in Nat /\ dist[n] \in Nat
    BY <1>2, StepCostType, UnreachableType DEF Improves, TypeOK
  <2>3. dist[n] <= Unreachable /\ dist[n] > dist[c] + StepCost(c, n)
    BY <1>2 DEF Improves
  <2> QED  BY <2>1, <2>2, <2>3
<1>3. SettledInv
  BY <1>2 DEF SettledInv
<1> QED  BY <1>1, <1>3

LEMMA InvInit == Init => SearchInv
<1> SUFFICES ASSUME Init PROVE SearchInv
  OBVIOUS
<1>1. TypeOK
  BY TypeInit
<1>2. border = <<>> /\ neighbours = <<>> /\ cursor = FirstCell /\ returned = FALSE
      /\ hidden = {}
  BY DEF Init, Fifo!Init
<1>3. thrown = FALSE
  BY Zenon DEF Init, Fifo!Init
<1>4. \A c \in Cell : dist[c] = Unreachable /\ mark[c] = Todo
  BY DEF Init
<1>5. Range(border) = {}
  BY <1>2 DEF Range
<1>6. QueueInv
  <2>1. Todo # InBorder
    BY DEF Todo, InBorder
  <2>2. \A i, j \in 1 .. Len(border) : border[i] = border[j] => i = j
    BY <1>2
  <2> QED  BY <1>2, <1>3, <1>4, <1>5, <2>1, <2>2 DEF QueueInv
<1>7. OnlyStarts /\ \A c \in Cell : dist[c] <= Unreachable
  BY <1>4, <1>1, UnreachableType DEF OnlyStarts
<1>8. \A c \in Cell : ~Before(c, cursor)
  BY <1>2, GridAssumption DEF Before, FirstCell, Cell
<1>9. SeedInv
  BY <1>2, <1>7, <1>8 DEF SeedInv
<1> QED  BY <1>1, <1>6, <1>7, <1>9, StartsSuffice DEF SearchInv

LEMMA SeedCellInv ==
  ASSUME TypeOK, TypeOK', SearchInv, SeedCell
  PROVE  SearchInv'
<1> USE DEF SearchInv
<1>1. /\ ~PastEnd(cursor) /\ cursor' = NextCell(cursor)
      /\ UNCHANGED <<call, neighbours, returned>>
  BY DEF SeedCell
<1>2. /\ cursor \in Cell
      /\ \A b \in Cell : Before(b, cursor') <=> Before(b, cursor) \/ b = cursor
  BY <1>1, NextCellInGrid DEF TypeOK
<1>3. neighbours' = <<>> /\ ~returned'
  BY <1>1 DEF QueueInv
<1>4. ~Before(cursor, cursor)
  BY <1>2 DEF Before, Cell
<1>5. mark[cursor] = Todo /\ Todo # InBorder
  BY <1>2, <1>4 DEF QueueInv, Todo, InBorder
<1>6. Unreachable \in Nat \ {0}
  BY UnreachableType
<1>7. \/ SettledInv' /\ SupportedInv'
      \/ ~(OnlyStarts /\ \A c \in Cell : dist[c] <= Unreachable)'
  <2>1. (TypeOK /\ (\A c \in Cell : dist[c] <= Unreachable) /\ OnlyStarts
           => SettledInv /\ SupportedInv)'
    BY StartsSuffice, PTL
  <2> QED  BY <2>1
<1>8. OnlyStarts /\ \A c \in Cell : dist[c] <= Unreachable
  BY <1>1 DEF SeedInv
<1>9. CASE Seeds(cursor)
  <2>1. ~Hides(cursor)
    BY <1>9 DEF Seeds
  <2>2. /\ dist' = [dist EXCEPT ![cursor] = 0]
        /\ carried' = IF call.op \in Carrying
                        THEN [carried EXCEPT ![cursor] = SeedValue(cursor)]
                        ELSE carried
        /\ mark' = [mark EXCEPT ![cursor] = InBorder]
        /\ Fifo!PushBack(cursor)
        /\ hidden' = hidden
    BY <1>9, <2>1 DEF SeedCell
  <2>3. Fifo!HasRoom
    BY <1>2, <1>5, RoomForOneMore
  <2>4. border' = Append(border, cursor) /\ thrown' = FALSE /\ cell' = cell
    BY <2>2, <2>3 DEF Fifo!PushBack, QueueInv
  <2>5. Range(border') = Range(border) \cup {cursor} /\ cursor \notin Range(border)
    BY <1>2, <1>5, <2>4, RangeAppend DEF TypeOK, QueueInv
  <2>6. \A c \in Cell : /\ dist'[c] = IF c = cursor THEN 0 ELSE dist[c]
                        /\ mark'[c] = IF c = cursor THEN InBorder ELSE mark[c]
                        /\ carried'[c] = IF c = cursor /\ call.op \in Carrying
                                           THEN SeedValue(cursor) ELSE carried[c]
    BY <1>2, <2>2 DEF TypeOK
  <2>7. QueueInv'
    <3>1. \A i, j \in 1 .. Len(border') : border'[i] = border'[j] => i = j
      <4>1. border \in Seq(Cell) /\ \A i, j \in 1 .. Len(border) : border[i] = border[j] => i = j
        BY DEF TypeOK, QueueInv
      <4> QED  BY <1>2, <2>4, <2>5, <4>1, DistinctAppend
    <3>2. \A c \in Cell : mark'[c] = InBorder <=> c \in Range(border')
      BY <2>5, <2>6 DEF QueueInv
    <3>3. \A c \in Cell : ~Before(c, cursor') => mark'[c] = Todo
      BY <1>2, <2>6 DEF QueueInv
    <3> QED  BY <1>3, <2>4, <3>1, <3>2, <3>3 DEF QueueInv
  <2>8. \A c \in Cell : dist'[c] <= Unreachable'
    BY <1>1, <1>6, <1>8, <2>6, InputStable
  <2>9. OnlyStarts'
    <3> SUFFICES ASSUME NEW c \in Cell, dist'[c] # Unreachable
                 PROVE  Starts(c)' /\ c \in Range(border')
      BY <1>1, InputStable DEF OnlyStarts
    <3>1. CASE c = cursor
      BY <3>1, <1>1, <1>9, <2>5, <2>6, InputStable DEF Starts
    <3>2. CASE c # cursor
      BY <3>2, <1>1, <1>8, <2>5, <2>6, InputStable DEF Starts, OnlyStarts
    <3> QED  BY <3>1, <3>2
  <2>10. SeedInv'
    <3>1. \A c \in Cell : Before(c, cursor') /\ Seeds(c)' => dist'[c] = 0
      BY <1>1, <1>2, <2>6, InputStable DEF SeedInv
    <3>2. \A c \in hidden' : Hides(c)'
      BY <1>1, <2>2, InputStable DEF SeedInv, TypeOK
    <3>3. \A c \in Cell : Before(c, cursor') /\ Hides(c)' => c \in hidden'
      BY <1>1, <1>2, <2>1, <2>2, InputStable DEF SeedInv
    <3> QED  BY <2>8, <2>9, <3>1, <3>2, <3>3 DEF SeedInv
  <2> QED  BY <1>7, <2>7, <2>8, <2>9, <2>10
<1>10. CASE ~Seeds(cursor)
  <2>1. /\ UNCHANGED <<dist, mark, border, thrown, cell>>
        /\ \A c \in Cell : c # cursor => carried'[c] = carried[c]
        /\ hidden' = IF Hides(cursor) THEN hidden \cup {cursor} ELSE hidden
    <3>1. CASE Hides(cursor)
      <4>1. /\ hidden' = hidden \cup {cursor}
            /\ UNCHANGED <<dist, mark, border, thrown, cell>>
            /\ carried' = IF call.op \notin TravelTarget THEN carried
                          ELSE [carried EXCEPT ![cursor] =
                                  IF call.storage = "masked" THEN Raw ELSE NoData]
        BY <3>1, <1>10 DEF SeedCell
      <4> QED  BY <4>1, <3>1, <1>2 DEF TypeOK
    <3>2. CASE ~Hides(cursor)
      BY <3>2, <1>10 DEF SeedCell
    <3> QED  BY <3>1, <3>2
  <2>2. QueueInv'
    BY <1>2, <1>3, <2>1 DEF QueueInv
  <2>3. \A c \in Cell : dist'[c] <= Unreachable'
    BY <1>1, <1>8, <2>1, InputStable
  <2>4. OnlyStarts'
    <3> SUFFICES ASSUME NEW c \in Cell, dist[c] # Unreachable
                 PROVE  Starts(c)' /\ c \in Range(border')
      BY <1>1, <2>1, InputStable DEF OnlyStarts
    <3>1. Starts(c) /\ c \in Range(border)
      BY <1>8 DEF OnlyStarts
    <3>2. c # cursor
      BY <3>1, <1>10 DEF Starts
    <3> QED  BY <3>1, <3>2, <1>1, <2>1, InputStable DEF Starts
  <2>5. SeedInv'
    <3>1. \A c \in Cell : Before(c, cursor') /\ Seeds(c)' => dist'[c] = 0
      BY <1>1, <1>2, <1>10, <2>1, InputStable DEF SeedInv
    <3>2. \A c \in hidden' : Hides(c)'
      BY <1>1, <1>2, <2>1, InputStable DEF SeedInv, TypeOK
    <3>3. \A c \in Cell : Before(c, cursor') /\ Hides(c)' => c \in hidden'
      BY <1>1, <1>2, <2>1, InputStable DEF SeedInv
    <3> QED  BY <2>3, <2>4, <3>1, <3>2, <3>3 DEF SeedInv
  <2> QED  BY <1>7, <2>2, <2>3, <2>4, <2>5
<1> QED  BY <1>9, <1>10

LEMMA PopInv ==
  ASSUME TypeOK, SearchInv, Pop
  PROVE  SearchInv'
<1> USE DEF SearchInv
<1>1. /\ PastEnd(cursor) /\ neighbours = <<>>
      /\ border # <<>> /\ cell' = Head(border) /\ border' = Tail(border)
      /\ mark' = [mark EXCEPT ![cell'] = Done]
      /\ neighbours' = StraightNeighbours(cell') \o DiagNeighbours(cell')
      /\ UNCHANGED <<call, cursor, hidden, dist, carried, returned, thrown>>
  BY DEF Pop, Fifo!PopHead
<1>2. border \in Seq(Cell) /\ \A i, j \in 1 .. Len(border) : border[i] = border[j] => i = j
  BY DEF TypeOK, QueueInv
<1>3. /\ cell' \in Cell
      /\ Range(border) = {cell'} \cup Range(border')
      /\ cell' \notin Range(border')
  BY <1>1, <1>2, RangeHeadTail, DistinctTail
<1>4. \A c \in Cell : mark'[c] = IF c = cell' THEN Done ELSE mark[c]
  BY <1>1, <1>3 DEF TypeOK
<1>5. /\ \A n \in Cell : Adjacent(cell', n) <=> n \in Range(neighbours')
      /\ neighbours' \in Seq(Cell)
  BY <1>1, <1>3, NeighboursOf
<1>6. QueueInv'
  <2>1. \A i, j \in 1 .. Len(border') : border'[i] = border'[j] => i = j
    BY <1>1, <1>2, DistinctTail
  <2>2. \A c \in Cell : mark'[c] = InBorder <=> c \in Range(border')
    <3>1. Done # InBorder
      BY DEF Done, InBorder
    <3> QED  BY <1>3, <1>4, <3>1 DEF QueueInv
  <2>3. \A c \in Cell : Before(c, cursor')
    BY <1>1, AllBefore
  <2>4. \A n \in Range(neighbours') : Adjacent(cell', n)
    BY <1>5 DEF Range
  <2>5. ~returned'
    BY <1>1 DEF QueueInv
  <2> QED  BY <1>1, <2>1, <2>2, <2>3, <2>4, <2>5 DEF QueueInv, PastEnd
<1>7. SeedInv'
  BY <1>1, InputStable DEF SeedInv, PastEnd, TypeOK
<1>8. SettledInv'
  <2> SUFFICES ASSUME NEW c \in Cell, NEW n \in Cell, Adjacent(c, n),
                      c \notin Range(border'), Improves(c, n)
               PROVE  c = cell' /\ n \in Range(neighbours')
    BY <1>1, InputStable DEF SettledInv, Improves
  <2>1. Range(neighbours) = {}
    BY <1>1 DEF Range
  <2>2. c \in Range(border)
    BY <2>1 DEF SettledInv
  <2>3. c = cell'
    BY <2>2, <1>3
  <2> QED  BY <2>3, <1>5
<1>9. SupportedInv'
  BY <1>1, InputStable DEF SupportedInv, Starts, ReachedFrom
<1> QED  BY <1>6, <1>7, <1>8, <1>9

(* The neighbour is closer than was known: it goes back to the border.     *)
LEMMA ImproveInv ==
  ASSUME TypeOK, SearchInv, HandleCell, Improves(cell, Head(neighbours))
  PROVE  SearchInv'
<1> USE DEF SearchInv
<1> DEFINE n == Head(neighbours)
<1>1. /\ neighbours # <<>> /\ neighbours' = Tail(neighbours)
      /\ UNCHANGED <<call, cursor, hidden, returned>>
      /\ dist' = [dist EXCEPT ![n] = dist[cell] + StepCost(cell, n)]
      /\ CarryTo(n)
      /\ IF mark[n] # InBorder
           THEN /\ mark' = [mark EXCEPT ![n] = InBorder]
                /\ Fifo!PushBack(n)
           ELSE UNCHANGED <<mark, border, thrown, cell>>
  BY DEF HandleCell
<1>2. /\ n \in Cell /\ neighbours' \in Seq(Cell)
      /\ Range(neighbours) = {n} \cup Range(neighbours')
  BY <1>1, RangeHeadTail DEF TypeOK
<1>3. Improves(cell, n)
  OBVIOUS
<1> HIDE DEF n
<1>4. PastEnd(cursor) /\ cell \in Cell /\ Adjacent(cell, n) /\ cell # n
  <2>1. PastEnd(cursor) /\ cell \in Cell /\ Adjacent(cell, n)
    BY <1>1, <1>2 DEF QueueInv, TypeOK
  <2> QED  BY <2>1, <1>2, AdjacentDiffers
<1>5. /\ Passable(cell, n) /\ StepCost(cell, n) \in Nat
      /\ dist[cell] \in Nat /\ dist[n] \in Nat
      /\ dist[n] > dist[cell] + StepCost(cell, n)
  BY <1>2, <1>3, <1>4, StepCostType DEF Improves, TypeOK
<1>6. \A c \in Cell :
        /\ dist'[c] = IF c = n THEN dist[cell] + StepCost(cell, n) ELSE dist[c]
        /\ carried'[c] = IF c = n /\ call.op \in Carrying THEN carried[cell] ELSE carried[c]
  BY <1>1, <1>2 DEF CarryTo, TypeOK
<1>7. \A c \in Cell : dist[c] \in Nat /\ dist'[c] \in Nat /\ dist'[c] <= dist[c]
  <2>1. \A c \in Cell : dist[c] \in Nat
    BY DEF TypeOK
  <2>2. dist[cell] + StepCost(cell, n) \in Nat
    BY <1>5
  <2> QED  BY <1>5, <1>6, <2>1, <2>2
<1>8. /\ thrown' = FALSE /\ cell' = cell /\ border' \in Seq(Cell)
      /\ \A c \in Cell : mark'[c] = IF c = n THEN InBorder ELSE mark[c]
      /\ Range(border') = Range(border) \cup {n}
      /\ \A i, j \in 1 .. Len(border') : border'[i] = border'[j] => i = j
  <2>1. border \in Seq(Cell) /\ \A i, j \in 1 .. Len(border) : border[i] = border[j] => i = j
    BY DEF TypeOK, QueueInv
  <2>2. CASE mark[n] # InBorder
    <3>1. Fifo!HasRoom /\ n \notin Range(border)
      BY <1>2, <2>2, RoomForOneMore DEF QueueInv
    <3>2. border' = Append(border, n) /\ thrown' = FALSE /\ cell' = cell
      BY <1>1, <2>2, <3>1 DEF Fifo!PushBack, QueueInv
    <3>3. Range(border') = Range(border) \cup {n}
      BY <1>2, <2>1, <3>2, RangeAppend
    <3>4. \A i, j \in 1 .. Len(border') : border'[i] = border'[j] => i = j
      BY <1>2, <2>1, <3>1, <3>2, DistinctAppend
    <3>5. \A c \in Cell : mark'[c] = IF c = n THEN InBorder ELSE mark[c]
      BY <1>1, <1>2, <2>2 DEF TypeOK
    <3> QED  BY <1>2, <2>1, <3>2, <3>3, <3>4, <3>5
  <2>3. CASE mark[n] = InBorder
    <3>1. UNCHANGED <<mark, border, thrown, cell>>
      BY <1>1, <2>3
    <3> QED  BY <1>2, <2>1, <2>3, <3>1 DEF QueueInv
  <2> QED  BY <2>2, <2>3
<1>9. QueueInv'
  <2>1. \A c \in Cell : mark'[c] = InBorder <=> c \in Range(border')
    BY <1>8 DEF QueueInv
  <2>2. \A c \in Cell : Before(c, cursor')
    BY <1>1, <1>4, AllBefore
  <2>3. \A m \in Range(neighbours') : Adjacent(cell', m)
    BY <1>1, <1>2, <1>8 DEF QueueInv
  <2>4. ~returned' /\ PastEnd(cursor')
    BY <1>1, <1>4 DEF QueueInv, PastEnd
  <2> QED  BY <1>8, <2>1, <2>2, <2>3, <2>4 DEF QueueInv
<1>10. SeedInv'
  <2>1. Unreachable \in Nat
    BY UnreachableType
  <2>2. \A c \in Cell : dist'[c] <= Unreachable'
    BY <1>1, <1>7, <2>1, InputStable DEF SeedInv
  <2>3. \A c \in Cell : Before(c, cursor') /\ Seeds(c)' => dist'[c] = 0
    <3> SUFFICES ASSUME NEW c \in Cell, Before(c, cursor), Seeds(c) PROVE dist'[c] = 0
      BY <1>1, InputStable
    <3>1. dist[c] = 0
      BY DEF SeedInv
    <3> QED  BY <3>1, <1>7
  <2>4. \A c \in hidden' : Hides(c)'
    BY <1>1, InputStable DEF SeedInv, TypeOK
  <2>5. \A c \in Cell : Before(c, cursor') /\ Hides(c)' => c \in hidden'
    BY <1>1, InputStable DEF SeedInv
  <2>6. PastEnd(cursor')
    BY <1>1, <1>4 DEF PastEnd
  <2> QED  BY <2>2, <2>3, <2>4, <2>5, <2>6 DEF SeedInv
<1>11. SettledInv'
  <2> SUFFICES ASSUME NEW c \in Cell, NEW m \in Cell, Adjacent(c, m),
                      c \notin Range(border'), Improves(c, m)'
               PROVE  c = cell' /\ m \in Range(neighbours')
    BY DEF SettledInv
  <2>1. c \notin Range(border) /\ c # n /\ dist'[c] = dist[c]
    BY <1>6, <1>8
  <2>2. Passable(c, m) /\ dist'[m] > dist[c] + StepCost(c, m)
    BY <1>1, <2>1, InputStable DEF Improves
  <2>3. StepCost(c, m) \in Nat
    BY <2>2, StepCostType
  <2>4. Improves(c, m)
    BY <1>7, <2>2, <2>3 DEF Improves
  <2>5. c = cell /\ m \in Range(neighbours)
    BY <2>1, <2>4 DEF SettledInv
  <2>6. m # n
    BY <1>5, <1>6, <2>2, <2>5
  <2> QED  BY <1>2, <1>8, <2>5, <2>6
<1>12. SupportedInv'
  <2> SUFFICES ASSUME NEW m \in Cell, dist'[m] # Unreachable
               PROVE  Starts(m)' \/ \E c \in Cell : ReachedFrom(c, m)'
    BY <1>1, InputStable DEF SupportedInv
  <2>1. CASE m = n
    <3>1. PICK c \in Cell : c = cell
      BY <1>4
    <3>2. /\ Adjacent(c, m) /\ Passable(c, m)'
          /\ dist'[m] = dist'[c] + StepCost(c, m)'
          /\ call'.op \in Carrying => carried'[m] = carried'[c]
      BY <2>1, <3>1, <1>1, <1>4, <1>5, <1>6, InputStable
    <3>3. dist'[m] >= dist'[c] + StepCost(c, m)'
      BY <3>2, <1>7
    <3>4. ReachedFrom(c, m)'
      BY <3>2, <3>3 DEF ReachedFrom
    <3> QED  BY <3>4
  <2>2. CASE m # n
    <3>1. dist'[m] = dist[m] /\ carried'[m] = carried[m]
      BY <1>6, <2>2
    <3>2. CASE Starts(m)
      <4>1. Starts(m)'
        BY <1>1, <3>1, <3>2, InputStable DEF Starts
      <4> QED  BY <4>1
    <3>3. CASE \E c \in Cell : ReachedFrom(c, m)
      <4>1. PICK c \in Cell : ReachedFrom(c, m)
        BY <3>3
      <4>2. StepCost(c, m) \in Nat
        BY <4>1, StepCostType DEF ReachedFrom
      <4>3. CASE c = n
        <5>1. dist'[m] > dist'[c] + StepCost(c, m)
          BY <4>1, <4>2, <4>3, <3>1, <1>5, <1>6, <1>7 DEF ReachedFrom
        <5>2. ReachedFrom(c, m)'
          BY <1>1, <1>7, <4>1, <4>2, <5>1, InputStable DEF ReachedFrom
        <5> QED  BY <5>2
      <4>4. CASE c # n
        <5>1. dist'[c] = dist[c] /\ carried'[c] = carried[c]
          BY <4>4, <1>6
        <5>2. ReachedFrom(c, m)'
          BY <1>1, <4>1, <3>1, <5>1, InputStable DEF ReachedFrom
        <5> QED  BY <5>2
      <4> QED  BY <4>3, <4>4
    <3> QED  BY <3>1, <3>2, <3>3 DEF SupportedInv
  <2> QED  BY <2>1, <2>2
<1> QED  BY <1>9, <1>10, <1>11, <1>12

(* The neighbour is as close as it can be, seen from this cell.            *)
LEMMA PassOverInv ==
  ASSUME TypeOK, SearchInv, HandleCell, ~Improves(cell, Head(neighbours))
  PROVE  SearchInv'
<1> USE DEF SearchInv
<1> DEFINE n == Head(neighbours)
<1>1. /\ neighbours # <<>> /\ neighbours' = Tail(neighbours)
      /\ UNCHANGED <<call, cursor, hidden, returned>>
      /\ UNCHANGED <<dist, carried, mark, border, thrown, cell>>
  BY DEF HandleCell
<1>2. /\ n \in Cell /\ neighbours' \in Seq(Cell)
      /\ Range(neighbours) = {n} \cup Range(neighbours')
  BY <1>1, RangeHeadTail DEF TypeOK
<1>3. ~Improves(cell, n)
  OBVIOUS
<1> HIDE DEF n
<1>4. QueueInv'
  BY <1>1, <1>2 DEF QueueInv, PastEnd
<1>5. SeedInv'
  BY <1>1, InputStable DEF SeedInv, OnlyStarts, Starts, PastEnd, TypeOK
<1>6. SettledInv'
  <2> SUFFICES ASSUME NEW c \in Cell, NEW m \in Cell, Adjacent(c, m),
                      c \notin Range(border), Improves(c, m)
               PROVE  c = cell /\ m \in Range(neighbours')
    BY <1>1, InputStable DEF SettledInv, Improves
  <2>1. c = cell /\ m \in Range(neighbours)
    BY DEF SettledInv
  <2> QED  BY <2>1, <1>2, <1>3
<1>7. SupportedInv'
  BY <1>1, InputStable DEF SupportedInv, Starts, ReachedFrom
<1> QED  BY <1>4, <1>5, <1>6, <1>7

LEMMA UnchangedInv ==
  ASSUME TypeOK, SearchInv,
         UNCHANGED <<call, cursor, hidden, dist, carried, mark, border, thrown,
                     cell, neighbours>>,
         returned' => PastEnd(cursor) /\ neighbours = <<>> /\ border = <<>>
  PROVE  SearchInv'
<1> USE DEF SearchInv
<1>1. QueueInv'
  BY DEF QueueInv, PastEnd
<1>2. SeedInv'
  BY InputStable DEF SeedInv, OnlyStarts, Starts, PastEnd, TypeOK
<1>3. SettledInv'
  BY InputStable DEF SettledInv, Improves
<1>4. SupportedInv'
  BY InputStable DEF SupportedInv, Starts, ReachedFrom
<1> QED  BY <1>1, <1>2, <1>3, <1>4

LEMMA InvNext == TypeOK /\ TypeOK' /\ SearchInv /\ [Next]_vars => SearchInv'
<1> SUFFICES ASSUME TypeOK, TypeOK', SearchInv, [Next]_vars PROVE SearchInv'
  OBVIOUS
<1>1. CASE SeedCell
  BY <1>1, SeedCellInv
<1>2. CASE Pop
  BY <1>2, PopInv
<1>3. CASE HandleCell
  BY <1>3, ImproveInv, PassOverInv
<1>4. CASE Return
  BY <1>4, UnchangedInv DEF Return
<1>5. CASE UNCHANGED vars
  BY <1>5, UnchangedInv DEF vars, SearchInv, QueueInv
<1> QED  BY <1>1, <1>2, <1>3, <1>4, <1>5 DEF Next

(* What the searches know at every step holds in every reachable state.    *)
THEOREM Invariance == Spec => [](TypeOK /\ SearchInv)
<1>1. Init => TypeOK /\ SearchInv
  BY TypeInit, InvInit
<1>2. TypeOK /\ SearchInv /\ [Next]_vars => (TypeOK /\ SearchInv)'
  BY TypeNext, InvNext
<1> QED  BY <1>1, <1>2, PTL DEF Spec

-----------------------------------------------------------------------------
(* What the runs check                                                     *)

(* The border never overflows, holds each cell once and is what the marks  *)
(* say: the assertion after pop_head never fails, in none of the functions.*)
THEOREM BorderIsMarked == Spec => []BorderMarked
<1>1. TypeOK /\ SearchInv => BorderMarked
  BY DEF SearchInv, QueueInv, BorderMarked
<1> QED  BY <1>1, Invariance, PTL

LEMMA SettledOnReturn ==
  ASSUME TypeOK, SearchInv, returned,
         NEW c \in Cell, NEW n \in Cell, Adjacent(c, n)
  PROVE  ~Improves(c, n)
<1>1. Range(border) = {} /\ Range(neighbours) = {}
  BY DEF SearchInv, QueueInv, Range
<1> QED  BY <1>1 DEF SearchInv, SettledInv

(* A cell that is not a target has all of its distance from a neighbour.   *)
LEMMA SupportedOnReturn ==
  ASSUME TypeOK, SearchInv, returned, NEW n \in Cell, dist[n] < Unreachable
  PROVE  \/ Starts(n)
         \/ \E c \in Cell : /\ Adjacent(c, n) /\ Passable(c, n)
                            /\ dist[n] = dist[c] + StepCost(c, n)
                            /\ call.op \in Carrying => carried[n] = carried[c]
<1>1. Unreachable \in Nat /\ dist[n] \in Nat
  BY UnreachableType DEF TypeOK
<1>2. Starts(n) \/ \E c \in Cell : ReachedFrom(c, n)
  BY <1>1 DEF SearchInv, SupportedInv
<1>3. ASSUME NEW c \in Cell, ReachedFrom(c, n)
      PROVE  dist[n] = dist[c] + StepCost(c, n)
  <2>1. ~(dist[n] > dist[c] + StepCost(c, n))
    BY <1>3, SettledOnReturn DEF ReachedFrom, Improves
  <2>2. dist[c] \in Nat /\ StepCost(c, n) \in Nat
    BY <1>3, StepCostType DEF ReachedFrom, TypeOK
  <2> QED  BY <1>1, <1>3, <2>1, <2>2 DEF ReachedFrom
<1> QED  BY <1>2, <1>3 DEF ReachedFrom

(* The ways the handlers let a path take are those the maps leave open.    *)
(* From a cell that is blocked itself no path goes on, but no path comes   *)
(* there either.                                                           *)
Blocked(c) == c \in NaN \/ (call.op = "travel_distance" /\ c \in hidden)

LEMMA HiddenOnReturn ==
  ASSUME TypeOK, SearchInv, returned, NEW c \in Cell
  PROVE  c \in hidden <=> Hides(c)
BY AllBefore DEF SearchInv, QueueInv, SeedInv

(* The cells beside a diagonal step are those that touch both its ends.    *)
LEMMA CornersOf ==
  ASSUME NEW c \in Cell, NEW n \in Cell, Diagonal(c, n)
  PROVE  /\ <<c[1], n[2]>> \in Cell /\ <<n[1], c[2]>> \in Cell
         /\ \A b \in Cell : Straight(c, b) /\ Straight(b, n) <=>
              b = <<c[1], n[2]>> \/ b = <<n[1], c[2]>>
<1>1. /\ c[1] \in 0 .. Rows - 1 /\ c[2] \in 0 .. Cols - 1
      /\ n[1] \in 0 .. Rows - 1 /\ n[2] \in 0 .. Cols - 1
  BY DEF Cell
<1>2. <<c[1], n[2]>> \in Cell /\ <<n[1], c[2]>> \in Cell
  BY <1>1 DEF Cell
<1>3. ASSUME NEW b \in Cell
      PROVE  Straight(c, b) /\ Straight(b, n) <=>
               b = <<c[1], n[2]>> \/ b = <<n[1], c[2]>>
  <2>1. b[1] \in 0 .. Rows - 1 /\ b[2] \in 0 .. Cols - 1 /\ b = <<b[1], b[2]>>
    BY DEF Cell
  <2>2. Straight(c, b) /\ Straight(b, n) <=>
          (b[1] = c[1] /\ b[2] = n[2]) \/ (b[1] = n[1] /\ b[2] = c[2])
    BY <1>1, <2>1, GridAssumption DEF Straight, Diagonal
  <2> QED  BY <2>1, <2>2
<1> QED  BY <1>2, <1>3

LEMMA WaysOnReturn ==
  ASSUME TypeOK, SearchInv, returned, NEW c \in Cell, NEW n \in Cell, Adjacent(c, n)
  PROVE  Passable(c, n) <=> MayStep(c, n) /\ ~Blocked(c)
<1>1. n \notin NaN /\ (call.op = "travel_distance" => n \notin hidden)
        /\ (call.op \in Metered => call.layer[n] # NoData)
        /\ (call.op = "distance_obstacles" => ~Obstacle(n))
      <=> n \notin ShutCells
  BY HiddenOnReturn DEF ShutCells, NaN, Hides, Obstacle, PlainDistance, TravelTarget,
                        Metered, TypeOK, CallType
<1>2. ASSUME call.op = "distance_obstacles", Diagonal(c, n)
      PROVE  ~(Obstacle(<<c[1], n[2]>>) /\ Obstacle(<<n[1], c[2]>>)) <=>
               \E corner \in Cell \ ShutCells : Straight(c, corner) /\ Straight(corner, n)
  <2>1. \A b \in Cell : b \in ShutCells <=> Obstacle(b)
    BY <1>2 DEF ShutCells, Obstacle, PlainDistance, TravelTarget, Metered
  <2> QED  BY <1>2, <2>1, CornersOf
<1> QED  BY <1>1, <1>2 DEF Passable, MayStep, Adjacent, Blocked

LEMMA BlockedHasNoDistance ==
  ASSUME TypeOK, SearchInv, returned, NEW c \in Cell, Blocked(c)
  PROVE  dist[c] = Unreachable
<1>1. Hides(c)
  BY HiddenOnReturn DEF Blocked, NaN
<1>2. ~Starts(c)
  BY <1>1 DEF Starts, Seeds
<1>3. ASSUME NEW b \in Cell PROVE ~ReachedFrom(b, c)
  BY <1>3 DEF ReachedFrom, Passable, Blocked
<1> QED  BY <1>2, <1>3 DEF SearchInv, SupportedInv

LEMMA MayStepSettled ==
  ASSUME TypeOK, SearchInv, returned, NEW c \in Cell, NEW n \in Cell, MayStep(c, n)
  PROVE  dist[n] <= dist[c] + StepCost(c, n)
<1>1. Adjacent(c, n)
  BY DEF MayStep, Adjacent
<1>2. /\ dist[c] \in Nat /\ dist[n] \in Nat /\ Unreachable \in Nat
      /\ dist[n] <= Unreachable
  BY UnreachableType DEF TypeOK, SearchInv, SeedInv
<1>3. CASE Blocked(c)
  <2>1. dist[c] = Unreachable
    BY <1>3, BlockedHasNoDistance
  <2>2. StepCost(c, n) \in Nat
    BY StepCostKnown DEF MayStep, ShutCells
  <2> QED  BY <1>2, <2>1, <2>2
<1>4. CASE ~Blocked(c)
  <2>1. Passable(c, n)
    BY <1>1, <1>4, WaysOnReturn
  <2>2. StepCost(c, n) \in Nat /\ ~Improves(c, n)
    BY <1>1, <2>1, StepCostType, SettledOnReturn
  <2> QED  BY <1>2, <2>1, <2>2 DEF Improves
<1> QED  BY <1>3, <1>4

(* When one of the functions of distance.h returns, no step the maps leave *)
(* open shortens a distance, and each is the length of a path of such      *)
(* steps from a target: they are the lengths of shortest paths.            *)
THEOREM DistancesAreShortest == Spec => []ShortestPaths
<1>1. TypeOK /\ SearchInv => Settled
  BY MayStepSettled DEF Settled
<1>2. TypeOK /\ SearchInv => Supported
  BY SupportedOnReturn, WaysOnReturn DEF Supported, Starts
<1> QED  BY <1>1, <1>2, Invariance, PTL DEF ShortestPaths

(* Steps along the row and the column from s to c.                         *)
Gap(i, j) == IF i < j THEN j - i ELSE i - j
Away(s, c) == Gap(s[1], c[1]) + Gap(s[2], c[2])

LEMMA StepTowards ==
  ASSUME NEW s \in Cell, NEW c \in Cell, c # s
  PROVE  \E b \in Cell : Straight(b, c) /\ Away(s, c) = Away(s, b) + 1
<1>1. /\ s[1] \in 0 .. Rows - 1 /\ s[2] \in 0 .. Cols - 1 /\ s = <<s[1], s[2]>>
      /\ c[1] \in 0 .. Rows - 1 /\ c[2] \in 0 .. Cols - 1 /\ c = <<c[1], c[2]>>
  BY DEF Cell
<1>2. CASE c[1] # s[1]
  <2> DEFINE r == IF s[1] < c[1] THEN c[1] - 1 ELSE c[1] + 1
             b == <<r, c[2]>>
  <2>1. b \in Cell /\ b[1] = r /\ b[2] = c[2]
    BY <1>1, <1>2, GridAssumption DEF Cell
  <2>2. Straight(b, c)
    BY <1>1, <2>1 DEF Straight
  <2>3. /\ Gap(s[1], c[1]) = Gap(s[1], b[1]) + 1 /\ Gap(s[1], b[1]) \in Nat
        /\ Gap(s[2], c[2]) = Gap(s[2], b[2]) /\ Gap(s[2], b[2]) \in Nat
    BY <1>1, <1>2, <2>1 DEF Gap
  <2>4. Away(s, c) = Away(s, b) + 1
    BY <2>3 DEF Away
  <2> QED  BY <2>1, <2>2, <2>4
<1>3. CASE c[2] # s[2]
  <2> DEFINE k == IF s[2] < c[2] THEN c[2] - 1 ELSE c[2] + 1
             b == <<c[1], k>>
  <2>1. b \in Cell /\ b[1] = c[1] /\ b[2] = k
    BY <1>1, <1>3, GridAssumption DEF Cell
  <2>2. Straight(b, c)
    BY <1>1, <2>1 DEF Straight
  <2>3. /\ Gap(s[2], c[2]) = Gap(s[2], b[2]) + 1 /\ Gap(s[2], b[2]) \in Nat
        /\ Gap(s[1], c[1]) = Gap(s[1], b[1]) /\ Gap(s[1], b[1]) \in Nat
    BY <1>1, <1>3, <2>1 DEF Gap
  <2>4. Away(s, c) = Away(s, b) + 1
    BY <2>3 DEF Away
  <2> QED  BY <2>1, <2>2, <2>4
<1> QED  BY <1>1, <1>2, <1>3

LEMMA AwayBound ==
  ASSUME NEW s \in Cell, NEW c \in Cell
  PROVE  Away(s, c) \in Nat /\ Away(s, c) <= Rows * Cols
<1>1. /\ s[1] \in 0 .. Rows - 1 /\ s[2] \in 0 .. Cols - 1
      /\ c[1] \in 0 .. Rows - 1 /\ c[2] \in 0 .. Cols - 1
  BY DEF Cell
<1>2. Away(s, c) \in Nat /\ Away(s, c) <= (Rows - 1) + (Cols - 1)
  BY <1>1, GridAssumption DEF Away, Gap
<1>3. (Rows - 1) * (Cols - 1) \in Nat
  BY Products, GridAssumption
<1>4. (Rows - 1) * (Cols - 1) = Rows * Cols - Rows - Cols + 1
  BY GridAssumption
<1>5. Rows * Cols \in Nat
  BY Products, GridAssumption
<1> QED  BY <1>2, <1>3, <1>4, <1>5, GridAssumption

(* Where nothing blocks, no cell is further than a straight path is long.  *)
LEMMA StraightPathBound ==
  ASSUME TypeOK, SearchInv, returned,
         call.op \in {"closest_target", "value_at_closest_target"},
         NEW s \in Cell, Seeds(s), NEW n \in Cell
  PROVE  dist[n] <= StraightStep * Away(s, n)
<1>1. dist[s] = 0
  BY AllBefore DEF SearchInv, QueueInv, SeedInv
<1>2. \A b, c \in Cell : Straight(b, c) => dist[c] <= dist[b] + StraightStep
  <2> SUFFICES ASSUME NEW b \in Cell, NEW c \in Cell, Straight(b, c)
               PROVE  dist[c] <= dist[b] + StraightStep
    OBVIOUS
  <2>1. hidden = {}
    BY DEF SearchInv, SeedInv, Hides, PlainDistance, TravelTarget, TypeOK
  <2>2. Passable(b, c)
    BY <2>1 DEF Passable, NaN, Metered, TravelTarget
  <2>3. StepCost(b, c) = StraightStep
    BY DistanceAssumption DEF StepCost, Metered, TravelTarget
  <2>4. ~Improves(b, c)
    BY SettledOnReturn DEF Adjacent
  <2> QED  BY <2>2, <2>3, <2>4, DistanceAssumption DEF Improves, TypeOK
<1> DEFINE Far == {k \in Nat : \E c \in Cell : Away(s, c) = k /\ dist[c] > StraightStep * k}
<1>3. ASSUME Far # {} PROVE FALSE
  <2>1. PICK k \in Far : \A j \in Far : k <= j
    <3>1. Far \in SUBSET Nat
      OBVIOUS
    <3> HIDE DEF Far
    <3> QED  BY <1>3, <3>1, LeastNatural
  <2>2. PICK c \in Cell : Away(s, c) = k /\ dist[c] > StraightStep * k
    BY <2>1
  <2>3. c # s
    <3>1. Away(s, s) = 0
      BY DEF Away, Gap, Cell
    <3>2. StraightStep * 0 = 0
      BY DistanceAssumption
    <3> QED  BY <1>1, <2>2, <3>1, <3>2
  <2>4. PICK b \in Cell : Straight(b, c) /\ Away(s, c) = Away(s, b) + 1
    BY <2>3, StepTowards
  <2>5. Away(s, b) \in Nat /\ k \in Nat /\ k = Away(s, b) + 1
    BY <2>1, <2>2, <2>4, AwayBound
  <2>6. Away(s, b) \notin Far
    BY <2>1, <2>5
  <2>7. dist[b] <= StraightStep * Away(s, b)
    <3>1. StraightStep * Away(s, b) \in Nat
      BY <2>5, Products, DistanceAssumption
    <3>2. ~(dist[b] > StraightStep * Away(s, b))
      BY <2>5, <2>6
    <3> QED  BY <3>1, <3>2 DEF TypeOK
  <2>8. StraightStep * k = StraightStep * Away(s, b) + StraightStep
    BY <2>5, DistanceAssumption
  <2>9. dist[c] <= dist[b] + StraightStep
    BY <1>2, <2>4
  <2>10. StraightStep * Away(s, b) \in Nat /\ dist[b] \in Nat /\ dist[c] \in Nat
    BY <2>5, Products, DistanceAssumption DEF TypeOK
  <2> QED  BY <2>2, <2>7, <2>8, <2>9, <2>10, DistanceAssumption
<1>4. Away(s, n) \in Nat /\ Away(s, n) \notin Far
  BY <1>3, AwayBound
<1>5. StraightStep * Away(s, n) \in Nat /\ dist[n] \in Nat
  BY <1>4, Products, DistanceAssumption DEF TypeOK
<1> QED  BY <1>4, <1>5

LEMMA ReachedOnReturn ==
  ASSUME TypeOK, SearchInv, returned,
         call.op \in {"closest_target", "value_at_closest_target"},
         NEW s \in Cell, Seeds(s), NEW n \in Cell
  PROVE  dist[n] < Unreachable
<1>1. dist[n] <= StraightStep * Away(s, n)
  BY StraightPathBound
<1>2. StraightStep * Away(s, n) <= StraightStep * (Rows * Cols)
  <2>1. \A a, b, c \in Nat : b <= c => a * b <= a * c
    OBVIOUS
  <2>2. Rows * Cols \in Nat
    BY Products, GridAssumption
  <2> QED  BY <2>1, <2>2, AwayBound, DistanceAssumption
<1>3. StraightStep * (Rows * Cols) < Unreachable
  <2>1. Rows * Cols \in Nat
    BY Products, GridAssumption
  <2>2. \A m \in Nat : StraightStep * (m + 1) = StraightStep * m + StraightStep
    BY DistanceAssumption
  <2>3. StraightStep * (Rows * Cols + 1) = StraightStep * (Rows * Cols) + StraightStep
    BY <2>1, <2>2
  <2>4. StraightStep * (Rows * Cols) \in Nat
    BY <2>1, Products, DistanceAssumption
  <2> QED  BY <2>3, <2>4, DistanceAssumption DEF Unreachable, UpToLimit
<1>4. /\ dist[n] \in Nat /\ Unreachable \in Nat
      /\ StraightStep * Away(s, n) \in Nat /\ StraightStep * (Rows * Cols) \in Nat
  BY UnreachableType, AwayBound, Products, GridAssumption, DistanceAssumption DEF TypeOK
<1> QED  BY <1>1, <1>2, <1>3, <1>4

(* Every cell carries the value of the target its distance is measured     *)
(* from, also when the target that reached it first was not the nearest;   *)
(* and where nothing is in the way the sentinel rows * cols + 1 is further *)
(* than any cell, so that one target is enough to give all cells a value.  *)
THEOREM ValuesAreOfNearest == Spec => []NearestTargets
<1>1. TypeOK /\ SearchInv => CarriedFromNearest
  BY SupportedOnReturn, WaysOnReturn DEF CarriedFromNearest, Starts
<1>2. TypeOK /\ SearchInv => EveryCellReached
  BY ReachedOnReturn DEF EveryCellReached
<1> QED  BY <1>1, <1>2, Invariance, PTL DEF NearestTargets
=============================================================================
