--------------------------- MODULE ClustersProofs ---------------------------
(***************************************************************************)
(* For every raster, grid size and call: the types are kept, the border    *)
(* never overflows, adjacent cells of one value share their label, and the *)
(* ids, counts and sums returned are those of the clusters.  With          *)
(* obstacles and within a radius too, a cluster is what belongs together   *)
(* and nothing else, and a cell under an obstacle joins the cluster that   *)
(* has most cells around it, of equal ones that which took fewest before.  *)
(***************************************************************************)
EXTENDS Clusters, ObstacleClusters, GridProofs

(* The cells of the cluster being grown, and those of finished clusters.   *)
Members == IF pc = "grow" THEN Range(clusterCells) ELSE {}

Earlier == {c \in Cell : mark[c] # Todo /\ c \notin Members}

(* Every cell on the border is marked and is there once.                   *)
QueueInv ==
  /\ thrown = FALSE
  /\ \A i, j \in 1 .. Len(border) : border[i] = border[j] => i = j
  /\ Range(border) \subseteq Members
  /\ pc # "grow" => neighbours = <<>>
  /\ neighbours # <<>> => cell \in Members

(* The search has looked at every neighbour of a cell that left the        *)
(* border, but for those still to be visited.                              *)
GrowInv ==
  /\ \A c \in Members : mark[c] # Todo /\ ras[c] = ras[cursor]
  /\ pc = "grow" => Positive(cursor) /\ cursor \in Members
  /\ \A a \in Members : a \notin Range(border) =>
       \A b \in Cell : Linked(a, b) =>
         b \in Members \/ (a = cell /\ b \in Range(neighbours))

(* Finished clusters are complete and labelled, and the scan leaves no     *)
(* positive cell behind.                                                   *)
EarlierInv ==
  /\ \A a \in Earlier, b \in Cell :
       Linked(a, b) => b \in Earlier /\ result[a] = result[b]
  /\ \A c \in Cell : mark[c] # Todo => Positive(c)
  /\ \A c \in Cell : Before(c, cursor) /\ Positive(c) => mark[c] # Todo
  /\ pc = "returned" => PastEnd(cursor)

-----------------------------------------------------------------------------
LEMMA VisitedComplete ==
  ASSUME NEW c \in Cell
  PROVE  /\ Visited(c) \in Seq(Cell)
         /\ \A b \in Cell : Adjacent(c, b) => b \in Range(Visited(c))
<1>1. CASE diagonals = "Include"
  <2>1. Visited(c) = StraightNeighbours(c) \o DiagNeighbours(c)
    BY <1>1 DEF Visited
  <2> QED  BY <2>1, NeighboursComplete, RangeConcat DEF Adjacent
<1>2. CASE diagonals # "Include"
  <2>1. Visited(c) = StraightNeighbours(c) \o <<>>
    BY <1>2 DEF Visited
  <2>2. Visited(c) = StraightNeighbours(c)
    BY <2>1, NeighboursComplete
  <2> QED  BY <2>2, <1>2, NeighboursComplete DEF Adjacent
<1> QED  BY <1>1, <1>2

LEMMA VisitedAdjacent ==
  ASSUME NEW c \in Cell
  PROVE  \A b \in Range(Visited(c)) : b \in Cell /\ Adjacent(c, b)
<1>1. /\ StraightNeighbours(c) \in Seq(Cell) /\ DiagNeighbours(c) \in Seq(Cell)
      /\ \A b \in Range(StraightNeighbours(c)) : b \in Cell /\ Straight(c, b)
      /\ \A b \in Range(DiagNeighbours(c)) : b \in Cell /\ Diagonal(c, b)
  <2>1. \A s \in Seq(Cell) : Range(s) \subseteq Cell
    BY DEF Range
  <2> QED  BY <2>1, NeighboursComplete
<1>2. CASE diagonals = "Include"
  <2>1. Visited(c) = StraightNeighbours(c) \o DiagNeighbours(c)
    BY <1>2 DEF Visited
  <2> QED  BY <2>1, <1>1, <1>2, RangeConcat DEF Adjacent
<1>3. CASE diagonals # "Include"
  <2>1. Visited(c) = StraightNeighbours(c) \o <<>>
    BY <1>3 DEF Visited
  <2>2. Visited(c) = StraightNeighbours(c)
    BY <1>1, <2>1
  <2> QED  BY <1>1, <2>2 DEF Adjacent
<1> QED  BY <1>2, <1>3

LEMMA LinkedSymmetric ==
  ASSUME NEW a \in Cell, NEW b \in Cell, Linked(a, b)
  PROVE  Linked(b, a)
BY DEF Linked, Adjacent, Straight, Diagonal

-----------------------------------------------------------------------------
(* Type correctness                                                        *)

LEMMA TypeInit == Init => TypeOK
<1> SUFFICES ASSUME Init PROVE TypeOK
  OBVIOUS
<1>1. FirstCell \in Cell
  BY GridAssumption DEF FirstCell, Cell
<1>2. cursor \in (0 .. Rows) \X (0 .. Cols - 1) /\ cell \in Cell
  BY <1>1, GridAssumption DEF Init, Fifo!Init, FirstCell
<1>3. mark \in [Cell -> {Todo, InBorder, Done}]
  BY DEF Init
<1>4. result \in [Cell -> Int \cup {NoData, Unset}]
  BY DEF Init
<1>5. /\ ras \in [Cell -> Int \cup {NoData}]
      /\ op \in Operations /\ diagonals \in {"Include", "Exclude"}
      /\ pc = "scan"
  BY ClustersAssumption DEF Init
<1>6. /\ neighbours \in Seq(Cell) /\ border \in Seq(Cell)
      /\ clusterCells \in Seq(Cell)
      /\ clusterId \in Nat /\ sum \in Int
      /\ summed \in 0 .. Len(clusterCells)
  BY DEF Init, Fifo!Init
<1>7. thrown \in BOOLEAN
  BY Zenon DEF Init, Fifo!Init
<1> QED  BY <1>2, <1>3, <1>4, <1>5, <1>6, <1>7 DEF TypeOK

LEMMA TypeNext == TypeOK /\ [Next]_vars => TypeOK'
<1> SUFFICES ASSUME TypeOK, [Next]_vars PROVE TypeOK'
  OBVIOUS
<1> USE DEF TypeOK
<1>1. CASE Scan
  <2>1. cursor' \in (0 .. Rows) \X (0 .. Cols - 1) /\ cursor \in Cell
    BY <1>1, NextCellInGrid DEF Scan
  <2>2. result' \in [Cell -> Int \cup {NoData, Unset}]
    BY <1>1, <2>1 DEF Scan
  <2> QED  BY <1>1, <2>1, <2>2 DEF Scan, input, search
<1>2. CASE StartCluster
  <2>1. cursor \in Cell
    BY <1>2, NextCellInGrid DEF StartCluster
  <2>2. mark' \in [Cell -> {Todo, InBorder, Done}]
    BY <1>2, <2>1 DEF StartCluster
  <2> QED  BY <1>2, <2>1, <2>2 DEF StartCluster, input
<1>3. CASE Pop
  <2>1. cell' \in Cell /\ border' \in Seq(Cell) /\ UNCHANGED thrown
    BY <1>3 DEF Pop, Fifo!PopHead
  <2>2. neighbours' \in Seq(Cell)
    <3>1. neighbours' = Visited(cell')
      BY <1>3 DEF Pop
    <3> QED  BY <3>1, <2>1, VisitedComplete
  <2>3. mark' \in [Cell -> {Todo, InBorder, Done}]
    BY <1>3, <2>1 DEF Pop
  <2> QED  BY <1>3, <2>1, <2>2, <2>3 DEF Pop, input
<1>4. CASE HandleCell
  <2>1. Head(neighbours) \in Cell /\ neighbours' \in Seq(Cell)
    BY <1>4 DEF HandleCell
  <2>2. mark' \in [Cell -> {Todo, InBorder, Done}]
    BY <1>4, <2>1 DEF HandleCell
  <2>3. /\ border' \in Seq(Cell) /\ clusterCells' \in Seq(Cell)
        /\ Len(clusterCells) <= Len(clusterCells')
        /\ cell' = cell
    <3> DEFINE n == Head(neighbours)
    <3>1. CASE ras[n] = ras[cursor] /\ mark[n] = Todo
      <4>1. /\ clusterCells' \in {Append(clusterCells, n), clusterCells}
            /\ cell' = cell
            /\ border' \in {Append(border, n), <<>>}
        BY <1>4, <3>1 DEF HandleCell, Fifo!PushBack
      <4>2. n \in Cell
        BY <2>1
      <4> HIDE DEF n
      <4>3. /\ Append(border, n) \in Seq(Cell) /\ Append(clusterCells, n) \in Seq(Cell)
            /\ Len(Append(clusterCells, n)) = Len(clusterCells) + 1
        BY <4>2
      <4>4. Len(clusterCells) \in Nat /\ <<>> \in Seq(Cell)
        OBVIOUS
      <4>5. border' \in Seq(Cell) /\ clusterCells' \in Seq(Cell)
        BY <4>1, <4>3, <4>4, Zenon DEF TypeOK
      <4>6. Len(clusterCells') \in {Len(clusterCells) + 1, Len(clusterCells)}
        BY <4>1, <4>3, Zenon
      <4> QED  BY <4>1, <4>4, <4>5, <4>6
    <3>2. CASE ~(ras[n] = ras[cursor] /\ mark[n] = Todo)
      BY <1>4, <3>2 DEF HandleCell
    <3> QED  BY <3>1, <3>2
  <2>4. thrown' \in BOOLEAN
    BY <1>4, Zenon DEF HandleCell, Fifo!PushBack
  <2> QED  BY <1>4, <2>1, <2>2, <2>3, <2>4 DEF HandleCell, input
<1>5. CASE AddValue
  <2>1. /\ summed < Len(clusterCells) /\ summed' = summed + 1
        /\ sum' = sum + ValueToSum[clusterCells[summed']]
    BY <1>5, Zenon DEF AddValue
  <2>2. summed \in 0 .. Len(clusterCells) /\ Len(clusterCells) \in Nat /\ sum \in Int
    BY DEF TypeOK
  <2>3. summed' \in 1 .. Len(clusterCells)
    BY <2>1, <2>2
  <2>4. clusterCells[summed'] \in Cell
    BY <2>3 DEF TypeOK
  <2>5. ValueToSum[clusterCells[summed']] \in Int
    BY <2>4, ClustersAssumption
  <2>6. sum' \in Int
    BY <2>1, <2>2, <2>5
  <2> QED  BY <1>5, <2>3, <2>6 DEF AddValue, input
<1>6. CASE FinishCluster
  <2>1. cursor' \in (0 .. Rows) \X (0 .. Cols - 1)
    <3>1. ~PastEnd(cursor)
      BY <1>6, GridAssumption DEF FinishCluster, ClusterValue, SearchOver, PastEnd, Cell
    <3> QED  BY <1>6, <3>1, NextCellInGrid DEF FinishCluster, ClusterValue
  <2>2. /\ result' \in [Cell -> Int \cup {NoData, Unset}]
        /\ mark' \in [Cell -> {Todo, InBorder, Done}]
    BY <1>6 DEF FinishCluster, ClusterValue
  <2> QED  BY <1>6, <2>1, <2>2 DEF FinishCluster, ClusterValue, input
<1>7. CASE Return
  BY <1>7 DEF Return, input, search
<1>8. CASE UNCHANGED vars
  BY <1>8 DEF vars, input, search
<1> QED  BY <1>1, <1>2, <1>3, <1>4, <1>5, <1>6, <1>7, <1>8 DEF Next

(* The state stays well typed whatever the raster: in particular the scan  *)
(* cursor and every queued cell stay inside the grid.                      *)
THEOREM TypeCorrect == Spec => []TypeOK
<1> QED  BY TypeInit, TypeNext, PTL DEF Spec

-----------------------------------------------------------------------------
(* The inductive invariant                                                 *)

SearchInv == QueueInv /\ GrowInv /\ EarlierInv

LEMMA InvInit == Init => SearchInv
<1> SUFFICES ASSUME Init PROVE SearchInv
  OBVIOUS
<1>1. /\ Members = {} /\ border = <<>> /\ neighbours = <<>>
      /\ pc = "scan" /\ thrown = FALSE
  BY DEF Init, Fifo!Init, Members
<1>2. \A c \in Cell : mark[c] = Todo
  BY DEF Init
<1>3. QueueInv
  BY <1>1 DEF QueueInv, Range
<1>4. GrowInv
  BY <1>1 DEF GrowInv
<1>5. \A c \in Cell : ~Before(c, cursor)
  BY GridAssumption DEF Init, FirstCell, Before, Cell
<1>6. EarlierInv
  BY <1>1, <1>2, <1>5 DEF EarlierInv, Earlier
<1> QED  BY <1>3, <1>4, <1>6 DEF SearchInv

(* Linked only depends on the input, which no action changes. *)
LEMMA LinkedStable ==
  ASSUME UNCHANGED input
  PROVE  /\ \A a, b : Linked(a, b)' <=> Linked(a, b)
         /\ \A c : Positive(c)' <=> Positive(c)
BY DEF input, Linked, Adjacent, Positive

LEMMA ScanInv ==
  ASSUME TypeOK, SearchInv, Scan
  PROVE  SearchInv'
<1> USE DEF SearchInv
<1>1. UNCHANGED <<input, search, pc>> /\ pc = "scan"
  BY DEF Scan
<1>2. Members' = {} /\ Members = {} /\ Earlier' = Earlier
  BY <1>1 DEF Members, Earlier, search
<1>3. cursor \in Cell
  BY NextCellInGrid DEF Scan, TypeOK
<1>4. QueueInv'
  BY <1>1, <1>2 DEF QueueInv, search
<1>5. GrowInv'
  BY <1>1, <1>2 DEF GrowInv
<1>6. \A c \in Cell : Positive(c) => result'[c] = result[c]
  <2> SUFFICES ASSUME NEW c \in Cell, Positive(c) PROVE result'[c] = result[c]
    OBVIOUS
  <2>1. c = cursor => UNCHANGED result
    BY ClustersAssumption DEF Scan, Positive
  <2>2. c # cursor => result'[c] = result[c]
    BY <1>3 DEF Scan, TypeOK
  <2> QED  BY <2>1, <2>2
<1>7. \A c \in Cell : Before(c, cursor') /\ Positive(c) => mark[c] # Todo
  <2> SUFFICES ASSUME NEW c \in Cell, Before(c, cursor'), Positive(c)
               PROVE  mark[c] # Todo
    OBVIOUS
  <2>1. Before(c, cursor) \/ c = cursor
    BY NextCellInGrid DEF Scan, TypeOK
  <2>2. CASE Before(c, cursor)
    BY <2>2 DEF EarlierInv
  <2>3. CASE c = cursor
    BY <2>3, ClustersAssumption DEF Scan, Positive
  <2> QED  BY <2>1, <2>2, <2>3
<1>8. EarlierInv'
  <2>1. \A a \in Earlier : Positive(a)
    BY DEF EarlierInv, Earlier
  <2>2. \A a \in Earlier, b \in Cell :
          Linked(a, b) => b \in Earlier /\ result'[a] = result'[b]
    BY <2>1, <1>6 DEF EarlierInv, Earlier
  <2>3. mark' = mark
    BY <1>1 DEF search
  <2> QED  BY <1>1, <1>2, <1>7, <2>2, <2>3, LinkedStable, Zenon DEF EarlierInv
<1> QED  BY <1>4, <1>5, <1>8

LEMMA StartClusterInv ==
  ASSUME TypeOK, SearchInv, StartCluster
  PROVE  SearchInv'
<1> USE DEF SearchInv
<1>1. cursor \in Cell /\ UNCHANGED input /\ cursor' = cursor /\ result' = result
  BY NextCellInGrid DEF StartCluster, TypeOK
<1>2. Members = {} /\ Members' = {cursor} /\ border' = <<cursor>> /\ Range(border') = {cursor}
  BY DEF StartCluster, Members, Range
<1>3. \A c \in Cell : mark'[c] = IF c = cursor THEN InBorder ELSE mark[c]
  BY <1>1 DEF StartCluster, TypeOK
<1>4. mark[cursor] = Todo /\ InBorder # Todo /\ Positive(cursor)
  BY DEF StartCluster, Todo, InBorder, Positive
<1>5. Earlier' = Earlier
  BY <1>1, <1>2, <1>3, <1>4 DEF Earlier
<1>6. QueueInv'
  <2>1. thrown' = FALSE /\ neighbours' = <<>> /\ pc' = "grow"
    BY DEF StartCluster, QueueInv
  <2>2. \A i, j \in 1 .. Len(border') : border'[i] = border'[j] => i = j
    BY <1>2
  <2> QED  BY <1>2, <2>1, <2>2 DEF QueueInv
<1>7. GrowInv'
  <2>1. \A c \in Members' : mark'[c] # Todo /\ ras'[c] = ras'[cursor']
    BY <1>1, <1>2, <1>3, <1>4
  <2>2. Positive(cursor)'
    BY <1>1, <1>4, LinkedStable DEF Positive
  <2>3. \A a \in Members' : a \in Range(border')
    BY <1>2
  <2> QED  BY <1>1, <1>2, <2>1, <2>2, <2>3, Zenon DEF GrowInv
<1>8. EarlierInv'
  <2>1. \A c \in Cell : mark'[c] # Todo => Positive(c)
    BY <1>3, <1>4 DEF EarlierInv
  <2>2. \A c \in Cell : Before(c, cursor') /\ Positive(c) => mark'[c] # Todo
    BY <1>1, <1>3, <1>4 DEF EarlierInv
  <2>3. pc' = "grow"
    BY DEF StartCluster
  <2>4. \A a \in Earlier, b \in Cell :
          Linked(a, b) => b \in Earlier /\ result[a] = result[b]
    BY DEF EarlierInv
  <2> QED  BY <1>1, <1>5, <2>1, <2>2, <2>3, <2>4, LinkedStable DEF EarlierInv
<1> QED  BY <1>6, <1>7, <1>8

LEMMA PopInv ==
  ASSUME TypeOK, SearchInv, Pop
  PROVE  SearchInv'
<1> USE DEF SearchInv
<1>1. /\ UNCHANGED <<input, pc, cursor, clusterCells, result, thrown>>
      /\ pc = "grow" /\ neighbours = <<>> /\ border # <<>>
      /\ cell' = Head(border) /\ border' = Tail(border)
      /\ neighbours' = Visited(cell')
  BY DEF Pop, Fifo!PopHead
<1>2. border \in Seq(Cell) /\ cell' \in Cell /\ cell' \in Range(border)
  BY <1>1 DEF TypeOK, Range
<1>3. \A x \in Range(border) : x = cell' \/ x \in Range(border')
  <2> SUFFICES ASSUME NEW i \in 1 .. Len(border)
               PROVE  border[i] = cell' \/ border[i] \in Range(border')
    BY DEF Range
  <2>1. CASE i = 1
    BY <2>1, <1>1, <1>2
  <2>2. CASE i # 1
    <3>1. i - 1 \in 1 .. Len(border') /\ border'[i - 1] = border[i]
      BY <2>2, <1>1, <1>2
    <3> QED  BY <3>1 DEF Range
  <2> QED  BY <2>1, <2>2
<1>4. Range(border') \subseteq Range(border)
  <2> SUFFICES ASSUME NEW i \in 1 .. Len(border')
               PROVE  border'[i] \in Range(border)
    BY <1>1, <1>2 DEF Range
  <2>1. i + 1 \in 1 .. Len(border) /\ border'[i] = border[i + 1]
    BY <1>1, <1>2
  <2> QED  BY <2>1 DEF Range
<1>5. Members' = Members
  BY <1>1 DEF Members
<1>6. \A c \in Cell : mark'[c] # Todo <=> mark[c] # Todo
  <2>1. mark[cell'] # Todo
    BY <1>1, <1>2 DEF QueueInv, GrowInv
  <2>2. mark' = mark \/ mark' = [mark EXCEPT ![cell'] = Done]
    BY DEF Pop
  <2> QED  BY <2>1, <2>2 DEF TypeOK, Todo, Done
<1>7. Earlier' = Earlier
  BY <1>5, <1>6 DEF Earlier
<1>8. QueueInv'
  <2>1. \A i, j \in 1 .. Len(border') : border'[i] = border'[j] => i = j
    <3> SUFFICES ASSUME NEW i \in 1 .. Len(border'), NEW j \in 1 .. Len(border'),
                        border'[i] = border'[j]
                 PROVE  i = j
      OBVIOUS
    <3>1. /\ i + 1 \in 1 .. Len(border) /\ border'[i] = border[i + 1]
          /\ j + 1 \in 1 .. Len(border) /\ border'[j] = border[j + 1]
      BY <1>1, <1>2
    <3>2. i + 1 = j + 1
      BY <3>1 DEF QueueInv
    <3> QED  BY <3>2
  <2>2. cell' \in Members' /\ Range(border') \subseteq Members'
    BY <1>2, <1>4, <1>5 DEF QueueInv
  <2> QED  BY <1>1, <2>1, <2>2 DEF QueueInv
<1>9. GrowInv'
  <2>1. Members \subseteq Cell
    BY <1>1 DEF Members, Range, TypeOK
  <2>2. \A c \in Members' : mark'[c] # Todo /\ ras'[c] = ras'[cursor']
    BY <1>1, <1>5, <1>6, <2>1 DEF GrowInv, input
  <2>3. pc' = "grow" => Positive(cursor)' /\ cursor' \in Members'
    BY <1>1, <1>5, LinkedStable DEF GrowInv, Positive, input
  <2>4. ASSUME NEW a \in Members', a \notin Range(border'),
               NEW b \in Cell, Linked(a, b)
        PROVE  b \in Members' \/ (a = cell' /\ b \in Range(neighbours'))
    <3>1. CASE a = cell'
      <4>1. Adjacent(a, b)
        BY <2>4 DEF Linked
      <4>2. Adjacent(a, b)' <=> Adjacent(a, b)
        BY <1>1 DEF Adjacent, input
      <4> QED  BY <3>1, <4>1, <1>1, <1>2, VisitedComplete
    <3>2. CASE a # cell'
      <4>1. a \notin Range(border) /\ a \in Members
        BY <3>2, <2>4, <1>3, <1>5
      <4>2. Range(neighbours) = {}
        BY <1>1 DEF Range
      <4> QED  BY <4>1, <4>2, <2>4, <1>5 DEF GrowInv
    <3> QED  BY <3>1, <3>2
  <2> QED  BY <2>2, <2>3, <2>4, <1>1, LinkedStable DEF GrowInv
<1>10. EarlierInv'
  <2>1. \A c \in Cell : mark'[c] # Todo => Positive(c)
    BY <1>6 DEF EarlierInv
  <2>2. \A c \in Cell : Before(c, cursor') /\ Positive(c) => mark'[c] # Todo
    BY <1>1, <1>6 DEF EarlierInv
  <2>3. \A a \in Earlier, b \in Cell :
          Linked(a, b) => b \in Earlier /\ result[a] = result[b]
    BY DEF EarlierInv
  <2> QED  BY <1>1, <1>7, <2>1, <2>2, <2>3, LinkedStable DEF EarlierInv
<1> QED  BY <1>8, <1>9, <1>10

(* What a neighbour that joins the cluster does to the search.             *)
LEMMA InsertStep ==
  ASSUME TypeOK, SearchInv, HandleCell,
         ras[Head(neighbours)] = ras[cursor], mark[Head(neighbours)] = Todo
  PROVE  /\ border' = Append(border, Head(neighbours))
         /\ clusterCells' = Append(clusterCells, Head(neighbours))
         /\ thrown' = FALSE /\ cell' = cell
         /\ Head(neighbours) \in Cell
         /\ Members = Range(clusterCells) /\ Members \subseteq Cell
         /\ Head(neighbours) \notin Members /\ Head(neighbours) \notin Range(border)
         /\ Members' = Members \cup {Head(neighbours)}
         /\ Earlier' = Earlier
<1> USE DEF SearchInv
<1> DEFINE n == Head(neighbours)
<1>1. /\ UNCHANGED <<input, pc, cursor, result>>
      /\ pc = "grow" /\ neighbours # <<>> /\ neighbours' = Tail(neighbours)
      /\ mark' = [mark EXCEPT ![n] = InBorder]
      /\ clusterCells' = IF Fifo!HasRoom THEN Append(clusterCells, n) ELSE clusterCells
      /\ Fifo!PushBack(n)
  BY DEF HandleCell
<1>2. /\ neighbours \in Seq(Cell) /\ border \in Seq(Cell) /\ clusterCells \in Seq(Cell)
      /\ n \in Cell
  BY <1>1 DEF TypeOK
<1>3. mark[n] = Todo /\ ras[n] = ras[cursor]
  OBVIOUS
<1> HIDE DEF n
<1>4. Members = Range(clusterCells) /\ Members \subseteq Cell
  BY <1>1, <1>2 DEF Members, Range
<1>5. n \notin Members /\ n \notin Range(border)
  BY <1>3 DEF QueueInv, GrowInv
<1>6. Fifo!HasRoom
  <2>1. Len(border) < Cardinality(Cell)
    BY <1>2, <1>5, CellsFinite, DistinctIsShort DEF QueueInv
  <2> QED  BY <2>1, CellsFinite DEF Fifo!HasRoom
<1>7. /\ border' = Append(border, n) /\ thrown' = FALSE /\ cell' = cell
      /\ clusterCells' = Append(clusterCells, n)
  BY <1>1, <1>6 DEF Fifo!PushBack, QueueInv
<1>8. Members' = Members \cup {n}
  <2>1. Range(Append(clusterCells, n)) = Range(clusterCells) \cup {n}
    BY <1>2, RangeAppend
  <2> QED  BY <2>1, <1>1, <1>4, <1>7 DEF Members
<1>9. \A c \in Cell : mark'[c] = IF c = n THEN InBorder ELSE mark[c]
  BY <1>1, <1>2 DEF TypeOK
<1>10. Earlier' = Earlier
  BY <1>3, <1>8, <1>9 DEF Earlier, Todo, InBorder
<1> QED  BY <1>2, <1>4, <1>5, <1>7, <1>8, <1>10 DEF n

(* The neighbour joins the cluster. *)
LEMMA InsertInv ==
  ASSUME TypeOK, SearchInv, HandleCell,
         ras[Head(neighbours)] = ras[cursor], mark[Head(neighbours)] = Todo
  PROVE  SearchInv'
<1> USE DEF SearchInv
<1> DEFINE n == Head(neighbours)
<1>1. /\ UNCHANGED <<input, pc, cursor, result>>
      /\ pc = "grow" /\ neighbours # <<>> /\ neighbours' = Tail(neighbours)
      /\ mark' = [mark EXCEPT ![n] = InBorder]
  BY DEF HandleCell
<1>2. /\ neighbours \in Seq(Cell) /\ border \in Seq(Cell) /\ clusterCells \in Seq(Cell)
  BY <1>1 DEF TypeOK
<1>3. mark[n] = Todo /\ ras[n] = ras[cursor]
  OBVIOUS
<1>4. /\ border' = Append(border, n) /\ clusterCells' = Append(clusterCells, n)
      /\ thrown' = FALSE /\ cell' = cell /\ n \in Cell
      /\ Members = Range(clusterCells) /\ Members \subseteq Cell
      /\ n \notin Members /\ n \notin Range(border)
      /\ Members' = Members \cup {n} /\ Earlier' = Earlier
  BY InsertStep
<1> HIDE DEF n
<1>5. Range(border') = Range(border) \cup {n}
  BY <1>2, <1>4, RangeAppend
<1>6. \A c \in Cell : mark'[c] = IF c = n THEN InBorder ELSE mark[c]
  BY <1>1, <1>4 DEF TypeOK
<1>7. Range(neighbours) = {n} \cup Range(neighbours')
  BY <1>1, <1>2, RangeHeadTail DEF n
<1>8. QueueInv'
  <2>1. \A i, j \in 1 .. Len(border') : border'[i] = border'[j] => i = j
    BY <1>2, <1>4, DistinctAppend DEF QueueInv
  <2>2. Range(border') \subseteq Members' /\ cell' \in Members'
    BY <1>1, <1>4, <1>5 DEF QueueInv
  <2> QED  BY <1>1, <1>4, <2>1, <2>2 DEF QueueInv
<1>9. GrowInv'
  <2>1. \A c \in Members' : mark'[c] # Todo /\ ras'[c] = ras'[cursor']
    <3>1. InBorder # Todo
      BY DEF InBorder, Todo
    <3> QED  BY <3>1, <1>1, <1>3, <1>4, <1>6 DEF GrowInv, input
  <2>2. Positive(cursor)' /\ cursor' \in Members'
    BY <1>1, <1>4, LinkedStable DEF GrowInv, Positive, input
  <2>3. ASSUME NEW a \in Members', a \notin Range(border'),
               NEW b \in Cell, Linked(a, b)
        PROVE  b \in Members' \/ (a = cell' /\ b \in Range(neighbours'))
    <3>1. a \in Members /\ a \notin Range(border)
      BY <2>3, <1>4, <1>5
    <3>2. b \in Members \/ (a = cell /\ b \in Range(neighbours))
      BY <2>3, <3>1 DEF GrowInv
    <3> QED  BY <3>2, <1>4, <1>7
  <2> QED  BY <2>1, <2>2, <2>3, <1>1, LinkedStable DEF GrowInv
<1>10. EarlierInv'
  <2>1. Positive(n)
    BY <1>1, <1>3 DEF GrowInv, Positive
  <2>2. \A c \in Cell : mark'[c] # Todo => Positive(c)
    BY <2>1, <1>6 DEF EarlierInv
  <2>3. \A c \in Cell : Before(c, cursor') /\ Positive(c) => mark'[c] # Todo
    BY <1>1, <1>6 DEF EarlierInv, InBorder, Todo
  <2>4. \A a \in Earlier, b \in Cell :
          Linked(a, b) => b \in Earlier /\ result[a] = result[b]
    BY DEF EarlierInv
  <2> QED  BY <1>1, <1>4, <2>2, <2>3, <2>4, LinkedStable DEF EarlierInv
<1> QED  BY <1>8, <1>9, <1>10

(* The neighbour has another value or was visited before. *)
LEMMA PassOverInv ==
  ASSUME TypeOK, SearchInv, HandleCell,
         ~(ras[Head(neighbours)] = ras[cursor] /\ mark[Head(neighbours)] = Todo)
  PROVE  SearchInv'
<1> USE DEF SearchInv
<1> DEFINE n == Head(neighbours)
<1>1. /\ UNCHANGED <<input, pc, cursor, result, mark, border, cell, thrown, clusterCells>>
      /\ pc = "grow" /\ neighbours # <<>> /\ neighbours' = Tail(neighbours)
  BY DEF HandleCell
<1>2. neighbours \in Seq(Cell) /\ n \in Cell
  BY <1>1 DEF TypeOK
<1>3. ~(ras[n] = ras[cursor] /\ mark[n] = Todo)
  OBVIOUS
<1> HIDE DEF n
<1>4. \A x \in Range(neighbours) : x = n \/ x \in Range(neighbours')
  <2> SUFFICES ASSUME NEW i \in 1 .. Len(neighbours)
               PROVE  neighbours[i] = n \/ neighbours[i] \in Range(neighbours')
    BY DEF Range
  <2>1. CASE i = 1
    BY <2>1, <1>1, <1>2 DEF n
  <2>2. CASE i # 1
    <3>1. i - 1 \in 1 .. Len(neighbours') /\ neighbours'[i - 1] = neighbours[i]
      BY <2>2, <1>1, <1>2
    <3> QED  BY <3>1 DEF Range
  <2> QED  BY <2>1, <2>2
<1>5. Members' = Members /\ Earlier' = Earlier /\ cell \in Members
  BY <1>1 DEF Members, Earlier, QueueInv
<1>6. Linked(cell, n) => n \in Members
  <2> SUFFICES ASSUME Linked(cell, n), n \notin Members PROVE FALSE
    OBVIOUS
  <2>1. ras[n] = ras[cursor]
    BY <1>5 DEF Linked, GrowInv
  <2>2. n \in Earlier
    BY <1>2, <1>3, <2>1 DEF Earlier
  <2>3. cell \in Cell /\ Linked(n, cell)
    BY <1>2, LinkedSymmetric DEF TypeOK
  <2>4. cell \in Earlier
    BY <2>2, <2>3 DEF EarlierInv
  <2> QED  BY <2>4, <1>5 DEF Earlier
<1>7. QueueInv'
  BY <1>1, <1>5 DEF QueueInv
<1>8. GrowInv'
  <2>1. \A c \in Members' : mark'[c] # Todo /\ ras'[c] = ras'[cursor']
    BY <1>1, <1>5 DEF GrowInv, input
  <2>2. Positive(cursor)' /\ cursor' \in Members'
    BY <1>1, <1>5, LinkedStable DEF GrowInv, Positive, input
  <2>3. ASSUME NEW a \in Members', a \notin Range(border'),
               NEW b \in Cell, Linked(a, b)
        PROVE  b \in Members' \/ (a = cell' /\ b \in Range(neighbours'))
    <3>1. b \in Members \/ (a = cell /\ b \in Range(neighbours))
      BY <2>3, <1>1, <1>5 DEF GrowInv
    <3> QED  BY <3>1, <2>3, <1>1, <1>4, <1>5, <1>6
  <2> QED  BY <2>1, <2>2, <2>3, <1>1, LinkedStable DEF GrowInv
<1>9. EarlierInv'
  BY <1>1, <1>5, LinkedStable DEF EarlierInv
<1> QED  BY <1>7, <1>8, <1>9

LEMMA FinishClusterInv ==
  ASSUME TypeOK, SearchInv, FinishCluster
  PROVE  SearchInv'
<1> USE DEF SearchInv
<1> DEFINE value == IF op = "cluster_id" THEN clusterId ELSE sum
<1>1. /\ UNCHANGED <<input, cell, neighbours, border, clusterCells, thrown>>
      /\ pc = "grow" /\ pc' = "scan" /\ cursor' = NextCell(cursor)
      /\ neighbours = <<>> /\ border = <<>>
  BY DEF FinishCluster, ClusterValue, SearchOver
<1>2. /\ Members = Range(clusterCells) /\ Members' = {} /\ Members \subseteq Cell
  BY <1>1 DEF Members, Range, TypeOK
<1>3. \A c \in Cell : /\ result'[c] = IF c \in Members THEN value ELSE result[c]
                     /\ mark'[c] = IF c \in Members THEN Done ELSE mark[c]
  BY <1>2 DEF FinishCluster, ClusterValue
<1> HIDE DEF value
<1>4. \A c \in Cell : mark'[c] # Todo <=> mark[c] # Todo
  BY <1>3 DEF GrowInv, Done, Todo
<1>5. Earlier' = Earlier \cup Members
  BY <1>2, <1>4 DEF Earlier, GrowInv
<1>6. ASSUME NEW a \in Members, NEW b \in Cell, Linked(a, b)
      PROVE  b \in Members
  <2>1. Range(border) = {} /\ Range(neighbours) = {}
    BY <1>1 DEF Range
  <2> QED  BY <1>6, <2>1 DEF GrowInv
<1>7. QueueInv'
  <2>1. Range(border) = {}
    BY <1>1 DEF Range
  <2> QED  BY <1>1, <1>2, <2>1 DEF QueueInv
<1>8. GrowInv'
  BY <1>1, <1>2 DEF GrowInv
<1>9. EarlierInv'
  <2>1. \A c \in Cell : mark'[c] # Todo => Positive(c)
    BY <1>4 DEF EarlierInv
  <2>2. cursor \in Cell /\ cursor \in (0 .. Rows) \X (0 .. Cols - 1) /\ ~PastEnd(cursor)
    BY <1>1, GridAssumption DEF TypeOK, Cell, PastEnd
  <2>3. \A c \in Cell : Before(c, cursor') /\ Positive(c) => mark'[c] # Todo
    <3> SUFFICES ASSUME NEW c \in Cell, Before(c, cursor'), Positive(c)
                 PROVE  mark[c] # Todo
      BY <1>4
    <3>1. Before(c, cursor) \/ c = cursor
      BY <1>1, <2>2, NextCellInGrid
    <3> QED  BY <3>1, <1>1 DEF EarlierInv, GrowInv
  <2>4. ASSUME NEW a \in Earlier', NEW b \in Cell, Linked(a, b)
        PROVE  b \in Earlier' /\ result'[a] = result'[b]
    <3>1. CASE a \in Members
      BY <3>1, <2>4, <1>2, <1>3, <1>5, <1>6
    <3>2. CASE a \notin Members
      <4>1. a \in Earlier /\ a \in Cell
        BY <3>2, <1>5 DEF Earlier
      <4>2. b \in Earlier /\ result[a] = result[b]
        BY <4>1, <2>4 DEF EarlierInv
      <4>3. b \notin Members
        BY <4>2 DEF Earlier
      <4> QED  BY <3>2, <4>1, <4>2, <4>3, <1>3, <1>5
    <3> QED  BY <3>1, <3>2
  <2> QED  BY <2>1, <2>3, <2>4, <1>1, LinkedStable DEF EarlierInv
<1> QED  BY <1>7, <1>8, <1>9

LEMMA InvNext == TypeOK /\ SearchInv /\ [Next]_vars => SearchInv'
<1> SUFFICES ASSUME TypeOK, SearchInv, [Next]_vars PROVE SearchInv'
  OBVIOUS
<1>1. CASE Scan
  BY <1>1, ScanInv
<1>2. CASE StartCluster
  BY <1>2, StartClusterInv
<1>3. CASE Pop
  BY <1>3, PopInv
<1>4. CASE HandleCell
  BY <1>4, InsertInv, PassOverInv
<1>5. CASE AddValue
  <2>1. /\ UNCHANGED <<input, cell, neighbours, border, clusterCells, thrown>>
        /\ UNCHANGED <<pc, cursor, mark, result>>
    BY <1>5 DEF AddValue
  <2> QED  BY <2>1, LinkedStable
           DEF SearchInv, QueueInv, GrowInv, EarlierInv, Members, Earlier,
               PastEnd, input
<1>6. CASE FinishCluster
  BY <1>6, FinishClusterInv
<1>7. CASE Return
  <2>1. /\ UNCHANGED <<input, cell, neighbours, border, clusterCells, thrown>>
        /\ UNCHANGED <<cursor, mark, result>>
        /\ pc = "scan" /\ pc' = "returned" /\ PastEnd(cursor)
    BY <1>7 DEF Return, search
  <2> QED  BY <2>1, LinkedStable
           DEF SearchInv, QueueInv, GrowInv, EarlierInv, Members, Earlier, PastEnd
<1>8. CASE UNCHANGED vars
  BY <1>8, LinkedStable DEF vars, input, search,
           SearchInv, QueueInv, GrowInv, EarlierInv, Members, Earlier, PastEnd
<1> QED  BY <1>1, <1>2, <1>3, <1>4, <1>5, <1>6, <1>7, <1>8 DEF Next

(* What the search knows at every step, gathered as SearchInv, holds in    *)
(* every reachable state of the three cluster functions.                   *)
THEOREM Invariance == Spec => [](TypeOK /\ SearchInv)
<1>1. Init => TypeOK /\ SearchInv
  BY TypeInit, InvInit
<1>2. TypeOK /\ SearchInv /\ [Next]_vars => (TypeOK /\ SearchInv)'
  BY TypeNext, InvNext
<1> QED  BY <1>1, <1>2, PTL DEF Spec

(* The exception FiLo may throw is unreachable from all three functions,   *)
(* for every raster: a border of Rows * Cols cells is large enough.        *)
THEOREM NeverOverflows == Spec => []NoOverflow
<1>1. SearchInv => NoOverflow
  BY DEF SearchInv, QueueInv, NoOverflow
<1> QED  BY <1>1, Invariance, PTL

(* When the function returns, adjacent cells of one positive value carry   *)
(* the same id, count or sum: no cluster is ever cut in two.               *)
THEOREM NeverSplits == Spec => []AdjacentAlike
<1>1. TypeOK /\ SearchInv => AdjacentAlike
  <2> SUFFICES ASSUME TypeOK, SearchInv, pc = "returned",
                      NEW a \in Cell, NEW b \in Cell, Positive(a), Linked(a, b)
               PROVE  result[a] = result[b]
    BY DEF AdjacentAlike
  <2>1. PastEnd(cursor)
    BY DEF SearchInv, EarlierInv
  <2>2. Before(a, cursor)
    BY <2>1, GridAssumption DEF PastEnd, Before, Cell
  <2>3. mark[a] # Todo /\ Members = {}
    BY <2>2 DEF SearchInv, EarlierInv, Members
  <2>4. a \in Earlier
    BY <2>3 DEF Earlier
  <2> QED  BY <2>4 DEF SearchInv, EarlierInv
<1> QED  BY <1>1, Invariance, PTL

-----------------------------------------------------------------------------
(* What a cluster is                                                       *)

(* No part of K is without a link to the rest of K.                        *)
Joined(K) == \A part \in SUBSET K :
               \/ part = {} \/ part = K
               \/ \E a \in part, b \in K \ part : Linked(a, b)

(* No link leads out of K.                                                 *)
Closed(K) == \A a \in K, b \in Cell : Linked(a, b) => b \in K

(* A set that is joined and closed is what Component finds from any of its *)
(* cells: each round adds a cell until none is missing.                    *)
LEMMA ComponentExact ==
  ASSUME NEW K \in SUBSET Cell, NEW c \in K, Joined(K), Closed(K)
  PROVE  Component(c) = K
<1> DEFINE N == Rows * Cols
           Round(A) == UNION {{a} \cup {b \in Cell : Linked(a, b)} : a \in A}
           F == [A \in SUBSET Cell |-> Round(A)]
           IsReach(g) == g = [n \in 0 .. N |->
             IF n = 0 THEN {c}
             ELSE UNION {{a} \cup {b \in Cell : Linked(a, b)} : a \in g[n - 1]}]
           reach == CHOOSE g : IsReach(g)
<1>1. N \in Nat
  BY GridAssumption
<1>2. F \in [SUBSET Cell -> SUBSET Cell]
  OBVIOUS
<1>3. {c} \in SUBSET Cell
  OBVIOUS
<1>4. PICK f : Iterates(f, SUBSET Cell, F, {c}, N)
  <2> HIDE DEF F, N
  <2> QED  BY <1>1, <1>2, <1>3, Iteration
<1>5. IsReach(f)
  <2>1. f \in [0 .. N -> SUBSET Cell] /\ f[0] = {c} /\ \A n \in 1 .. N : f[n] = F[f[n - 1]]
    BY <1>4, Zenon DEF Iterates
  <2>2. ASSUME NEW n \in 0 .. N
        PROVE  f[n] = IF n = 0 THEN {c}
                      ELSE UNION {{a} \cup {b \in Cell : Linked(a, b)} : a \in f[n - 1]}
    <3>1. CASE n = 0
      BY <3>1, <2>1
    <3>2. CASE n # 0
      <4>1. n \in 1 .. N /\ n - 1 \in 0 .. N
        BY <1>1, <3>2
      <4>2. f[n] = F[f[n - 1]] /\ f[n - 1] \in SUBSET Cell
        <5> HIDE DEF F, N
        <5> QED  BY <2>1, <4>1
      <4>3. f[n] = Round(f[n - 1])
        BY <4>2
      <4> QED  BY <3>2, <4>3
    <3> QED  BY <3>1, <3>2
  <2> QED  BY <2>1, <2>2
<1>6. Component(c) = reach[N]
  BY DEF Component
<1>7. IsReach(reach)
  <2> HIDE DEF IsReach
  <2> QED  BY <1>5
<1> HIDE DEF reach
<1>8. /\ reach[0] = {c}
      /\ \A n \in 1 .. N : reach[n] = Round(reach[n - 1])
  <2>1. 0 \in 0 .. N /\ \A n \in 1 .. N : n \in 0 .. N /\ n # 0
    BY <1>1
  <2> QED  BY <1>7, <2>1
<1>9. ASSUME NEW A \in SUBSET K
      PROVE  A \subseteq Round(A) /\ Round(A) \in SUBSET K
  BY DEF Closed
<1>10. ASSUME NEW A \in SUBSET K, A # {}, A # K
       PROVE  \E b \in K \ A : b \in Round(A)
  BY <1>10 DEF Joined
<1> HIDE DEF N, Round
<1> DEFINE Bad == {n \in Nat : n \in 0 .. N /\
                     ~(/\ reach[n] \in SUBSET K
                       /\ reach[n] = K \/ Cardinality(reach[n]) > n)}
<1>11. Bad = {}
  <2> SUFFICES ASSUME Bad # {} PROVE FALSE
    OBVIOUS
  <2>1. PICK n \in Bad : \A j \in Bad : n <= j
    <3>1. Bad \in SUBSET Nat
      OBVIOUS
    <3> HIDE DEF Bad
    <3> QED  BY <3>1, LeastNatural
  <2>2. n # 0
    <3>1. Cardinality({c}) = 1 /\ {c} \in SUBSET K /\ 1 > 0
      BY FS_Singleton
    <3>2. reach[0] \in SUBSET K /\ Cardinality(reach[0]) > 0
      BY <1>8, <3>1, Zenon
    <3> QED  BY <2>1, <3>2
  <2>3. n \in 1 .. N /\ n - 1 \in 0 .. N /\ n - 1 \in Nat /\ n - 1 \notin Bad
    BY <1>1, <2>1, <2>2
  <2> DEFINE A == reach[n - 1]
  <2>4. A \in SUBSET K /\ (A = K \/ Cardinality(A) > n - 1)
    BY <2>3
  <2>5. reach[n] = Round(A)
    BY <1>8, <2>3
  <2> HIDE DEF A
  <2>6. A \subseteq reach[n] /\ reach[n] \in SUBSET K
    BY <1>9, <2>4, <2>5
  <2>7. CASE A = K
    BY <2>1, <2>6, <2>7
  <2>8. CASE A # K
    <3>1. IsFiniteSet(A) /\ Cardinality(A) \in Nat /\ IsFiniteSet(reach[n])
      BY <2>4, <2>6, CellsFinite, FS_Subset, FS_CardinalityType
    <3>2. A # {}
      BY <2>3, <2>4, <2>8, FS_EmptySet
    <3>3. PICK b \in K \ A : b \in reach[n]
      BY <1>10, <2>4, <2>5, <2>8, <3>2
    <3>4. Cardinality(A \cup {b}) = Cardinality(A) + 1
      BY <3>1, <3>3, FS_AddElement
    <3>5. A \cup {b} \in SUBSET reach[n]
      BY <2>6, <3>3
    <3>6. Cardinality(A \cup {b}) <= Cardinality(reach[n])
      BY <3>1, <3>5, FS_Subset
    <3>7. Cardinality(reach[n]) \in Nat
      BY <3>1, FS_CardinalityType
    <3>8. Cardinality(reach[n]) > n
      BY <2>3, <2>4, <2>8, <3>1, <3>4, <3>6, <3>7
    <3> QED  BY <2>1, <2>6, <3>8
  <2> QED  BY <2>7, <2>8
<1>12. reach[N] \in SUBSET K /\ (reach[N] = K \/ Cardinality(reach[N]) > N)
  BY <1>1, <1>11
<1>13. Cardinality(reach[N]) <= N /\ Cardinality(reach[N]) \in Nat
  <2>1. reach[N] \in SUBSET Cell
    BY <1>12
  <2> QED  BY <2>1, CellsFinite, FS_Subset, FS_CardinalityType DEF N
<1> QED  BY <1>1, <1>6, <1>12, <1>13

LEMMA JoinedSingle ==
  ASSUME NEW c
  PROVE  Joined({c})
BY DEF Joined

(* A cell that is linked to one of a joined set extends it.                *)
LEMMA JoinedAdd ==
  ASSUME NEW K \in SUBSET Cell, NEW a \in K, NEW n \in Cell, Linked(a, n), Joined(K)
  PROVE  Joined(K \cup {n})
<1> SUFFICES ASSUME NEW part \in SUBSET (K \cup {n}), part # {}, part # K \cup {n}
             PROVE  \E x \in part, y \in (K \cup {n}) \ part : Linked(x, y)
  BY DEF Joined
<1>1. CASE part \cap K = {}
  <2>1. n \in part /\ a \notin part /\ Linked(n, a)
    BY <1>1, LinkedSymmetric
  <2> QED  BY <2>1
<1>2. CASE part \cap K = K
  BY <1>2
<1>3. CASE part \cap K # {} /\ part \cap K # K
  <2>1. part \cap K \in SUBSET K
    OBVIOUS
  <2>2. PICK x \in part \cap K, y \in K \ (part \cap K) : Linked(x, y)
    BY <1>3, <2>1 DEF Joined
  <2> QED  BY <2>2
<1> QED  BY <1>1, <1>2, <1>3

(* A sequence of distinct elements is as long as it has elements.          *)
LEMMA DistinctLength ==
  ASSUME NEW S, NEW s \in Seq(S), \A i, j \in 1 .. Len(s) : s[i] = s[j] => i = j
  PROVE  IsFiniteSet(Range(s)) /\ Cardinality(Range(s)) = Len(s)
<1> DEFINE f == [i \in 1 .. Len(s) |-> s[i]]
<1>1. f \in Bijection(1 .. Len(s), Range(s))
  BY DEF Bijection, Injection, Surjection, IsInjective, Range
<1>2. IsFiniteSet(1 .. Len(s)) /\ Cardinality(1 .. Len(s)) = Len(s)
  <2> DEFINE n == Len(s)
  <2>1. 1 \in Int /\ n \in Nat
    OBVIOUS
  <2> HIDE DEF n
  <2>2. IsFiniteSet(1 .. n) /\ Cardinality(1 .. n) = IF 1 > n THEN 0 ELSE n - 1 + 1
    BY <2>1, FS_Interval
  <2>3. Cardinality(1 .. n) = n
    BY <2>1, <2>2
  <2> QED  BY <2>2, <2>3 DEF n
<1> HIDE DEF f
<1>3. ExistsBijection(1 .. Len(s), Range(s))
  BY <1>1 DEF ExistsBijection
<1> QED  BY <1>2, <1>3, FS_Bijection

-----------------------------------------------------------------------------
(* What the results are                                                    *)

(* The clusters that have been labelled.                                   *)
Given == IF pc = "grow" THEN clusterId - 1 ELSE clusterId

Holders(id) == {c \in Earlier : result[c] = id}

(* The cluster being grown is one cluster, without duplicates, and none of *)
(* its cells was scanned before; what is counted or added up so far.       *)
ClusterInv ==
  pc = "grow" =>
    /\ Joined(Range(clusterCells))
    /\ \A i, j \in 1 .. Len(clusterCells) : clusterCells[i] = clusterCells[j] => i = j
    /\ \A b \in Range(neighbours) : Adjacent(cell, b)
    /\ \A c \in Range(clusterCells) : ~Before(c, cursor)
    /\ clusterId >= 1

TotalInv ==
  pc = "grow" =>
    /\ op = "cluster_size" => sum + Len(border) = Len(clusterCells)
    /\ op = "cluster_sum" =>
         sum = SumFunctionOnSet(ValueToSum, {clusterCells[i] : i \in 1 .. summed})

(* The totals written for the cluster K are right.                         *)
Totalled(K) ==
  /\ op = "cluster_size" => \A c \in K : result[c] = Cardinality(K)
  /\ op = "cluster_sum" => \A c \in K : result[c] = SumFunctionOnSet(ValueToSum, K)

FinishedInv ==
  \A c \in Earlier :
    \E K \in SUBSET Earlier : c \in K /\ Closed(K) /\ Joined(K) /\ Totalled(K)

IdInv ==
  op = "cluster_id" =>
    /\ \A c \in Earlier : result[c] \in 1 .. Given
    /\ \A id \in 1 .. Given : Holders(id) # {} /\ Joined(Holders(id))
    /\ \A id \in 2 .. Given : \A a \in Holders(id) : \E b \in Holders(id - 1) : Before(b, a)
    /\ Given > 0 => \E b \in Holders(Given) : Before(b, cursor)

(* Nodata and zero are copied as the scan passes.                          *)
KeptInv ==
  \A c \in Cell : Before(c, cursor) /\ ras[c] \in {0, NoData} => result[c] = ras[c]

ResultInv == ClusterInv /\ TotalInv /\ FinishedInv /\ IdInv /\ KeptInv

(* Joined and closed depend on the input alone.                            *)
LEMMA JoinedStable ==
  ASSUME UNCHANGED input
  PROVE  \A K : (Joined(K)' <=> Joined(K)) /\ (Closed(K)' <=> Closed(K))
BY LinkedStable DEF Joined, Closed

(* A step that leaves the finished clusters and their results alone, and   *)
(* hands out no id, keeps what is known of them.                           *)
LEMMA FinishedStable ==
  ASSUME ResultInv, UNCHANGED input, UNCHANGED cursor, Earlier' = Earlier,
         result' = result, Given' = Given
  PROVE  FinishedInv' /\ IdInv' /\ KeptInv'
<1>1. op' = op /\ ras' = ras
  BY DEF input
<1>2. \A K : /\ (Joined(K)' <=> Joined(K)) /\ (Closed(K)' <=> Closed(K))
             /\ (Totalled(K)' <=> Totalled(K))
  BY <1>1, JoinedStable DEF Totalled
<1>3. FinishedInv'
  BY <1>2 DEF ResultInv, FinishedInv
<1>4. \A id : Holders(id)' = Holders(id)
  BY DEF Holders
<1>5. IdInv'
  <2> SUFFICES ASSUME op = "cluster_id"
               PROVE  /\ \A c \in Earlier : result[c] \in 1 .. Given
                      /\ \A id \in 1 .. Given : Holders(id) # {} /\ Joined(Holders(id))'
                      /\ \A id \in 2 .. Given : \A a \in Holders(id) :
                           \E b \in Holders(id - 1) : Before(b, a)
                      /\ Given > 0 => \E b \in Holders(Given) : Before(b, cursor)
    BY <1>1, <1>4 DEF IdInv
  <2>1. \A id : Joined(Holders(id))' <=> Joined(Holders(id))
    BY <1>4, LinkedStable DEF Joined
  <2> QED  BY <2>1 DEF ResultInv, IdInv
<1>6. KeptInv'
  BY <1>1 DEF ResultInv, KeptInv
<1> QED  BY <1>3, <1>5, <1>6

LEMMA ResultInit == TypeOK /\ Init => ResultInv
<1> SUFFICES ASSUME TypeOK, Init PROVE ResultInv
  OBVIOUS
<1>1. pc = "scan" /\ clusterId = 0 /\ Members = {}
  BY DEF Init, Members
<1>2. Earlier = {} /\ Given = 0
  BY <1>1 DEF Init, Earlier, Given
<1>3. \A c \in Cell : ~Before(c, cursor)
  BY GridAssumption DEF Init, FirstCell, Before, Cell
<1>4. ClusterInv /\ TotalInv
  BY <1>1 DEF ClusterInv, TotalInv
<1>5. FinishedInv /\ KeptInv
  BY <1>2, <1>3 DEF FinishedInv, KeptInv
<1>6. IdInv
  BY <1>2 DEF IdInv
<1> QED  BY <1>4, <1>5, <1>6 DEF ResultInv

LEMMA ScanResult ==
  ASSUME TypeOK, SearchInv, ResultInv, Scan
  PROVE  ResultInv'
<1>1. UNCHANGED <<input, search, pc, clusterId>> /\ pc = "scan"
  BY DEF Scan
<1>2. Earlier' = Earlier /\ Given' = Given /\ op' = op /\ ras' = ras
  BY <1>1 DEF Members, Earlier, Given, search, input
<1>3. cursor \in Cell /\ \A b \in Cell : Before(b, cursor') <=> Before(b, cursor) \/ b = cursor
  BY NextCellInGrid DEF Scan, TypeOK
<1>4. \A c \in Cell : c # cursor => result'[c] = result[c]
  BY <1>3 DEF Scan, TypeOK
<1>5. ras[cursor] \in {0, NoData} => result'[cursor] = ras[cursor]
  BY <1>3, ClustersAssumption DEF Scan, TypeOK
<1>6. \A c \in Earlier : c \in Cell /\ result'[c] = result[c]
  <2> SUFFICES ASSUME NEW c \in Earlier PROVE result'[c] = result[c]
    BY DEF Earlier
  <2>1. c \in Cell /\ Positive(c)
    BY DEF Earlier, SearchInv, EarlierInv
  <2>2. c = cursor => UNCHANGED result
    BY <2>1, ClustersAssumption DEF Scan, Positive
  <2> QED  BY <1>4, <2>1, <2>2
<1>7. ClusterInv' /\ TotalInv'
  BY <1>1 DEF ClusterInv, TotalInv
<1>8. FinishedInv'
  <2>1. \A K \in SUBSET Earlier : Totalled(K) => Totalled(K)'
    BY <1>2, <1>6 DEF Totalled
  <2> QED  BY <1>1, <1>2, <2>1, JoinedStable DEF ResultInv, FinishedInv
<1>9. IdInv'
  <2>1. \A id : Holders(id)' = Holders(id)
    BY <1>2, <1>6 DEF Holders
  <2>2. \A id : Joined(Holders(id))' <=> Joined(Holders(id))
    BY <1>1, <2>1, LinkedStable DEF Joined
  <2> SUFFICES ASSUME op = "cluster_id"
               PROVE  /\ \A c \in Earlier : result'[c] \in 1 .. Given
                      /\ \A id \in 1 .. Given : Holders(id) # {} /\ Joined(Holders(id))'
                      /\ \A id \in 2 .. Given : \A a \in Holders(id) :
                           \E b \in Holders(id - 1) : Before(b, a)
                      /\ Given > 0 => \E b \in Holders(Given) : Before(b, cursor')
    BY <1>2, <2>1 DEF IdInv
  <2>3. \A id : Holders(id) \subseteq Cell
    BY DEF Holders, Earlier
  <2> QED  BY <1>3, <1>6, <2>2, <2>3 DEF ResultInv, IdInv
<1>10. KeptInv'
  BY <1>2, <1>3, <1>4, <1>5 DEF ResultInv, KeptInv
<1> QED  BY <1>7, <1>8, <1>9, <1>10 DEF ResultInv

LEMMA StartClusterResult ==
  ASSUME TypeOK, SearchInv, ResultInv, StartCluster
  PROVE  ResultInv'
<1>1. /\ cursor \in Cell /\ UNCHANGED input /\ cursor' = cursor /\ result' = result
      /\ pc = "scan" /\ pc' = "grow" /\ clusterId' = clusterId + 1 /\ clusterId \in Nat
      /\ sum' = 0 /\ summed' = 0 /\ border' = <<cursor>> /\ clusterCells' = <<cursor>>
      /\ mark' = [mark EXCEPT ![cursor] = InBorder] /\ mark[cursor] = Todo
      /\ neighbours' = <<>>
  BY NextCellInGrid DEF StartCluster, TypeOK, SearchInv, QueueInv
<1>2. Members = {} /\ Members' = {cursor} /\ Range(clusterCells') = {cursor}
  BY <1>1 DEF Members, Range
<1>3. Earlier' = Earlier
  <2>1. \A c \in Cell : mark'[c] = IF c = cursor THEN InBorder ELSE mark[c]
    BY <1>1 DEF TypeOK
  <2> QED  BY <1>1, <1>2, <2>1 DEF Earlier
<1>4. Given' = Given
  BY <1>1 DEF Given
<1>5. ClusterInv'
  <2>1. Joined(Range(clusterCells))'
    BY <1>2 DEF Joined
  <2>2. \A i, j \in 1 .. Len(clusterCells') : clusterCells'[i] = clusterCells'[j] => i = j
    BY <1>1
  <2>3. Range(neighbours') = {}
    BY <1>1 DEF Range
  <2>4. ~Before(cursor, cursor)
    BY <1>1, GridAssumption DEF Before, Cell
  <2>5. clusterId' >= 1
    BY <1>1
  <2> QED  BY <1>1, <1>2, <2>1, <2>2, <2>3, <2>4, <2>5 DEF ClusterInv
<1>6. TotalInv'
  <2>1. Len(border') = 1 /\ Len(clusterCells') = 1
    BY <1>1
  <2>2. {clusterCells'[i] : i \in 1 .. summed'} = {}
    BY <1>1
  <2>3. sum' = SumFunctionOnSet(ValueToSum, {clusterCells'[i] : i \in 1 .. summed'})
    <3>1. SumFunctionOnSet(ValueToSum, {}) = 0
      BY SumEmpty
    <3> QED  BY <1>1, <2>2, <3>1, Zenon
  <2>4. sum' + Len(border') = Len(clusterCells')
    BY <1>1, <2>1
  <2> QED  BY <2>3, <2>4 DEF TotalInv
<1> QED  BY <1>1, <1>3, <1>4, <1>5, <1>6, FinishedStable DEF ResultInv

LEMMA PopResult ==
  ASSUME TypeOK, SearchInv, ResultInv, Pop
  PROVE  ResultInv'
<1>1. /\ UNCHANGED <<input, pc, cursor, clusterCells, clusterId, summed, result>>
      /\ pc = "grow" /\ border # <<>> /\ border \in Seq(Cell)
      /\ cell' = Head(border) /\ border' = Tail(border)
      /\ neighbours' = Visited(cell')
      /\ sum' = IF op = "cluster_size" THEN sum + 1 ELSE sum
  BY DEF Pop, Fifo!PopHead, TypeOK
<1>2. cell' \in Cell /\ cell' \in Range(border)
  BY <1>1 DEF Range
<1>3. Members' = Members /\ cell' \in Members /\ op' = op
  BY <1>1, <1>2 DEF Members, SearchInv, QueueInv, input
<1>4. \A c \in Cell : mark'[c] # Todo <=> mark[c] # Todo
  <2>1. mark[cell'] # Todo
    BY <1>3 DEF SearchInv, GrowInv
  <2>2. mark' = mark \/ mark' = [mark EXCEPT ![cell'] = Done]
    BY DEF Pop
  <2> QED  BY <2>1, <2>2 DEF TypeOK, Todo, Done
<1>5. Earlier' = Earlier /\ Given' = Given
  BY <1>1, <1>3, <1>4 DEF Earlier, Given
<1>6. ClusterInv'
  <2>1. \A b \in Range(neighbours') : Adjacent(cell', b)
    BY <1>1, <1>2, VisitedAdjacent
  <2>2. \A a, b : Adjacent(a, b)' <=> Adjacent(a, b)
    BY <1>1 DEF Adjacent, input
  <2>3. \A b \in Range(neighbours') : Adjacent(cell, b)'
    BY <2>1, <1>1 DEF Adjacent, input
  <2>4. Joined(Range(clusterCells))' <=> Joined(Range(clusterCells))
    BY <1>1, LinkedStable DEF Joined
  <2> QED  BY <1>1, <2>3, <2>4 DEF ResultInv, ClusterInv
<1>7. TotalInv'
  <2>1. Len(border') = Len(border) - 1 /\ Len(border) \in Nat /\ sum \in Int
    BY <1>1 DEF TypeOK
  <2>2. op = "cluster_size" => sum' + Len(border') = Len(clusterCells')
    <3>1. op = "cluster_size" => sum + Len(border) = Len(clusterCells)
      BY <1>1 DEF ResultInv, TotalInv
    <3> QED  BY <1>1, <2>1, <3>1
  <2>3. op = "cluster_sum" => sum' = sum
    BY <1>1
  <2> QED  BY <1>1, <1>3, <2>2, <2>3 DEF ResultInv, TotalInv
<1> QED  BY <1>1, <1>5, <1>6, <1>7, FinishedStable DEF ResultInv

LEMMA InsertResult ==
  ASSUME TypeOK, SearchInv, ResultInv, HandleCell,
         ras[Head(neighbours)] = ras[cursor], mark[Head(neighbours)] = Todo
  PROVE  ResultInv'
<1> DEFINE n == Head(neighbours)
<1>1. /\ UNCHANGED <<input, pc, cursor, clusterId, sum, summed, result>>
      /\ pc = "grow" /\ neighbours # <<>> /\ neighbours' = Tail(neighbours)
      /\ neighbours \in Seq(Cell) /\ clusterCells \in Seq(Cell) /\ border \in Seq(Cell)
      /\ cell \in Cell /\ summed \in 0 .. Len(clusterCells) /\ sum \in Int
  BY DEF HandleCell, TypeOK
<1>2. /\ border' = Append(border, n) /\ clusterCells' = Append(clusterCells, n)
      /\ cell' = cell /\ n \in Cell
      /\ Members = Range(clusterCells) /\ Members \subseteq Cell
      /\ n \notin Range(clusterCells)
      /\ Members' = Members \cup {n} /\ Earlier' = Earlier
  BY InsertStep
<1>3. Given' = Given /\ op' = op
  BY <1>1 DEF Given, input
<1>4. mark[n] = Todo /\ ras[n] = ras[cursor] /\ n \in Range(neighbours)
  BY <1>1 DEF Range
<1>5. Range(neighbours') \subseteq Range(neighbours)
  BY <1>1, RangeHeadTail
<1> HIDE DEF n
<1>6. /\ Joined(Members)
      /\ \A i, j \in 1 .. Len(clusterCells) : clusterCells[i] = clusterCells[j] => i = j
      /\ \A b \in Range(neighbours) : Adjacent(cell, b)
      /\ \A c \in Members : ~Before(c, cursor)
      /\ clusterId >= 1
  BY <1>1, <1>2 DEF ResultInv, ClusterInv
<1>7. ClusterInv'
  <2>1. Range(clusterCells') = Members'
    BY <1>1 DEF Members
  <2>2. Joined(Members)'
    <3>1. cell \in Members /\ ras[cell] = ras[cursor]
      BY <1>1 DEF SearchInv, QueueInv, GrowInv
    <3>2. Linked(cell, n)
      BY <1>4, <1>6, <3>1 DEF Linked
    <3>3. Joined(Members \cup {n})
      BY <1>2, <1>6, <3>1, <3>2, JoinedAdd
    <3>4. Joined(Members)' <=> Joined(Members \cup {n})
      BY <1>1, <1>2, LinkedStable DEF Joined
    <3> QED  BY <3>3, <3>4
  <2>3. \A i, j \in 1 .. Len(clusterCells') : clusterCells'[i] = clusterCells'[j] => i = j
    BY <1>1, <1>2, <1>6, DistinctAppend
  <2>4. \A b \in Range(neighbours') : Adjacent(cell, b)'
    BY <1>1, <1>2, <1>5, <1>6 DEF Adjacent, input
  <2>5. \A c \in Members' : ~Before(c, cursor)
    <3>1. Positive(n)
      BY <1>1, <1>4 DEF SearchInv, GrowInv, Positive
    <3>2. ~Before(n, cursor)
      BY <1>2, <1>4, <3>1 DEF SearchInv, EarlierInv
    <3> QED  BY <1>2, <1>6, <3>2
  <2> QED  BY <1>1, <1>2, <1>6, <2>1, <2>2, <2>3, <2>4, <2>5 DEF ClusterInv
<1>8. TotalInv'
  <2>1. /\ Len(border') = Len(border) + 1 /\ Len(border) \in Nat
        /\ Len(clusterCells') = Len(clusterCells) + 1 /\ Len(clusterCells) \in Nat
    BY <1>1, <1>2
  <2>2. op = "cluster_size" => sum' + Len(border') = Len(clusterCells')
    <3>1. op = "cluster_size" => sum + Len(border) = Len(clusterCells)
      BY <1>1 DEF ResultInv, TotalInv
    <3> QED  BY <1>1, <2>1, <3>1
  <2>3. \A i \in 1 .. summed : clusterCells'[i] = clusterCells[i]
    BY <1>1, <1>2
  <2>4. {clusterCells'[i] : i \in 1 .. summed'} = {clusterCells[i] : i \in 1 .. summed}
    BY <1>1, <2>3
  <2>5. op = "cluster_sum" =>
          sum' = SumFunctionOnSet(ValueToSum, {clusterCells'[i] : i \in 1 .. summed'})
    BY <1>1, <2>4 DEF ResultInv, TotalInv
  <2> QED  BY <1>3, <2>2, <2>5 DEF TotalInv
<1> QED  BY <1>1, <1>2, <1>3, <1>7, <1>8, FinishedStable DEF ResultInv

LEMMA PassOverResult ==
  ASSUME TypeOK, SearchInv, ResultInv, HandleCell,
         ~(ras[Head(neighbours)] = ras[cursor] /\ mark[Head(neighbours)] = Todo)
  PROVE  ResultInv'
<1>1. /\ UNCHANGED <<input, pc, cursor, clusterId, sum, summed, result>>
      /\ UNCHANGED <<mark, border, cell, clusterCells>>
      /\ pc = "grow" /\ neighbours # <<>> /\ neighbours' = Tail(neighbours)
      /\ neighbours \in Seq(Cell)
  BY DEF HandleCell, TypeOK
<1>2. Earlier' = Earlier /\ Given' = Given /\ op' = op
  BY <1>1 DEF Members, Earlier, Given, input
<1>3. Range(neighbours') \subseteq Range(neighbours)
  BY <1>1, RangeHeadTail
<1>4. ClusterInv'
  <2>1. \A b \in Range(neighbours') : Adjacent(cell, b)'
    BY <1>1, <1>3 DEF ResultInv, ClusterInv, Adjacent, input
  <2>2. Joined(Range(clusterCells))' <=> Joined(Range(clusterCells))
    BY <1>1, LinkedStable DEF Joined
  <2> QED  BY <1>1, <2>1, <2>2 DEF ResultInv, ClusterInv
<1>5. TotalInv'
  BY <1>1, <1>2 DEF ResultInv, TotalInv
<1> QED  BY <1>1, <1>2, <1>4, <1>5, FinishedStable DEF ResultInv

LEMMA AddValueResult ==
  ASSUME TypeOK, SearchInv, ResultInv, AddValue
  PROVE  ResultInv'
<1>1. /\ UNCHANGED <<input, pc, cursor, cell, neighbours, mark, border, clusterCells>>
      /\ UNCHANGED <<clusterId, result>>
      /\ pc = "grow" /\ op = "cluster_sum" /\ summed < Len(clusterCells)
      /\ summed' = summed + 1 /\ sum' = sum + ValueToSum[clusterCells[summed']]
      /\ clusterCells \in Seq(Cell) /\ summed \in 0 .. Len(clusterCells) /\ sum \in Int
  BY Zenon DEF AddValue, SearchOver, TypeOK
<1>2. Earlier' = Earlier /\ Given' = Given /\ op' = op
  BY <1>1 DEF Members, Earlier, Given, input
<1>3. ClusterInv'
  <2>1. Joined(Range(clusterCells))' <=> Joined(Range(clusterCells))
    BY <1>1, LinkedStable DEF Joined
  <2>2. \A b \in Range(neighbours') : Adjacent(cell, b)' <=> Adjacent(cell, b)
    BY <1>1 DEF Adjacent, input
  <2> QED  BY <1>1, <2>1, <2>2 DEF ResultInv, ClusterInv
<1>4. TotalInv'
  <2> DEFINE k == summed + 1
             A == {clusterCells[i] : i \in 1 .. summed}
             B == {clusterCells[i] : i \in 1 .. k}
             x == clusterCells[k]
  <2>1. k \in 1 .. Len(clusterCells) /\ k = summed' /\ summed \in Nat
    BY <1>1
  <2>2. x \in Cell /\ B \in SUBSET Cell
    BY <1>1, <2>1
  <2>3. B \ {x} = A /\ x \in B
    <3>1. \A i, j \in 1 .. Len(clusterCells) : clusterCells[i] = clusterCells[j] => i = j
      BY <1>1 DEF ResultInv, ClusterInv
    <3>2. \A i \in 1 .. k : i \in 1 .. Len(clusterCells)
      BY <1>1
    <3>3. \A i \in 1 .. k : i = k \/ i \in 1 .. summed
      BY <1>1
    <3>4. \A i \in 1 .. summed : i \in 1 .. k /\ i # k
      BY <1>1
    <3>5. k \in 1 .. k
      BY <2>1
    <3> HIDE DEF k
    <3> QED  BY <2>1, <3>1, <3>2, <3>3, <3>4, <3>5
  <2>4. sum = SumFunctionOnSet(ValueToSum, A)
    BY <1>1 DEF ResultInv, TotalInv
  <2>5. IsFiniteSet(B) /\ \A b \in B : ValueToSum[b] \in Int
    BY <2>2, CellsFinite, FS_Subset, ClustersAssumption
  <2> HIDE DEF A, B, x
  <2>6. SumFunctionOnSet(ValueToSum, B) = ValueToSum[x] + SumFunctionOnSet(ValueToSum, B \ {x})
    BY <2>3, <2>5, SumRemove
  <2>7. ValueToSum[x] \in Int
    BY <2>2, ClustersAssumption
  <2>8. sum' = SumFunctionOnSet(ValueToSum, B)
    <3>1. sum' = sum + ValueToSum[x]
      BY <1>1, <2>1, Zenon DEF x
    <3>2. SumFunctionOnSet(ValueToSum, B) = ValueToSum[x] + sum
      BY <2>3, <2>4, <2>6, Zenon
    <3> HIDE DEF k
    <3> QED  BY <1>1, <2>7, <3>1, <3>2
  <2>9. B = {clusterCells'[i] : i \in 1 .. summed'}
    BY <1>1, <2>1, Zenon DEF B
  <2>10. sum' = SumFunctionOnSet(ValueToSum, {clusterCells'[i] : i \in 1 .. summed'})
    BY <2>8, <2>9, Zenon
  <2> QED  BY <1>1, <1>2, <2>10 DEF TotalInv
<1> QED  BY <1>1, <1>2, <1>3, <1>4, FinishedStable DEF ResultInv

(* Neither of two cells is before the other only if they are the same.     *)
LEMMA BeforeTotal ==
  ASSUME NEW a \in Cell, NEW b \in Cell, NEW c \in Cell, Before(b, c), ~Before(a, c)
  PROVE  Before(b, a)
<1>1. /\ a[1] \in Int /\ a[2] \in Int /\ b[1] \in Int /\ b[2] \in Int
      /\ c[1] \in Int /\ c[2] \in Int
  BY GridAssumption DEF Cell
<1> QED  BY <1>1 DEF Before

LEMMA FinishClusterResult ==
  ASSUME TypeOK, SearchInv, ResultInv, FinishCluster
  PROVE  ResultInv'
<1> DEFINE value == IF op = "cluster_id" THEN clusterId ELSE sum
<1>1. /\ UNCHANGED <<input, border, clusterCells, clusterId>>
      /\ pc = "grow" /\ pc' = "scan" /\ cursor' = NextCell(cursor)
      /\ neighbours = <<>> /\ border = <<>> /\ cursor \in Cell
      /\ clusterCells \in Seq(Cell) /\ sum \in Int /\ clusterId \in Nat
      /\ op = "cluster_sum" => summed = Len(clusterCells)
  BY DEF FinishCluster, ClusterValue, SearchOver, TypeOK
<1>2. Members = Range(clusterCells) /\ Members' = {} /\ Members \subseteq Cell
  BY <1>1 DEF Members, Range
<1>3. \A c \in Cell : /\ result'[c] = IF c \in Members THEN value ELSE result[c]
                     /\ mark'[c] = IF c \in Members THEN Done ELSE mark[c]
  BY <1>2 DEF FinishCluster, ClusterValue
<1> HIDE DEF value
<1>4. \A c \in Cell : mark'[c] # Todo <=> mark[c] # Todo
  BY <1>3 DEF SearchInv, GrowInv, Done, Todo
<1>5. Earlier' = Earlier \cup Members /\ Earlier \cap Members = {} /\ Earlier \subseteq Cell
  BY <1>2, <1>4 DEF Earlier, SearchInv, GrowInv
<1>6. /\ Joined(Members)
      /\ \A i, j \in 1 .. Len(clusterCells) : clusterCells[i] = clusterCells[j] => i = j
      /\ \A c \in Members : ~Before(c, cursor)
      /\ clusterId >= 1
  BY <1>1, <1>2 DEF ResultInv, ClusterInv
<1>7. cursor \in Members /\ Positive(cursor) /\ \A c \in Members : ras[c] = ras[cursor]
  BY <1>1 DEF SearchInv, GrowInv
<1>8. Closed(Members)
  <2>1. Range(border) = {} /\ Range(neighbours) = {}
    BY <1>1 DEF Range
  <2> QED  BY <2>1 DEF SearchInv, GrowInv, Closed
<1>9. op' = op /\ ras' = ras
  BY <1>1 DEF input
<1>10. \A b \in Cell : Before(b, cursor') <=> Before(b, cursor) \/ b = cursor
  <2>1. cursor \in (0 .. Rows) \X (0 .. Cols - 1) /\ ~PastEnd(cursor)
    BY <1>1, GridAssumption DEF TypeOK, Cell, PastEnd
  <2> QED  BY <1>1, <2>1, NextCellInGrid
<1>11. ClusterInv' /\ TotalInv'
  BY <1>1 DEF ClusterInv, TotalInv
<1> PICK K : K = Members
  OBVIOUS
<1>12. Totalled(K)'
  <2>1. op = "cluster_size" => value = Cardinality(Members)
    <3>1. Cardinality(Members) = Len(clusterCells)
      BY <1>1, <1>2, <1>6, DistinctLength
    <3>2. op = "cluster_size" => sum + Len(border) = Len(clusterCells) /\ Len(border) = 0
      BY <1>1 DEF ResultInv, TotalInv
    <3> QED  BY <1>1, <3>1, <3>2 DEF value
  <2>2. op = "cluster_sum" => value = SumFunctionOnSet(ValueToSum, Members)
    <3> SUFFICES ASSUME op = "cluster_sum"
                 PROVE  sum = SumFunctionOnSet(ValueToSum, Members)
      BY DEF value
    <3>1. {clusterCells[i] : i \in 1 .. summed} = Members
      BY <1>1, <1>2 DEF Range
    <3>2. sum = SumFunctionOnSet(ValueToSum, {clusterCells[i] : i \in 1 .. summed})
      BY <1>1 DEF ResultInv, TotalInv
    <3> QED  BY <3>1, <3>2, Zenon
  <2>3. \A c \in K : result'[c] = value
    BY <1>2, <1>3
  <2> QED  BY <1>9, <2>1, <2>2, <2>3 DEF Totalled
<1>13. \A c \in Earlier : result'[c] = result[c]
  BY <1>3, <1>5
<1>14. FinishedInv'
  <2> SUFFICES ASSUME NEW c \in Earlier'
               PROVE  \E S \in SUBSET Earlier' :
                        c \in S /\ Closed(S)' /\ Joined(S)' /\ Totalled(S)'
    BY DEF FinishedInv
  <2>1. \A S : (Joined(S)' <=> Joined(S)) /\ (Closed(S)' <=> Closed(S))
    BY <1>1, JoinedStable
  <2>2. CASE c \in Members
    <3>1. K \in SUBSET Earlier' /\ c \in K
      BY <1>5, <2>2
    <3>2. Closed(K) /\ Joined(K)
      BY <1>6, <1>8
    <3> QED  BY <1>12, <2>1, <3>1, <3>2
  <2>3. CASE c \in Earlier
    <3>1. PICK L \in SUBSET Earlier : c \in L /\ Closed(L) /\ Joined(L) /\ Totalled(L)
      BY <2>3 DEF ResultInv, FinishedInv
    <3>2. Totalled(L)'
      BY <1>9, <1>13, <3>1 DEF Totalled
    <3> QED  BY <1>5, <2>1, <3>1, <3>2
  <2> QED  BY <1>5, <2>2, <2>3
<1>15. IdInv'
  <2> SUFFICES ASSUME op = "cluster_id" PROVE IdInv'
    BY <1>9 DEF IdInv
  <2>1. Given' = clusterId /\ Given = clusterId - 1 /\ clusterId \in Nat \ {0} /\ value = clusterId
    BY <1>1, <1>6 DEF Given, value
  <2>2. /\ \A c \in Earlier : result[c] \in 1 .. Given
        /\ \A id \in 1 .. Given : Holders(id) # {} /\ Joined(Holders(id))
        /\ \A id \in 2 .. Given : \A a \in Holders(id) : \E b \in Holders(id - 1) : Before(b, a)
        /\ Given > 0 => \E b \in Holders(Given) : Before(b, cursor)
    BY DEF ResultInv, IdInv
  <2>3. \A c \in Earlier' : result'[c] = IF c \in Members THEN clusterId ELSE result[c]
    BY <1>2, <1>3, <1>5, <2>1
  <2>4. \A c \in Earlier' : result'[c] \in 1 .. Given'
    BY <1>5, <2>1, <2>2, <2>3
  <2>5. \A id \in 1 .. Given : Holders(id)' = Holders(id)
    BY <1>5, <2>1, <2>2, <2>3 DEF Holders
  <2>6. Holders(clusterId)' = Members
    BY <1>5, <2>1, <2>2, <2>3, <1>1 DEF Holders
  <2>7. \A id \in 1 .. Given' : Holders(id)' # {} /\ Joined(Holders(id))'
    <3> SUFFICES ASSUME NEW id \in 1 .. Given'
                 PROVE  Holders(id)' # {} /\ Joined(Holders(id))'
      OBVIOUS
    <3>1. CASE id = clusterId
      <4>1. Holders(id)' = K
        BY <2>6, <3>1, <1>1
      <4>2. Joined(Holders(id))' <=> Joined(K)
        BY <1>1, <4>1, LinkedStable DEF Joined
      <4> QED  BY <1>6, <1>7, <4>1, <4>2
    <3>2. CASE id # clusterId
      <4>1. id \in 1 .. Given
        BY <2>1, <3>2
      <4>2. Holders(id)' = Holders(id)
        BY <2>5, <4>1
      <4>3. Joined(Holders(id))' <=> Joined(Holders(id))
        BY <1>1, <4>2, LinkedStable DEF Joined
      <4> QED  BY <2>2, <4>1, <4>2, <4>3
    <3> QED  BY <3>1, <3>2
  <2>8. \A id \in 2 .. Given' : \A a \in Holders(id)' :
          \E b \in Holders(id - 1)' : Before(b, a)
    <3> SUFFICES ASSUME NEW id \in 2 .. Given', NEW a \in Holders(id)'
                 PROVE  \E b \in Holders(id - 1)' : Before(b, a)
      OBVIOUS
    <3>1. id - 1 \in 1 .. Given /\ Holders(id - 1)' = Holders(id - 1)
      BY <2>1, <2>5
    <3>2. CASE id = clusterId
      <4>1. a \in Members /\ Given > 0 /\ id - 1 = Given
        BY <2>1, <2>6, <3>1, <3>2, <1>1
      <4>2. PICK b \in Holders(Given) : Before(b, cursor)
        BY <2>2, <4>1
      <4>3. b \in Cell /\ a \in Cell /\ ~Before(a, cursor)
        BY <1>2, <1>6, <4>1 DEF Holders, Earlier
      <4> QED  BY <1>1, <3>1, <4>1, <4>2, <4>3, BeforeTotal
    <3>3. CASE id # clusterId
      <4>1. id \in 2 .. Given /\ id \in 1 .. Given
        BY <2>1, <3>3
      <4>2. a \in Holders(id)
        BY <2>5, <4>1
      <4> QED  BY <2>2, <3>1, <4>1, <4>2
    <3> QED  BY <3>2, <3>3
  <2>9. \E b \in Holders(Given)' : Before(b, cursor')
    BY <1>1, <1>7, <1>10, <2>1, <2>6
  <2> QED  BY <2>4, <2>7, <2>8, <2>9 DEF IdInv
<1>16. KeptInv'
  <2> SUFFICES ASSUME NEW c \in Cell, Before(c, cursor'), ras[c] \in {0, NoData}
               PROVE  result'[c] = ras[c]
    BY <1>9 DEF KeptInv
  <2>1. ~Positive(c)
    BY ClustersAssumption DEF Positive
  <2>2. c \notin Members
    BY <1>7, <2>1 DEF Positive
  <2>3. Before(c, cursor)
    BY <1>7, <1>10, <2>2
  <2> QED  BY <1>3, <2>2, <2>3 DEF ResultInv, KeptInv
<1> QED  BY <1>11, <1>14, <1>15, <1>16 DEF ResultInv

LEMMA ResultNext == TypeOK /\ SearchInv /\ ResultInv /\ [Next]_vars => ResultInv'
<1> SUFFICES ASSUME TypeOK, SearchInv, ResultInv, [Next]_vars PROVE ResultInv'
  OBVIOUS
<1>1. CASE Scan
  BY <1>1, ScanResult
<1>2. CASE StartCluster
  BY <1>2, StartClusterResult
<1>3. CASE Pop
  BY <1>3, PopResult
<1>4. CASE HandleCell
  BY <1>4, InsertResult, PassOverResult
<1>5. CASE AddValue
  BY <1>5, AddValueResult
<1>6. CASE FinishCluster
  BY <1>6, FinishClusterResult
<1>7. CASE Return
  <2>1. /\ UNCHANGED <<input, mark, clusterId, cursor, result>>
        /\ pc = "scan" /\ pc' = "returned"
    BY <1>7 DEF Return, search
  <2>2. Earlier' = Earlier /\ Given' = Given /\ ClusterInv' /\ TotalInv'
    BY <2>1 DEF Members, Earlier, Given, ClusterInv, TotalInv
  <2> QED  BY <2>1, <2>2, FinishedStable DEF ResultInv
<1>8. CASE UNCHANGED vars
  <2>1. /\ UNCHANGED <<input, mark, clusterId, cursor, result, pc, clusterCells>>
        /\ UNCHANGED <<neighbours, cell, border, sum, summed>>
    BY <1>8 DEF vars, search
  <2>2. Earlier' = Earlier /\ Given' = Given /\ op' = op
    BY <2>1 DEF Members, Earlier, Given, input
  <2>3. TotalInv'
    BY <2>1, <2>2 DEF ResultInv, TotalInv
  <2>4. ClusterInv'
    <3>1. Joined(Range(clusterCells))' <=> Joined(Range(clusterCells))
      BY <2>1, LinkedStable DEF Joined
    <3>2. \A b \in Range(neighbours) : Adjacent(cell, b)' <=> Adjacent(cell, b)
      BY <2>1 DEF Adjacent, input
    <3> QED  BY <2>1, <3>1, <3>2 DEF ResultInv, ClusterInv
  <2> QED  BY <2>1, <2>2, <2>3, <2>4, FinishedStable DEF ResultInv
<1> QED  BY <1>1, <1>2, <1>3, <1>4, <1>5, <1>6, <1>7, <1>8 DEF Next

(* For every raster, grid and choice of neighbours: cluster_id gives the   *)
(* cells of each cluster one id, the clusters 1, 2, ... in the order of    *)
(* the scan; cluster_size and cluster_sum write into every cell the count  *)
(* or the sum of all cells that can be reached from it, each cell once;    *)
(* nodata and zero are kept.                                               *)
THEOREM ResultsAreExact == Spec => []ResultsExact
<1>1. TypeOK /\ SearchInv /\ ResultInv => ResultsExact
  <2> SUFFICES ASSUME TypeOK, SearchInv, ResultInv, pc = "returned" PROVE ResultsExact
    BY DEF ResultsExact, ClustersConnected, TotalsExact, IdsInScanOrder
  <2>1. \A c \in Cell : Before(c, cursor)
    BY GridAssumption DEF SearchInv, EarlierInv, PastEnd, Before, Cell
  <2>2. Earlier = {c \in Cell : Positive(c)}
    BY <2>1 DEF SearchInv, EarlierInv, Earlier, Members
  <2>3. Given = clusterId /\ clusterId \in Nat
    BY DEF Given, TypeOK
  <2>4. \A id : Holders(id) = {c \in Cell : Positive(c) /\ result[c] = id}
    BY <2>2 DEF Holders
  <2>5. ClustersConnected
    <3> SUFFICES ASSUME op = "cluster_id", NEW id \in 1 .. clusterId,
                        NEW part \in SUBSET Holders(id)
                 PROVE  \/ part \in {{}, Holders(id)}
                        \/ \E a \in part, b \in Holders(id) \ part : Linked(a, b)
      BY <2>4 DEF ClustersConnected
    <3>1. Joined(Holders(id))
      BY <2>3 DEF ResultInv, IdInv
    <3> QED  BY <3>1 DEF Joined
  <2>6. TotalsExact
    <3> SUFFICES ASSUME NEW c \in Cell, Positive(c)
                 PROVE  /\ op = "cluster_size" => result[c] = Cardinality(Component(c))
                        /\ op = "cluster_sum" =>
                             result[c] = SumFunctionOnSet(ValueToSum, Component(c))
      BY DEF TotalsExact
    <3>1. c \in Earlier
      BY <2>2
    <3>2. PICK K \in SUBSET Earlier : c \in K /\ Closed(K) /\ Joined(K) /\ Totalled(K)
      BY <3>1 DEF ResultInv, FinishedInv
    <3>3. K \in SUBSET Cell
      BY DEF Earlier
    <3>4. Component(c) = K
      BY <3>2, <3>3, ComponentExact
    <3> QED  BY <3>2, <3>4 DEF Totalled
  <2>7. IdsInScanOrder
    <3> SUFFICES ASSUME op = "cluster_id"
                 PROVE  /\ {result[c] : c \in {c \in Cell : Positive(c)}} = 1 .. clusterId
                        /\ \A a \in Cell : Positive(a) /\ result[a] > 1 =>
                             \E b \in Cell : /\ Before(b, a) /\ Positive(b)
                                             /\ result[b] = result[a] - 1
                        /\ \A c \in Cell : ras[c] \in {0, NoData} => result[c] = ras[c]
      BY DEF IdsInScanOrder
    <3>1. \A c \in Cell : ras[c] \in {0, NoData} => result[c] = ras[c]
      BY <2>1 DEF ResultInv, KeptInv
    <3>2. \A c \in Earlier : result[c] \in 1 .. clusterId
      BY <2>3 DEF ResultInv, IdInv
    <3>3. \A id \in 1 .. clusterId : \E c \in Earlier : result[c] = id
      BY <2>3 DEF ResultInv, IdInv, Holders
    <3>4. {result[c] : c \in Earlier} = 1 .. clusterId
      BY <3>2, <3>3
    <3>5. ASSUME NEW a \in Cell, Positive(a), result[a] > 1
          PROVE  \E b \in Cell : Before(b, a) /\ Positive(b) /\ result[b] = result[a] - 1
      <4>1. a \in Earlier /\ result[a] \in 1 .. clusterId
        BY <2>2, <3>2, <3>5
      <4>2. result[a] \in 2 .. clusterId /\ a \in Holders(result[a])
        BY <2>3, <3>5, <4>1 DEF Holders
      <4>3. PICK b \in Holders(result[a] - 1) : Before(b, a)
        BY <2>3, <4>2 DEF ResultInv, IdInv
      <4> QED  BY <2>4, <4>3
    <3> QED  BY <2>2, <3>1, <3>4, <3>5
  <2> QED  BY <2>5, <2>6, <2>7 DEF ResultsExact
<1>2. Init => TypeOK /\ SearchInv /\ ResultInv
  BY TypeInit, InvInit, ResultInit
<1>3. TypeOK /\ SearchInv /\ ResultInv /\ [Next]_vars => (TypeOK /\ SearchInv /\ ResultInv)'
  BY TypeNext, InvNext, ResultNext
<1> QED  BY <1>1, <1>2, <1>3, PTL DEF Spec

-----------------------------------------------------------------------------
(* The clusters with obstacles and the fuzzy ones                          *)

(* Cells that get their ids from the searches of this stage.               *)
Candidate(c) ==
  IF stage = "plain" THEN IsPositive(catMap, c) /\ call.obstacle[c] = 0
  ELSE /\ IsPositive(call.items, c)
       /\ call.op = "fuzzy_obstacles" => ~Obstacle(c)

(* A search goes on from a to b.                                           *)
Leads == {p \in Cell \X Cell : p[2] \in Range(VisitedFrom(p[1])) /\ Joins(p[1], p[2])}

(* What has been given the id, and what is about to get the latest.        *)
Group(id) ==
  {c \in Cell : Candidate(c) /\ \/ mark[c] = Done /\ result[c] = id
                                \/ mark[c] = InBorder /\ id = clusterId}

(* All of K is reached from its first cell by steps of R inside K: a step  *)
(* leads out of every part of K that has the first cell.                   *)
Rooted(K, first, R) ==
  /\ first \in K /\ \A m \in K \ {first} : Before(first, m)
  /\ \A part \in SUBSET K : first \in part /\ part # K =>
       \E a \in part, b \in K \ part : <<a, b>> \in R

Searching == stage \in {"plain", "fuzzy"}

ObstacleTypes ==
  /\ call \in CallType
  /\ stage \in {"plain", "assign", "fuzzy", "returned"}
  /\ cursor \in (0 .. Rows) \X (0 .. Cols - 1)
  /\ growing \in BOOLEAN /\ (growing => Searching /\ cursor \in Cell)
  /\ cell \in Cell /\ neighbours \in Seq(Cell) /\ border \in Seq(Cell)
  /\ mark \in [Cell -> {Todo, InBorder, Done}]
  /\ clusterId \in Nat
  /\ clusterSize \in [0 .. Rows * Cols - 1 -> Nat]
  /\ result \in [Cell -> Nat \cup {Unset, NoData}]
  /\ call.op = "fuzzy" => stage \in {"fuzzy", "returned"}
  /\ call.op = "obstacles" => stage # "fuzzy"

(* The border holds each cell marked for it once; there is none between    *)
(* two searches.  The neighbours are some of those of the cell.            *)
BorderInv ==
  /\ thrown = FALSE
  /\ \A i, j \in 1 .. Len(border) : border[i] = border[j] => i = j
  /\ \A c \in Cell : mark[c] = InBorder <=> c \in Range(border)
  /\ ~growing => border = <<>> /\ neighbours = <<>>
  /\ neighbours # <<>> => Candidate(cell) /\ mark[cell] = Done /\ result[cell] = clusterId
  /\ \A n \in Range(neighbours) : n \in Range(VisitedFrom(cell))

(* Searches come to candidates alone, and the loops leave none behind.     *)
MarkInv ==
  Searching =>
    /\ \A c \in Cell : mark[c] = InBorder => Candidate(c)
    /\ \A c \in Cell : Candidate(c) /\ Before(c, cursor) => mark[c] # Todo
    /\ growing => Candidate(cursor) /\ mark[cursor] # Todo /\ clusterId > 0
    /\ \A c \in Cell : Candidate(c) /\ mark[c] = Done => result[c] \in 1 .. clusterId
    /\ \A c \in Cell : ~Candidate(c) =>
         /\ stage = "plain" => mark[c] = Todo /\ result[c] = Unset
         /\ call.op = "fuzzy" => mark[c] = Done

(* What a search can go on to from a cell that has its id already has an   *)
(* id, no later one, or will get the same, or is still to be visited.      *)
GoneOnInv ==
  Searching =>
    \A a, b \in Cell :
      Candidate(a) /\ Candidate(b) /\ mark[a] = Done /\ <<a, b>> \in Leads =>
        \/ mark[b] = Done /\ result[b] <= result[a]
        \/ mark[b] = InBorder /\ result[a] = clusterId
        \/ a = cell /\ b \in Range(neighbours)

(* Each cluster is reached from the first of its cells.                    *)
RootInv ==
  Searching =>
    /\ growing => Rooted(Group(clusterId), cursor, Leads)
    /\ \A id \in 1 .. clusterId : Group(id) # {} => \E f \in Cell : Rooted(Group(id), f, Leads)
    /\ stage = "plain" => \A id \in 1 .. clusterId : Group(id) # {}

-----------------------------------------------------------------------------
(* The operators                                                           *)

(* The cells in the order of the loops.                                    *)
ScanOrder == [i \in 1 .. Rows * Cols |-> <<(i - 1) \div Cols, (i - 1) % Cols>>]

(* Every cell is met.                                                      *)
LEMMA ScanOrderIs ==
  ScanOrder \in Seq(Cell) /\ Len(ScanOrder) = Rows * Cols
    /\ \A c \in Cell : \E i \in 1 .. Rows * Cols : ScanOrder[i] = c
<1>1. Rows \in Nat \ {0} /\ Cols \in Nat \ {0} /\ Rows * Cols \in Nat
  BY GridAssumption
<1>2. ASSUME NEW i \in 1 .. Rows * Cols
      PROVE  <<(i - 1) \div Cols, (i - 1) % Cols>> \in Cell
  <2>1. i - 1 \in Nat /\ i - 1 < Rows * Cols
    BY <1>1
  <2>2. (i - 1) \div Cols \in 0 .. Rows - 1 /\ (i - 1) % Cols \in 0 .. Cols - 1
    BY <1>1, <2>1
  <2> QED  BY <2>2 DEF Cell
<1>3. ScanOrder \in [1 .. Rows * Cols -> Cell]
  BY <1>2 DEF ScanOrder
<1>4. ASSUME NEW r \in 0 .. Rows - 1, NEW c \in 0 .. Cols - 1
      PROVE  \E i \in 1 .. Rows * Cols : ScanOrder[i] = <<r, c>>
  <2> DEFINE k == r * Cols + c
  <2>1. k \in Nat /\ k < Rows * Cols
    <3>1. r * Cols + Cols <= Rows * Cols
      BY <1>1
    <3>2. r * Cols \in Nat
      BY <1>1
    <3> QED  BY <1>1, <3>1, <3>2
  <2>2. k \div Cols = r /\ k % Cols = c
    BY <1>1
  <2> HIDE DEF k
  <2>3. k + 1 \in 1 .. Rows * Cols /\ (k + 1) - 1 = k
    BY <1>1, <2>1
  <2>4. ScanOrder[k + 1] = <<r, c>>
    BY <2>2, <2>3 DEF ScanOrder
  <2> QED  BY <2>3, <2>4
<1>5. \A c \in Cell : \E i \in 1 .. Rows * Cols : ScanOrder[i] = c
  BY <1>4 DEF Cell
<1> QED  BY <1>1, <1>3, <1>5

(* InOrder goes through the cells one by one.                              *)
LEMMA InOrderAlong ==
  ASSUME NEW S
  PROVE  \E g : /\ g[1 .. 0] = <<>>
                /\ \A k \in 1 .. Rows * Cols :
                     g[1 .. k] = IF ScanOrder[k] \in S THEN Append(g[1 .. k - 1], ScanOrder[k])
                                 ELSE g[1 .. k - 1]
                /\ InOrder(S) = g[1 .. Rows * Cols]
<1> DEFINE w == ScanOrder
           n == Rows * Cols
           V == Seq(Cell)
           On(x, c) == IF c \in S THEN Append(x, c) ELSE x
           F == [p \in (1 .. n) \X V |-> On(p[2], w[p[1]])]
           Keeps(g) == g = [s \in SUBSET (1 .. n) |->
                              IF s = {} THEN <<>>
                              ELSE IF w[Max(s)] \in S THEN Append(g[s \ {Max(s)}], w[Max(s)])
                                   ELSE g[s \ {Max(s)}]]
           g == CHOOSE g : Keeps(g)
<1>1. n \in Nat /\ w \in Seq(Cell) /\ DOMAIN w = 1 .. n
  BY ScanOrderIs, GridAssumption
<1>2. \A i \in 1 .. n : \A x \in V : On(x, w[i]) \in V
  <2> HIDE DEF w, n
  <2> QED  BY <1>1
<1>3. F \in [(1 .. n) \X V -> V]
  <2> HIDE DEF n, V, On, w
  <2> QED  BY <1>2
<1>4. \A i \in 1 .. n : \A x \in V : F[<<i, x>>] = On(x, w[i])
  <2> HIDE DEF On, V, w, n
  <2> QED  OBVIOUS
<1>5. InOrder(S) = g[1 .. n]
  <2>1. InOrder(S) = FoldLeft(LAMBDA seen, c : IF c \in S THEN Append(seen, c) ELSE seen, <<>>, w)
    BY DEF InOrder, ScanOrder
  <2>2. FoldLeft(LAMBDA seen, c : IF c \in S THEN Append(seen, c) ELSE seen, <<>>, w) = g[1 .. n]
    <3> HIDE DEF n, w
    <3> QED  BY <1>1 DEF FoldLeft, MapThenFoldSet
  <2> QED  BY <2>1, <2>2
<1>6. <<>> \in V
  OBVIOUS
<1> HIDE DEF n, F, V, On, w
<1>7. \E h : Keeps(h)
  <2>1. PICK h \in [SUBSET (1 .. n) -> V] : Folds(h, 1 .. n, <<>>, F, Latest(n))
    BY <1>1, <1>3, <1>6, LeftFoldExists
  <2>2. ASSUME NEW s \in SUBSET (1 .. n)
        PROVE  h[s] = IF s = {} THEN <<>> ELSE On(h[s \ {Max(s)}], w[Max(s)])
    <3>1. \A r \in SUBSET (1 .. n) :
            h[r] = IF r = {} THEN <<>>
                   ELSE F[<<Latest(n)[r], h[r \ {Latest(n)[r]}]>>]
      <4>1. h = [r \in SUBSET (1 .. n) |->
                   IF r = {} THEN <<>>
                   ELSE F[<<Latest(n)[r], h[r \ {Latest(n)[r]}]>>]]
        BY <2>1 DEF Folds
      <4> QED  BY <4>1, Zenon
    <3>2. CASE s # {}
      <4>1. Latest(n)[s] = Max(s)
        BY DEF Latest
      <4>2. Max(s) \in 1 .. n /\ h[s \ {Max(s)}] \in V
        BY <1>1, <3>2, MaxIs
      <4> QED  BY <1>4, <3>1, <3>2, <4>1, <4>2
    <3> QED  BY <3>1, <3>2
  <2>3. h = [s \in SUBSET (1 .. n) |-> IF s = {} THEN <<>> ELSE On(h[s \ {Max(s)}], w[Max(s)])]
    BY <2>1, <2>2
  <2>4. Keeps(h)
    BY <2>3, Zenon DEF On
  <2> QED  BY <2>4
<1>8. Keeps(g)
  BY <1>7
<1> HIDE DEF g
<1>9. \A s \in SUBSET (1 .. n) :
        g[s] = IF s = {} THEN <<>>
               ELSE IF w[Max(s)] \in S THEN Append(g[s \ {Max(s)}], w[Max(s)])
                    ELSE g[s \ {Max(s)}]
  BY <1>8, Zenon
<1>10. g[1 .. 0] = <<>>
  <2>1. 1 .. 0 = {} /\ {} \in SUBSET (1 .. n)
    OBVIOUS
  <2> QED  BY <1>9, <2>1, Zenon
<1>11. ASSUME NEW k \in 1 .. n
       PROVE  g[1 .. k] = IF w[k] \in S THEN Append(g[1 .. k - 1], w[k]) ELSE g[1 .. k - 1]
  <2>1. /\ 1 .. k \in SUBSET (1 .. n) /\ 1 .. k # {}
        /\ (1 .. k) \ {k} = 1 .. k - 1
    BY <1>1, Segment
  <2>2. Max(1 .. k) = k
    BY <1>1, MaxIs
  <2> QED  BY <1>9, <2>1, <2>2, Zenon
<1> QED  BY <1>5, <1>10, <1>11 DEF n, w

(* It keeps every cell of the set.                                         *)
LEMMA InOrderIs ==
  ASSUME NEW S \in SUBSET Cell
  PROVE  InOrder(S) \in Seq(Cell) /\ Range(InOrder(S)) = S
<1> DEFINE w == ScanOrder
           n == Rows * Cols
           To(k) == {w[i] : i \in 1 .. k} \cap S
<1>1. w \in Seq(Cell) /\ Len(w) = n /\ n \in Nat
  BY ScanOrderIs, GridAssumption
<1>2. PICK g : /\ g[1 .. 0] = <<>>
               /\ \A k \in 1 .. n : g[1 .. k] = IF w[k] \in S THEN Append(g[1 .. k - 1], w[k])
                                                ELSE g[1 .. k - 1]
               /\ InOrder(S) = g[1 .. n]
  BY InOrderAlong
<1>3. InOrder(S) = g[1 .. n]
  BY <1>2
<1>4. \A i \in 1 .. n : w[i] \in Cell
  BY <1>1
<1>5. To(n) = S
  BY ScanOrderIs
<1> HIDE DEF w, n
<1> DEFINE Off == {k \in 0 .. n : ~(g[1 .. k] \in Seq(Cell) /\ Range(g[1 .. k]) = To(k))}
<1>6. Off = {}
  <2> SUFFICES ASSUME Off # {} PROVE FALSE
    OBVIOUS
  <2>1. PICK k \in Off : \A m \in Off : k <= m
    <3>1. Off \in SUBSET Nat
      OBVIOUS
    <3> HIDE DEF Off
    <3> QED  BY <3>1, LeastNatural
  <2>2. k \in 0 .. n /\ ~(g[1 .. k] \in Seq(Cell) /\ Range(g[1 .. k]) = To(k))
    OBVIOUS
  <2>3. k # 0
    <3> SUFFICES ASSUME k = 0 PROVE FALSE
      OBVIOUS
    <3>1. To(0) = {} /\ <<>> \in Seq(Cell)
      OBVIOUS
    <3>2. Range(<<>>) = {}
      BY DEF Range
    <3> HIDE DEF To
    <3> QED  BY <1>2, <2>2, <3>1, <3>2
  <2>4. k \in 1 .. n /\ k - 1 \in 0 .. n /\ ~(k <= k - 1)
    BY <1>1, <2>2, <2>3
  <2>5. g[1 .. k - 1] \in Seq(Cell) /\ Range(g[1 .. k - 1]) = To(k - 1)
    BY <2>1, <2>4
  <2>6. To(k) = IF w[k] \in S THEN To(k - 1) \cup {w[k]} ELSE To(k - 1)
    <3>1. 1 .. k = (1 .. k - 1) \cup {k}
      BY <2>4
    <3> QED  BY <3>1
  <2>7. w[k] \in Cell
    BY <1>4, <2>4
  <2> HIDE DEF To
  <2>8. g[1 .. k] = IF w[k] \in S THEN Append(g[1 .. k - 1], w[k]) ELSE g[1 .. k - 1]
    BY <1>2, <2>4
  <2>9. CASE w[k] \in S
    <3>1. Append(g[1 .. k - 1], w[k]) \in Seq(Cell)
      BY <2>5, <2>7
    <3>2. Range(Append(g[1 .. k - 1], w[k])) = Range(g[1 .. k - 1]) \cup {w[k]}
      BY <2>5, <2>7, RangeAppend
    <3> QED  BY <2>2, <2>5, <2>6, <2>8, <2>9, <3>1, <3>2
  <2>10. CASE w[k] \notin S
    BY <2>2, <2>5, <2>6, <2>8, <2>10
  <2> QED  BY <2>9, <2>10
<1>7. n \in 0 .. n
  BY <1>1
<1>8. g[1 .. n] \in Seq(Cell) /\ Range(g[1 .. n]) = To(n)
  BY <1>6, <1>7
<1> HIDE DEF To
<1> QED  BY <1>3, <1>5, <1>8

(* What a search visits from a cell.                                       *)
LEMMA VisitedFromIs ==
  ASSUME NEW c \in Cell
  PROVE  /\ VisitedFrom(c) \in Seq(Cell)
         /\ Range(VisitedFrom(c)) = IF stage = "plain"
                                      THEN {n \in Cell : Straight(c, n) \/ Diagonal(c, n)}
                                      ELSE {n \in Cell : Near(c, n)}
<1>1. CASE stage = "plain"
  <2> DEFINE s == StraightNeighbours(c)
             d == DiagNeighbours(c)
  <2>1. VisitedFrom(c) = s \o d
    BY <1>1 DEF VisitedFrom
  <2>2. /\ s \in Seq(Cell) /\ d \in Seq(Cell)
        /\ \A b \in Cell : Straight(c, b) <=> b \in Range(s)
        /\ \A b \in Cell : Diagonal(c, b) <=> b \in Range(d)
    BY NeighboursComplete
  <2> HIDE DEF s, d
  <2>3. s \o d \in Seq(Cell) /\ Range(s \o d) = Range(s) \cup Range(d)
    BY <2>2, RangeConcat
  <2>4. Range(s) \subseteq Cell /\ Range(d) \subseteq Cell
    BY <2>2 DEF Range
  <2> QED  BY <1>1, <2>1, <2>2, <2>3, <2>4
<1>2. CASE stage # "plain"
  <2> DEFINE S == {n \in Cell : Near(c, n)}
  <2>1. S \in SUBSET Cell
    OBVIOUS
  <2>2. VisitedFrom(c) = InOrder(S)
    BY <1>2 DEF VisitedFrom
  <2> HIDE DEF S
  <2>3. InOrder(S) \in Seq(Cell) /\ Range(InOrder(S)) = S
    BY <2>1, InOrderIs
  <2> QED  BY <1>2, <2>2, <2>3 DEF S
<1> QED  BY <1>1, <1>2

(* A line to a cell under an obstacle is blocked, at its last step.        *)
LEMMA ObstacleEndsPath ==
  ASSUME NEW a \in Cell, NEW b \in Cell, a # b, Obstacle(b)
  PROVE  BlockedPath(a, b)
<1> DEFINE There == {k \in Nat : OnPath(a, b, k) = b}
<1>1. /\ a[1] \in Int /\ a[2] \in Int /\ b[1] \in Int /\ b[2] \in Int
      /\ a = <<a[1], a[2]>> /\ b = <<b[1], b[2]>>
      /\ a[1] \in 0 .. Rows - 1 /\ b[1] \in 0 .. Rows - 1
      /\ a[2] \in 0 .. Cols - 1 /\ b[2] \in 0 .. Cols - 1
      /\ Rows \in Nat /\ Cols \in Nat
  BY GridAssumption DEF Cell
<1>2. OnPath(a, b, 0) = a
  <2>1. Toward(a[1], b[1], 0) = a[1] /\ Toward(a[2], b[2], 0) = a[2]
    BY <1>1 DEF Toward
  <2> QED  BY <1>1, <2>1 DEF OnPath
<1>3. OnPath(a, b, Rows + Cols) = b
  <2>1. Toward(a[1], b[1], Rows + Cols) = b[1] /\ Toward(a[2], b[2], Rows + Cols) = b[2]
    BY <1>1 DEF Toward
  <2> QED  BY <1>1, <2>1 DEF OnPath
<1>4. Rows + Cols \in There
  BY <1>1, <1>3
<1>5. There \in SUBSET Nat
  OBVIOUS
<1>6. PICK k \in There : \A j \in There : k <= j
  <2> HIDE DEF There
  <2> QED  BY <1>4, <1>5, LeastNatural
<1>7. k # 0
  BY <1>2, <1>6
<1>8. k \in Nat /\ k <= Rows + Cols /\ OnPath(a, b, k) = b
  BY <1>4, <1>6
<1>9. k - 1 \in Nat /\ k - 1 \in 0 .. Rows + Cols /\ ~(k <= k - 1) /\ (k - 1) + 1 = k
  BY <1>1, <1>7, <1>8
<1>10. OnPath(a, b, k - 1) # b
  BY <1>6, <1>9
<1>11. Blocked(OnPath(a, b, k - 1), OnPath(a, b, (k - 1) + 1))
  BY <1>8, <1>9 DEF Blocked
<1> QED  BY <1>9, <1>10, <1>11 DEF BlockedPath

(* A search that does not meet cells marked as done stays with candidates. *)
LEMMA LeadsToCandidates ==
  ASSUME ObstacleTypes, Searching, NEW a \in Cell, NEW b \in Cell,
         Candidate(a), <<a, b>> \in Leads, call.op = "fuzzy" => Candidate(b)
  PROVE  Candidate(b)
<1>1. Joins(a, b)
  BY DEF Leads
<1>2. CASE stage = "plain"
  BY <1>1, <1>2 DEF Joins, Candidate, Blocked, Obstacle, IsPositive
<1>3. CASE stage # "plain" /\ call.op = "fuzzy_obstacles"
  <2>1. call.items[b] = call.items[a] /\ ~BlockedPath(a, b)
    BY <1>1, <1>3 DEF Joins
  <2>2. a # b => ~Obstacle(b)
    BY <2>1, ObstacleEndsPath
  <2> QED  BY <1>3, <2>1, <2>2 DEF Candidate, IsPositive
<1>4. CASE stage # "plain" /\ call.op = "obstacles"
  BY <1>4 DEF ObstacleTypes, Searching
<1> QED  BY <1>2, <1>3, <1>4 DEF ObstacleTypes, CallType, ObstacleOperations

(* What the searches join is what belongs together.                        *)
LEMMA LeadsTogether ==
  ASSUME ObstacleTypes, stage = "fuzzy" \/ (stage = "plain" /\ call.op = "obstacles")
  PROVE  /\ \A c : Candidate(c) <=> Open(c)
         /\ \A a, b \in Cell : <<a, b>> \in Leads <=> Together(a, b)
<1>1. CASE stage = "plain" /\ call.op = "obstacles"
  <2>1. catMap = call.items
    BY <1>1 DEF catMap
  <2>2. \A c : Candidate(c) <=> Open(c)
    BY <1>1, <2>1 DEF Candidate, Open
  <2>3. ASSUME NEW a \in Cell, NEW b \in Cell PROVE <<a, b>> \in Leads <=> Together(a, b)
    <3>1. b \in Range(VisitedFrom(a)) <=> Straight(a, b) \/ Diagonal(a, b)
      BY <1>1, VisitedFromIs
    <3>2. Joins(a, b) <=> call.items[a] = call.items[b] /\ ~Blocked(a, b)
      BY <1>1, <2>1 DEF Joins
    <3>3. Together(a, b) <=> /\ Straight(a, b) \/ Diagonal(a, b)
                             /\ call.items[a] = call.items[b] /\ ~Blocked(a, b)
      BY <1>1 DEF Together
    <3> QED  BY <3>1, <3>2, <3>3 DEF Leads
  <2> QED  BY <2>2, <2>3
<1>2. CASE stage = "fuzzy"
  <2>1. call.op = "fuzzy" \/ call.op = "fuzzy_obstacles"
    BY <1>2 DEF ObstacleTypes, CallType, ObstacleOperations
  <2>2. \A c : Candidate(c) <=> Open(c)
    BY <1>2, <2>1 DEF Candidate, Open, Obstacle
  <2>3. ASSUME NEW a \in Cell, NEW b \in Cell PROVE <<a, b>> \in Leads <=> Together(a, b)
    <3>1. b \in Range(VisitedFrom(a)) <=> Near(a, b)
      BY <1>2, VisitedFromIs
    <3>2. CASE call.op = "fuzzy"
      <4>1. Joins(a, b) /\ (Together(a, b) <=> Near(a, b))
        BY <1>2, <3>2 DEF Joins, Together
      <4> QED  BY <3>1, <4>1 DEF Leads
    <3>3. CASE call.op = "fuzzy_obstacles"
      <4>1. Together(a, b) <=> /\ Near(a, b) /\ call.items[a] = call.items[b]
                               /\ backgroundId[a] = backgroundId[b] /\ ~BlockedPath(a, b)
        BY <3>3 DEF Together
      <4>2. Joins(a, b) <=> /\ call.items[a] = call.items[b]
                            /\ backgroundId[a] = backgroundId[b] /\ ~BlockedPath(a, b)
        BY <1>2, <3>3 DEF Joins
      <4> QED  BY <3>1, <4>1, <4>2 DEF Leads
    <3> QED  BY <2>1, <3>2, <3>3
  <2> QED  BY <2>2, <2>3
<1> QED  BY <1>1, <1>2

(* Where searches go on to depends on the call, its stage and the areas    *)
(* found before.                                                           *)
LEMMA LeadsSteady ==
  ASSUME call' = call, stage' = stage, backgroundId' = backgroundId
  PROVE  /\ \A c : Candidate(c)' <=> Candidate(c)
         /\ Leads' = Leads
         /\ \A c \in Cell : VisitedFrom(c)' = VisitedFrom(c)
         /\ Searching' <=> Searching
<1>1. \A c : Candidate(c)' <=> Candidate(c)
  BY DEF Candidate, IsPositive, catMap, Obstacle
<1>2. \A c \in Cell : VisitedFrom(c)' = VisitedFrom(c)
  <2>1. \A a, b : Near(a, b)' <=> Near(a, b)
    BY DEF Near
  <2> QED  BY <2>1 DEF VisitedFrom
<1>3. \A a, b : Joins(a, b)' <=> Joins(a, b)
  <2>1. \A a, b : Blocked(a, b)' <=> Blocked(a, b)
    BY DEF Blocked, Obstacle
  <2>2. \A a, b : BlockedPath(a, b)' <=> BlockedPath(a, b)
    BY <2>1 DEF BlockedPath
  <2> QED  BY <2>1, <2>2 DEF Joins, catMap
<1>4. Leads' = Leads
  BY <1>2, <1>3 DEF Leads
<1> QED  BY <1>1, <1>2, <1>4 DEF Searching

(* What the first part of cluster_id_with_obstacles gives ids to.          *)
PlainCandidate(c) == IsPositive(catMap, c) /\ call.obstacle[c] = 0

(* The cells around c that hold the id.                                    *)
Held(c, id) ==
  {n \in Cell : (Straight(c, n) \/ Diagonal(c, n)) /\ Open(n) /\ result[n] = id}

JoinsMost(c) ==
  /\ result[c] \in DOMAIN clusterSize
  /\ result[c] = 0 <=> \A id \in 1 .. clusterId : Cardinality(Held(c, id)) = 0
  /\ \A id \in 1 .. clusterId :
       Cardinality(Held(c, id)) <= Cardinality(Held(c, result[c])) \/ result[c] = 0

(* While cells under obstacles are given to clusters the other cells keep  *)
(* their ids, and every id is held by some cell.                           *)
AssignInv ==
  stage = "assign" =>
    /\ \A c \in Cell : PlainCandidate(c) => result[c] \in 1 .. clusterId
    /\ \A c \in Cell : ~PlainCandidate(c) /\ call.obstacle[c] # 1 => result[c] = Unset
    /\ \A id \in 1 .. clusterId : \E c \in Cell : PlainCandidate(c) /\ result[c] = id
    /\ call.op = "obstacles" =>
         \A c \in Cell : Before(c, cursor) /\ IsPositive(call.items, c) /\ call.obstacle[c] = 1
           => JoinsMost(c)

Belong == {p \in Cell \X Cell : Together(p[1], p[2])}

(* The cells that share the id of c.                                       *)
MembersOf(c) == {m \in Cell : Open(m) /\ result[m] = result[c]}

(* Nothing that can be reached from a cell was left to a later cluster,    *)
(* and each cluster is reached from its first cell.                        *)
NoneLater ==
  \A a, b \in Cell :
    Open(a) /\ Open(b) /\ <<a, b>> \in Belong => result[b] <= result[a]

AllRooted ==
  \A c \in Cell : Open(c) => \E f \in Cell : Rooted(MembersOf(c), f, Belong)

(* What the searches leave behind them.                                    *)
SettledInv ==
  stage = "returned" \/ (stage = "assign" /\ call.op = "obstacles") =>
    /\ NoneLater /\ AllRooted
    /\ stage = "returned" /\ call.op = "obstacles" =>
         \A c \in Cell : IsPositive(call.items, c) /\ call.obstacle[c] = 1 => JoinsMost(c)

ObstacleInv == /\ ObstacleTypes /\ BorderInv /\ MarkInv /\ GoneOnInv /\ RootInv
               /\ AssignInv /\ SettledInv

-----------------------------------------------------------------------------
(* Cells under obstacles                                                   *)

(* A function on a set has a least value.                                  *)
LEMMA SomeLeast ==
  ASSUME NEW S, S # {}, NEW f, \A x \in S : f[x] \in Nat
  PROVE  \E x \in S : \A y \in S : f[x] <= f[y]
<1> DEFINE V == {f[x] : x \in S}
<1>1. V \in SUBSET Nat /\ V # {}
  OBVIOUS
<1>2. PICK k \in V : \A j \in V : k <= j
  <2> HIDE DEF V
  <2> QED  BY <1>1, LeastNatural
<1> QED  BY <1>2

(* If it is bounded, it has a greatest one.                                *)
LEMMA SomeMost ==
  ASSUME NEW S, S # {}, NEW f, NEW N \in Nat, \A x \in S : f[x] \in 0 .. N
  PROVE  \E x \in S : \A y \in S : f[y] <= f[x]
<1> DEFINE g == [x \in S |-> N - f[x]]
<1>1. \A x \in S : g[x] \in Nat
  OBVIOUS
<1>2. PICK x \in S : \A y \in S : g[x] <= g[y]
  <2> HIDE DEF g
  <2> QED  BY <1>1, SomeLeast
<1>3. \A y \in S : f[y] <= f[x]
  <2> SUFFICES ASSUME NEW y \in S PROVE f[y] <= f[x]
    OBVIOUS
  <2>1. N - f[x] <= N - f[y]
    BY <1>2
  <2> QED  BY <2>1
<1> QED  BY <1>3

(* MostAround is one of the ids around that most cells hold: of those the  *)
(* first one of the least size.                                            *)
LEMMA MostAroundIs ==
  ASSUME NEW c \in Cell, ClusterCellsAround(c) # {},
         \A n \in ClusterCellsAround(c) : result[n] \in Nat /\ clusterSize[result[n]] \in Nat
  PROVE  /\ \E n \in ClusterCellsAround(c) : MostAround(c) = result[n]
         /\ \A o \in ClusterCellsAround(c) :
              Cardinality({n \in ClusterCellsAround(c) : result[n] = result[o]})
                <= Cardinality({n \in ClusterCellsAround(c) : result[n] = MostAround(c)})
         /\ \A o \in ClusterCellsAround(c) :
              Cardinality({n \in ClusterCellsAround(c) : result[n] = result[o]})
                  = Cardinality({n \in ClusterCellsAround(c) : result[n] = MostAround(c)})
                => \/ clusterSize[MostAround(c)] < clusterSize[result[o]]
                   \/ /\ clusterSize[MostAround(c)] = clusterSize[result[o]]
                      /\ MostAround(c) <= result[o]
<1> DEFINE around == ClusterCellsAround(c)
           ids == {result[n] : n \in around}
           With(id) == {n \in around : result[n] = id}
           count == [id \in ids |-> Cardinality(With(id))]
           most == {id \in ids : \A other \in ids : count[other] <= count[id]}
           least == {id \in most : \A other \in most : clusterSize[id] <= clusterSize[other]}
           best == CHOOSE id \in least : \A other \in least : id <= other
<1>1. countNeighbors(c) = count /\ DOMAIN count = ids
  BY DEF countNeighbors
<1>2. MostAround(c) = best
  BY <1>1 DEF MostAround
<1>3. \A id \in ids : count[id] \in 0 .. Rows * Cols
  <2> SUFFICES ASSUME NEW id \in ids PROVE Cardinality(With(id)) \in 0 .. Rows * Cols
    OBVIOUS
  <2>1. With(id) \in SUBSET Cell
    BY DEF ClusterCellsAround
  <2> HIDE DEF With
  <2>2. Cardinality(With(id)) <= Cardinality(Cell) /\ Cardinality(With(id)) \in Nat
    BY <2>1, CellsFinite, FS_Subset, FS_CardinalityType
  <2> QED  BY <2>2, CellsFinite, GridAssumption
<1>4. ids # {} /\ (\A id \in ids : id \in Nat /\ clusterSize[id] \in Nat)
  OBVIOUS
<1>5. \A id \in ids : count[id] = Cardinality(With(id))
  OBVIOUS
<1> HIDE DEF ids, count
<1>6. most # {}
  <2>1. Rows * Cols \in Nat
    BY GridAssumption
  <2>2. \E x \in ids : \A y \in ids : count[y] <= count[x]
    BY <1>3, <1>4, <2>1, SomeMost
  <2> QED  BY <2>2
<1>7. least # {}
  <2>1. \A id \in most : clusterSize[id] \in Nat
    BY <1>4
  <2> HIDE DEF most
  <2>2. \E x \in most : \A y \in most : clusterSize[x] <= clusterSize[y]
    BY <1>6, <2>1, SomeLeast
  <2> QED  BY <2>2
<1>8. best \in least
  <2> DEFINE same == [id \in least |-> id]
  <2>1. \A id \in least : same[id] \in Nat
    BY <1>4
  <2> HIDE DEF least, same
  <2>2. \E x \in least : \A y \in least : same[x] <= same[y]
    BY <1>7, <2>1, SomeLeast
  <2>3. \E x \in least : \A y \in least : x <= y
    BY <2>2 DEF same
  <2> QED  BY <2>3
<1>9. best \in ids /\ \A other \in ids : count[other] <= count[best]
  <2> HIDE DEF best
  <2> QED  BY <1>8
<1>10. ASSUME NEW other \in ids, count[other] = count[best]
       PROVE  \/ clusterSize[best] < clusterSize[other]
              \/ clusterSize[best] = clusterSize[other] /\ best <= other
  <2>1. other \in most
    <3> HIDE DEF best
    <3> QED  BY <1>9, <1>10
  <2>2. clusterSize[best] <= clusterSize[other]
    <3> HIDE DEF best, most
    <3> QED  BY <1>8, <2>1
  <2>3. CASE clusterSize[best] = clusterSize[other]
    <3>1. other \in least
      <4> HIDE DEF best, most
      <4>1. \A another \in most : clusterSize[best] <= clusterSize[another]
        BY <1>8
      <4> QED  BY <2>1, <2>3, <4>1
    <3>2. \A y \in least : best <= y
      <4> DEFINE same == [id \in least |-> id]
      <4>1. \A id \in least : same[id] \in Nat
        BY <1>4
      <4> HIDE DEF least, same
      <4>2. \E x \in least : \A y \in least : same[x] <= same[y]
        BY <1>7, <4>1, SomeLeast
      <4>3. \E x \in least : \A y \in least : x <= y
        BY <4>2 DEF same
      <4> QED  BY <4>3
    <3> QED  BY <2>3, <3>1, <3>2
  <2>4. CASE clusterSize[best] # clusterSize[other]
    <3> HIDE DEF best
    <3> QED  BY <1>4, <1>9, <2>2, <2>4
  <2> QED  BY <2>3, <2>4
<1> HIDE DEF best, most, least
<1>11. \A o \in around : Cardinality(With(result[o])) <= Cardinality(With(best))
  <2> SUFFICES ASSUME NEW o \in around
               PROVE  Cardinality(With(result[o])) <= Cardinality(With(best))
    OBVIOUS
  <2>1. result[o] \in ids
    BY DEF ids
  <2> QED  BY <1>5, <1>9, <2>1
<1>12. \E n \in around : best = result[n]
  BY <1>9 DEF ids
<1>13. ASSUME NEW o \in around, Cardinality(With(result[o])) = Cardinality(With(best))
       PROVE  \/ clusterSize[best] < clusterSize[result[o]]
              \/ clusterSize[best] = clusterSize[result[o]] /\ best <= result[o]
  <2>1. result[o] \in ids
    BY DEF ids
  <2>2. count[result[o]] = count[best]
    BY <1>5, <1>9, <1>13, <2>1
  <2> QED  BY <1>10, <2>1, <2>2
<1> QED  BY <1>2, <1>11, <1>12, <1>13

(* Around a cell under an obstacle are the cells that the searches gave    *)
(* ids to.                                                                 *)
LEMMA AroundObstacle ==
  ASSUME ObstacleTypes, AssignInv, stage = "assign", NEW c \in Cell, call.obstacle[c] = 1
  PROVE  /\ ClusterCellsAround(c)
              = {n \in Cell : (Straight(c, n) \/ Diagonal(c, n)) /\ PlainCandidate(n)}
         /\ clusterId \in 0 .. Rows * Cols - 1
         /\ \A n \in ClusterCellsAround(c) :
              result[n] \in 1 .. clusterId /\ clusterSize[result[n]] \in Nat
<1>1. /\ \A n \in Cell : PlainCandidate(n) => result[n] \in 1 .. clusterId
      /\ \A n \in Cell : ~PlainCandidate(n) /\ call.obstacle[n] # 1 => result[n] = Unset
      /\ \A id \in 1 .. clusterId : \E n \in Cell : PlainCandidate(n) /\ result[n] = id
      /\ clusterId \in Nat /\ clusterSize \in [0 .. Rows * Cols - 1 -> Nat]
      /\ NoData \notin Int
  BY ObstacleClustersAssumption DEF AssignInv, ObstacleTypes
<1>2. \A n \in Cell : PlainCandidate(n) => call.obstacle[n] = 0 /\ n # c
  BY DEF PlainCandidate
<1>3. ASSUME NEW n \in Cell, call.obstacle[n] \in {NoData, 0}
      PROVE  result[n] \in Nat \ {0} <=> PlainCandidate(n)
  <2>1. call.obstacle[n] # 1
    BY <1>1, <1>3
  <2> QED  BY <1>1, <2>1, ObstacleClustersAssumption
<1>4. ClusterCellsAround(c)
        = {n \in Cell : (Straight(c, n) \/ Diagonal(c, n)) /\ PlainCandidate(n)}
  BY <1>2, <1>3 DEF ClusterCellsAround
<1>5. clusterId \in 0 .. Rows * Cols - 1
  <2> DEFINE given == {n \in Cell : PlainCandidate(n)}
             ids == 1 .. clusterId
             f == [n \in given |-> result[n]]
  <2>1. given \in SUBSET (Cell \ {c}) /\ IsFiniteSet(given)
    <3>1. given \in SUBSET (Cell \ {c})
      BY <1>2
    <3> QED  BY <3>1, CellsFinite, FS_Subset
  <2>2. IsFiniteSet(ids) /\ Cardinality(ids) = clusterId
    BY <1>1, FS_Interval
  <2>3. f \in Surjection(given, ids)
    BY <1>1 DEF Surjection
  <2>4. Cardinality(ids) <= Cardinality(given)
    <3> HIDE DEF f, given, ids
    <3> QED  BY <2>1, <2>3, FS_Surjection
  <2>5. Cardinality(given) <= Rows * Cols - 1 /\ Cardinality(given) \in Nat
    <3> HIDE DEF given
    <3>1. Cardinality(Cell \ {c}) = Rows * Cols - 1 /\ IsFiniteSet(Cell \ {c})
      BY CellsFinite, FS_RemoveElement
    <3> QED  BY <2>1, <3>1, FS_Subset, FS_CardinalityType
  <2> HIDE DEF given, ids
  <2> QED  BY <1>1, <2>2, <2>4, <2>5, GridAssumption
<1>6. \A n \in ClusterCellsAround(c) :
        result[n] \in 1 .. clusterId /\ clusterSize[result[n]] \in Nat
  <2> SUFFICES ASSUME NEW n \in ClusterCellsAround(c)
               PROVE  result[n] \in 1 .. clusterId /\ clusterSize[result[n]] \in Nat
    OBVIOUS
  <2>1. result[n] \in 1 .. clusterId
    BY <1>1, <1>4
  <2>2. result[n] \in 0 .. Rows * Cols - 1
    BY <1>5, <2>1, GridAssumption
  <2> QED  BY <1>1, <2>1, <2>2
<1> QED  BY <1>4, <1>5, <1>6

-----------------------------------------------------------------------------
(* The invariant is kept                                                   *)

(* The loops start at a cell that no other is before.                      *)
LEMMA NoneBeforeFirst ==
  FirstCell \in Cell /\ FirstCell \in (0 .. Rows) \X (0 .. Cols - 1)
    /\ \A c \in Cell : ~Before(c, FirstCell)
BY GridAssumption DEF FirstCell, Before, Cell

(* When a function is called.                                              *)
LEMMA ObstacleInitInv == ObstacleInit => ObstacleInv
<1> SUFFICES ASSUME ObstacleInit PROVE ObstacleInv
  OBVIOUS
<1>1. /\ call \in CallType /\ stage = IF call.op = "fuzzy" THEN "fuzzy" ELSE "plain"
      /\ cursor = FirstCell /\ growing = FALSE /\ neighbours = <<>> /\ border = <<>>
      /\ thrown = FALSE /\ cell = FirstCell /\ clusterId = 0
  BY ObstacleClustersAssumption DEF ObstacleInit, Fifo!Init
<1>2. \A c \in Cell : /\ mark[c] = IF call.op = "fuzzy" /\ ~IsPositive(call.items, c)
                                     THEN Done ELSE Todo
                     /\ result[c] = IF call.op # "fuzzy" THEN Unset
                                    ELSE IF call.items[c] = NoData THEN NoData ELSE 0
  BY DEF ObstacleInit
<1>3. /\ mark \in [Cell -> {Todo, InBorder, Done}]
      /\ result \in [Cell -> Nat \cup {Unset, NoData}]
      /\ clusterSize \in [0 .. Rows * Cols - 1 -> Nat]
  <2>1. DOMAIN mark = Cell /\ mark = [c \in Cell |-> mark[c]]
    BY DEF ObstacleInit
  <2>2. DOMAIN result = Cell /\ result = [c \in Cell |-> result[c]]
    BY DEF ObstacleInit
  <2>3. clusterSize \in [0 .. Rows * Cols - 1 -> Nat]
    BY DEF ObstacleInit
  <2> QED  BY <1>2, <2>1, <2>2, <2>3
<1>4. ObstacleTypes
  <2>1. /\ stage \in {"plain", "assign", "fuzzy", "returned"} /\ growing \in BOOLEAN
        /\ call.op = "fuzzy" => stage \in {"fuzzy", "returned"}
        /\ call.op = "obstacles" => stage # "fuzzy"
        /\ ~growing
    BY <1>1
  <2>2. neighbours \in Seq(Cell) /\ border \in Seq(Cell) /\ clusterId \in Nat
    BY <1>1
  <2>3. cell \in Cell /\ cursor \in (0 .. Rows) \X (0 .. Cols - 1)
    BY <1>1, NoneBeforeFirst
  <2> QED  BY <1>1, <1>3, <2>1, <2>2, <2>3 DEF ObstacleTypes
<1>5. \A c \in Cell : mark[c] # InBorder
  BY <1>2 DEF Todo, InBorder, Done
<1>6. \A c \in Cell : Candidate(c) => mark[c] = Todo /\ mark[c] # Done
  BY <1>1, <1>2 DEF Candidate, Todo, Done
<1>7. BorderInv
  BY <1>1, <1>5 DEF BorderInv, Range
<1>8. MarkInv
  <2>1. \A c \in Cell : ~Candidate(c) =>
          /\ stage = "plain" => mark[c] = Todo /\ result[c] = Unset
          /\ call.op = "fuzzy" => mark[c] = Done
    BY <1>1, <1>2 DEF Candidate
  <2> QED  BY <1>1, <1>5, <1>6, <2>1, NoneBeforeFirst DEF MarkInv
<1>9. GoneOnInv
  BY <1>6 DEF GoneOnInv
<1>10. RootInv
  BY <1>1 DEF RootInv
<1>11. AssignInv /\ SettledInv
  BY <1>1 DEF AssignInv, SettledInv
<1> QED  BY <1>4, <1>7, <1>8, <1>9, <1>10, <1>11 DEF ObstacleInv

(* The first cell of a cluster is reached from itself.                     *)
LEMMA BeginClusterInv ==
  ASSUME ObstacleInv, BeginCluster
  PROVE  ObstacleInv'
<1> USE DEF ObstacleInv
<1>1. /\ UNCHANGED <<call, stage, cursor, cell, neighbours, thrown, clusterSize,
                     backgroundId, result>>
      /\ stage \in {"plain", "fuzzy"} /\ growing = FALSE /\ ~PastEnd(cursor)
      /\ growing' = TRUE /\ clusterId' = clusterId + 1 /\ border' = <<cursor>>
      /\ mark' = [mark EXCEPT ![cursor] = InBorder]
      /\ border = <<>> /\ neighbours = <<>>
      /\ Starts(cursor)
  BY DEF BeginCluster, ObstacleTypes, BorderInv
<1>2. cursor \in Cell
  BY <1>1, NextCellInGrid DEF ObstacleTypes
<1>3. mark[cursor] = Todo /\ Candidate(cursor)
  BY <1>1 DEF Starts, Candidate
<1>4. \A c \in Cell : mark'[c] = IF c = cursor THEN InBorder ELSE mark[c]
  BY <1>1, <1>2 DEF ObstacleTypes
<1>5. \A c \in Cell : mark[c] # InBorder
  BY <1>1 DEF BorderInv, Range
<1>6. /\ \A c : Candidate(c)' <=> Candidate(c)
      /\ Leads' = Leads
      /\ Searching /\ Searching'
  BY <1>1, LeadsSteady DEF Searching
<1>7. ObstacleTypes'
  <2>1. mark' \in [Cell -> {Todo, InBorder, Done}] /\ border' \in Seq(Cell) /\ clusterId' \in Nat
    BY <1>1, <1>2 DEF ObstacleTypes
  <2> QED  BY <1>1, <1>2, <1>6, <2>1 DEF ObstacleTypes
<1>8. BorderInv'
  <2>1. /\ Range(border') = {cursor}
        /\ \A i, j \in 1 .. Len(border') : border'[i] = border'[j] => i = j
    BY <1>1 DEF Range
  <2>2. \A c \in Cell : mark'[c] = InBorder <=> c \in Range(border')
    BY <1>4, <1>5, <2>1
  <2>3. neighbours' = <<>> /\ Range(neighbours') = {}
    BY <1>1 DEF Range
  <2> QED  BY <1>1, <2>1, <2>2, <2>3 DEF BorderInv
<1>9. MarkInv'
  <2>1. \A c \in Cell : mark'[c] = InBorder => Candidate(c)
    BY <1>3, <1>4, <1>5
  <2>2. \A c \in Cell : Candidate(c) /\ Before(c, cursor) => mark'[c] # Todo
    BY <1>4, <1>6 DEF MarkInv, InBorder, Todo
  <2>3. mark'[cursor] # Todo /\ clusterId' > 0
    BY <1>1, <1>2, <1>4 DEF InBorder, Todo, ObstacleTypes
  <2>4. \A c \in Cell : Candidate(c) /\ mark'[c] = Done => result[c] \in 1 .. clusterId'
    <3>1. \A c \in Cell : mark'[c] = Done => mark[c] = Done
      BY <1>4 DEF InBorder, Done
    <3>2. \A c \in Cell : Candidate(c) /\ mark[c] = Done => result[c] \in 1 .. clusterId
      BY <1>6 DEF MarkInv
    <3>3. 1 .. clusterId \subseteq 1 .. clusterId'
      BY <1>1 DEF ObstacleTypes
    <3> QED  BY <3>1, <3>2, <3>3
  <2>5. \A c \in Cell : ~Candidate(c) =>
          /\ stage = "plain" => mark'[c] = Todo /\ result[c] = Unset
          /\ call.op = "fuzzy" => mark'[c] = Done
    BY <1>3, <1>4, <1>6 DEF MarkInv
  <2> QED  BY <1>1, <1>3, <1>6, <2>1, <2>2, <2>3, <2>4, <2>5 DEF MarkInv
<1>10. GoneOnInv'
  <2> SUFFICES ASSUME NEW a \in Cell, NEW b \in Cell, Candidate(a), Candidate(b),
                      mark'[a] = Done, <<a, b>> \in Leads
               PROVE  mark'[b] = Done /\ result[b] <= result[a]
    BY <1>1, <1>6 DEF GoneOnInv
  <2>1. mark[a] = Done /\ a # cursor
    BY <1>4 DEF InBorder, Done
  <2>2. Range(neighbours) = {}
    BY <1>1 DEF Range
  <2>3. mark[b] = Done /\ result[b] <= result[a]
    BY <1>5, <1>6, <2>1, <2>2 DEF GoneOnInv
  <2> QED  BY <1>3, <1>4, <2>3 DEF Todo, Done
<1>11. RootInv'
  <2>1. clusterId \in Nat /\ clusterId' \in Nat /\ clusterId' \notin 1 .. clusterId
    BY <1>1 DEF ObstacleTypes
  <2>2. \A c \in Cell : Candidate(c) /\ mark[c] = Done => result[c] # clusterId'
    BY <1>6, <2>1 DEF MarkInv
  <2>3. \A c \in Cell : mark'[c] = Done <=> mark[c] = Done
    BY <1>3, <1>4 DEF Todo, InBorder, Done
  <2>4. \A c \in Cell : mark'[c] = InBorder <=> c = cursor
    BY <1>4, <1>5
  <2>5. Group(clusterId)' = {cursor}
    BY <1>1, <1>2, <1>3, <1>6, <2>2, <2>3, <2>4 DEF Group
  <2>6. \A id \in 1 .. clusterId : Group(id)' = Group(id)
    BY <1>1, <1>5, <1>6, <2>1, <2>3, <2>4 DEF Group
  <2>7. Rooted({cursor}, cursor, Leads)
    BY DEF Rooted
  <2>8. Rooted(Group(clusterId), cursor, Leads)'
    BY <1>1, <1>6, <2>5, <2>7 DEF Rooted
  <2>9. ASSUME NEW id \in 1 .. clusterId', Group(id)' # {}
        PROVE  \E f \in Cell : Rooted(Group(id), f, Leads)'
    <3>1. CASE id = clusterId'
      BY <1>1, <1>2, <2>8, <3>1
    <3>2. CASE id # clusterId'
      <4>1. id \in 1 .. clusterId
        BY <1>1, <2>1, <3>2
      <4>2. PICK f \in Cell : Rooted(Group(id), f, Leads)
        BY <1>6, <2>6, <2>9, <4>1 DEF RootInv
      <4> QED  BY <1>6, <2>6, <4>1, <4>2 DEF Rooted
    <3> QED  BY <3>1, <3>2
  <2>10. stage = "plain" => \A id \in 1 .. clusterId' : Group(id)' # {}
    <3> SUFFICES ASSUME stage = "plain", NEW id \in 1 .. clusterId' PROVE Group(id)' # {}
      OBVIOUS
    <3>1. CASE id = clusterId'
      BY <2>5, <3>1
    <3>2. CASE id # clusterId'
      <4>1. id \in 1 .. clusterId
        BY <1>1, <2>1, <3>2
      <4> QED  BY <1>6, <2>6, <4>1 DEF RootInv
    <3> QED  BY <3>1, <3>2
  <2> QED  BY <1>1, <2>8, <2>9, <2>10 DEF RootInv
<1>12. AssignInv' /\ SettledInv'
  BY <1>1 DEF AssignInv, SettledInv
<1> QED  BY <1>7, <1>8, <1>9, <1>10, <1>11, <1>12

(* Passing over a cell takes no candidate from the searches.               *)
LEMMA PassOverCellInv ==
  ASSUME ObstacleInv, PassOver
  PROVE  ObstacleInv'
<1> USE DEF ObstacleInv
<1>1. /\ UNCHANGED <<call, stage, growing, cell, neighbours, border, thrown,
                     clusterSize, backgroundId>>
      /\ stage \in {"plain", "fuzzy"} /\ growing = FALSE /\ ~PastEnd(cursor)
      /\ border = <<>> /\ neighbours = <<>>
      /\ ~Starts(cursor) /\ cursor' = NextCell(cursor)
  BY DEF PassOver, ObstacleTypes, BorderInv
<1>2. cursor \in Cell /\ cursor' \in (0 .. Rows) \X (0 .. Cols - 1)
      /\ \A c \in Cell : Before(c, cursor') <=> Before(c, cursor) \/ c = cursor
  BY <1>1, NextCellInGrid DEF ObstacleTypes
<1>3. Candidate(cursor) => mark[cursor] # Todo
  BY <1>1 DEF Starts, Candidate
<1>4. \A c \in Cell : mark[c] # InBorder
  BY <1>1 DEF BorderInv, Range
<1>5. /\ \A c : Candidate(c)' <=> Candidate(c)
      /\ Leads' = Leads
      /\ Searching /\ Searching'
  BY <1>1, LeadsSteady DEF Searching
(* Only what is no candidate, and not in the first stage, is written.      *)
<1>6. /\ mark' \in [Cell -> {Todo, InBorder, Done}]
      /\ result' \in [Cell -> Nat \cup {Unset, NoData}]
      /\ clusterId' \in {clusterId, clusterId + 1} /\ clusterId \in Nat
      /\ \A c \in Cell : mark'[c] \in {mark[c], Done}
      /\ \A c \in Cell : Candidate(c) => mark'[c] = mark[c] /\ result'[c] = result[c]
      /\ stage = "plain" => UNCHANGED <<mark, result, clusterId>>
  <2>1. CASE ClusterUnderObstacle(cursor)
    <3>1. stage = "fuzzy" /\ ~Candidate(cursor)
      BY <2>1 DEF ClusterUnderObstacle, Candidate
    <3>2. /\ clusterId' = clusterId + 1 /\ mark' = [mark EXCEPT ![cursor] = Done]
          /\ result' = [result EXCEPT ![cursor] = clusterId']
      BY <2>1 DEF PassOver
    <3>3. clusterId \in Nat /\ clusterId' \in Nat
      BY <3>2 DEF ObstacleTypes
    <3> QED  BY <1>2, <3>1, <3>2, <3>3 DEF ObstacleTypes
  <2>2. CASE ~ClusterUnderObstacle(cursor) /\ stage = "fuzzy" /\ call.items[cursor] = NoData
    <3>1. ~Candidate(cursor)
      BY <2>2, ObstacleClustersAssumption DEF Candidate, IsPositive
    <3>2. /\ clusterId' = clusterId /\ mark' = [mark EXCEPT ![cursor] = Done]
          /\ result' = [result EXCEPT ![cursor] = NoData]
      BY <2>2 DEF PassOver
    <3> QED  BY <1>2, <2>2, <3>1, <3>2 DEF ObstacleTypes
  <2>3. CASE ~ClusterUnderObstacle(cursor) /\ ~(stage = "fuzzy" /\ call.items[cursor] = NoData)
    <3>1. UNCHANGED <<mark, result, clusterId>>
      BY <2>3 DEF PassOver
    <3> QED  BY <3>1 DEF ObstacleTypes
  <2> QED  BY <2>1, <2>2, <2>3
<1>7. ObstacleTypes'
  <2>1. clusterId' \in Nat
    BY <1>6
  <2> QED  BY <1>1, <1>2, <1>6, <2>1 DEF ObstacleTypes
<1>8. BorderInv'
  <2>1. \A c \in Cell : mark'[c] # InBorder
    BY <1>4, <1>6 DEF InBorder, Done
  <2>2. Range(border') = {} /\ Range(neighbours') = {}
    BY <1>1 DEF Range
  <2> QED  BY <1>1, <2>1, <2>2 DEF BorderInv
<1>9. MarkInv'
  <2>1. \A c \in Cell : mark'[c] # InBorder
    BY <1>4, <1>6 DEF InBorder, Done
  <2>2. \A c \in Cell : Candidate(c) /\ Before(c, cursor') => mark'[c] # Todo
    BY <1>2, <1>3, <1>5, <1>6 DEF MarkInv
  <2>3. \A c \in Cell : Candidate(c) /\ mark'[c] = Done => result'[c] \in 1 .. clusterId'
    <3>1. \A c \in Cell : Candidate(c) /\ mark[c] = Done => result[c] \in 1 .. clusterId
      BY <1>5 DEF MarkInv
    <3>2. 1 .. clusterId \subseteq 1 .. clusterId'
      BY <1>6
    <3> QED  BY <1>6, <3>1, <3>2
  <2>4. \A c \in Cell : ~Candidate(c) =>
          /\ stage = "plain" => mark'[c] = Todo /\ result'[c] = Unset
          /\ call.op = "fuzzy" => mark'[c] = Done
    BY <1>5, <1>6 DEF MarkInv
  <2> QED  BY <1>1, <1>5, <2>1, <2>2, <2>3, <2>4 DEF MarkInv
<1>10. GoneOnInv'
  <2> SUFFICES ASSUME NEW a \in Cell, NEW b \in Cell, Candidate(a), Candidate(b),
                      mark'[a] = Done, <<a, b>> \in Leads
               PROVE  mark'[b] = Done /\ result'[b] <= result'[a]
    BY <1>5 DEF GoneOnInv
  <2>1. mark[a] = Done /\ Range(neighbours) = {}
    BY <1>1, <1>6 DEF Range
  <2>2. mark[b] = Done /\ result[b] <= result[a]
    BY <1>4, <1>5, <2>1 DEF GoneOnInv
  <2> QED  BY <1>6, <2>2
<1>11. RootInv'
  <2>1. \A c \in Cell : mark'[c] # InBorder
    BY <1>4, <1>6 DEF InBorder, Done
  <2>2. \A id : Group(id)' = Group(id)
    BY <1>4, <1>5, <1>6, <2>1 DEF Group
  <2>3. ASSUME NEW id \in 1 .. clusterId', Group(id)' # {}
        PROVE  id \in 1 .. clusterId
    <3>1. PICK c \in Group(id) : TRUE
      BY <2>2, <2>3
    <3> QED  BY <1>4, <1>5, <3>1 DEF Group, MarkInv
  <2>4. ASSUME NEW id \in 1 .. clusterId', Group(id)' # {}
        PROVE  \E f \in Cell : Rooted(Group(id), f, Leads)'
    <3>1. PICK f \in Cell : Rooted(Group(id), f, Leads)
      BY <1>5, <2>2, <2>3, <2>4 DEF RootInv
    <3> QED  BY <1>5, <2>2, <3>1 DEF Rooted
  <2>5. stage = "plain" => \A id \in 1 .. clusterId' : Group(id)' # {}
    BY <1>5, <1>6, <2>2 DEF RootInv
  <2> QED  BY <1>1, <2>4, <2>5 DEF RootInv
<1>12. AssignInv' /\ SettledInv'
  BY <1>1 DEF AssignInv, SettledInv
<1> QED  BY <1>7, <1>8, <1>9, <1>10, <1>11, <1>12

(* A cluster whose search is over keeps its first cell.                    *)
LEMMA EndClusterInv ==
  ASSUME ObstacleInv, EndCluster
  PROVE  ObstacleInv'
<1> USE DEF ObstacleInv
<1>1. /\ UNCHANGED <<call, stage, cell, neighbours, mark, border, thrown, clusterId,
                     clusterSize, backgroundId, result>>
      /\ growing = TRUE /\ growing' = FALSE /\ border = <<>> /\ neighbours = <<>>
      /\ cursor' = NextCell(cursor) /\ Searching /\ cursor \in Cell
      /\ cursor \in (0 .. Rows) \X (0 .. Cols - 1)
  BY DEF EndCluster, ObstacleTypes
<1>2. cursor' \in (0 .. Rows) \X (0 .. Cols - 1)
      /\ \A c \in Cell : Before(c, cursor') <=> Before(c, cursor) \/ c = cursor
  <2>1. ~PastEnd(cursor)
    BY <1>1, GridAssumption DEF PastEnd, Cell
  <2> QED  BY <1>1, <2>1, NextCellInGrid
<1>3. /\ \A c : Candidate(c)' <=> Candidate(c)
      /\ Leads' = Leads
      /\ Searching'
      /\ \A id : Group(id)' = Group(id)
      /\ \A c \in Cell : VisitedFrom(c)' = VisitedFrom(c)
  <2>1. /\ \A c : Candidate(c)' <=> Candidate(c)
        /\ Leads' = Leads
        /\ Searching'
        /\ \A c \in Cell : VisitedFrom(c)' = VisitedFrom(c)
    BY <1>1, LeadsSteady
  <2> QED  BY <1>1, <2>1 DEF Group
<1>4. ObstacleTypes'
  BY <1>1, <1>2 DEF ObstacleTypes
<1>5. BorderInv'
  <2>1. Range(neighbours') = {}
    BY <1>1 DEF Range
  <2> QED  BY <1>1, <2>1 DEF BorderInv
<1>6. MarkInv'
  BY <1>1, <1>2, <1>3 DEF MarkInv
<1>7. GoneOnInv'
  BY <1>1, <1>3 DEF GoneOnInv
<1>8. RootInv'
  <2>1. ASSUME NEW id \in 1 .. clusterId', Group(id)' # {}
        PROVE  \E f \in Cell : Rooted(Group(id), f, Leads)'
    <3>1. PICK f \in Cell : Rooted(Group(id), f, Leads)
      BY <1>1, <1>3, <2>1 DEF RootInv
    <3> QED  BY <1>3, <3>1 DEF Rooted
  <2>2. stage = "plain" => \A id \in 1 .. clusterId' : Group(id)' # {}
    BY <1>1, <1>3 DEF RootInv
  <2> QED  BY <1>1, <2>1, <2>2 DEF RootInv
<1>9. AssignInv' /\ SettledInv'
  BY <1>1 DEF AssignInv, SettledInv, Searching
<1> QED  BY <1>4, <1>5, <1>6, <1>7, <1>8, <1>9

(* A cell that a step inside leads to, and that is not before the first,   *)
(* can be added.                                                           *)
LEMMA RootedAdd ==
  ASSUME NEW K, NEW f, NEW R, NEW a \in K, NEW b, Rooted(K, f, R), Before(f, b), <<a, b>> \in R
  PROVE  Rooted(K \cup {b}, f, R)
<1>1. /\ f \in K /\ \A m \in K \ {f} : Before(f, m)
      /\ \A part \in SUBSET K : f \in part /\ part # K =>
           \E x \in part, y \in K \ part : <<x, y>> \in R
  BY DEF Rooted
<1>2. ASSUME NEW part \in SUBSET (K \cup {b}), f \in part, part # K \cup {b}
      PROVE  \E x \in part, y \in (K \cup {b}) \ part : <<x, y>> \in R
  <2>1. CASE K \subseteq part
    <3>1. a \in part /\ b \in (K \cup {b}) \ part
      BY <1>2, <2>1
    <3> QED  BY <3>1
  <2>2. CASE ~(K \subseteq part)
    <3> DEFINE inside == part \cap K
    <3>1. inside \in SUBSET K /\ f \in inside /\ inside # K
      BY <1>1, <1>2, <2>2
    <3> HIDE DEF inside
    <3>2. PICK x \in inside, y \in K \ inside : <<x, y>> \in R
      BY <1>1, <3>1
    <3>3. x \in part /\ y \in (K \cup {b}) \ part
      BY <3>2 DEF inside
    <3> QED  BY <3>2, <3>3
  <2> QED  BY <2>1, <2>2
<1>3. \A m \in (K \cup {b}) \ {f} : Before(f, m)
  BY <1>1
<1>4. f \in K \cup {b}
  BY <1>1
<1> QED  BY <1>2, <1>3, <1>4 DEF Rooted

(* A cell that leaves the border gets the id it was on the border for, and *)
(* all that it leads to is still to be visited.                            *)
LEMMA TakeCellInv ==
  ASSUME ObstacleInv, TakeCell
  PROVE  ObstacleInv'
<1> USE DEF ObstacleInv
<1>1. /\ UNCHANGED <<call, stage, cursor, growing, clusterId, clusterSize, backgroundId, thrown>>
      /\ growing = TRUE /\ neighbours = <<>> /\ border # <<>>
      /\ cell' = Head(border) /\ border' = Tail(border)
      /\ neighbours' = VisitedFrom(cell')
      /\ mark' = [mark EXCEPT ![cell'] = Done]
      /\ result' = [result EXCEPT ![cell'] = clusterId]
      /\ Searching /\ cursor \in Cell /\ border \in Seq(Cell)
  BY DEF TakeCell, ObstacleTypes, Fifo!PopHead
<1>2. /\ cell' \in Cell /\ border' \in Seq(Cell)
      /\ Range(border) = {cell'} \cup Range(border')
      /\ \A i, j \in 1 .. Len(border') : border'[i] = border'[j] => i = j
      /\ cell' \notin Range(border')
  BY <1>1, RangeHeadTail, DistinctTail DEF BorderInv
<1> PICK c0 : c0 = cell'
  OBVIOUS
<1>3. mark[c0] = InBorder /\ Candidate(c0)
  BY <1>1, <1>2 DEF BorderInv, MarkInv
<1>4. \A c \in Cell : /\ mark'[c] = IF c = c0 THEN Done ELSE mark[c]
                     /\ result'[c] = IF c = c0 THEN clusterId ELSE result[c]
  BY <1>1, <1>2 DEF ObstacleTypes
<1>5. /\ \A c : Candidate(c)' <=> Candidate(c)
      /\ Leads' = Leads
      /\ Searching'
      /\ \A c \in Cell : VisitedFrom(c)' = VisitedFrom(c)
  BY <1>1, LeadsSteady
<1>6. neighbours' = VisitedFrom(c0) /\ neighbours' \in Seq(Cell)
  <2>1. VisitedFrom(c0) \in Seq(Cell)
    BY <1>2, VisitedFromIs
  <2>2. neighbours' = VisitedFrom(c0)
    <3>1. neighbours' = VisitedFrom(cell')
      BY DEF TakeCell
    <3> QED  BY <3>1, Zenon
  <2> QED  BY <2>1, <2>2
<1>7. ObstacleTypes'
  <2>1. /\ mark' \in [Cell -> {Todo, InBorder, Done}]
        /\ result' \in [Cell -> Nat \cup {Unset, NoData}]
    BY <1>1, <1>2 DEF ObstacleTypes
  <2> QED  BY <1>1, <1>2, <1>5, <1>6, <2>1 DEF ObstacleTypes
<1>8. BorderInv'
  <2>1. \A c \in Cell : mark'[c] = InBorder <=> c \in Range(border')
    <3>1. \A c \in Cell : mark[c] = InBorder <=> c \in Range(border)
      BY DEF BorderInv
    <3>2. InBorder # Done
      BY DEF InBorder, Done
    <3>3. Range(border) = {c0} \cup Range(border') /\ c0 \notin Range(border')
      BY <1>2
    <3> SUFFICES ASSUME NEW c \in Cell PROVE mark'[c] = InBorder <=> c \in Range(border')
      OBVIOUS
    <3>4. CASE c = c0
      BY <1>4, <3>2, <3>3, <3>4
    <3>5. CASE c # c0
      BY <1>4, <3>1, <3>3, <3>5
    <3> QED  BY <3>4, <3>5
  <2>2. Candidate(cell)' /\ mark'[cell'] = Done /\ result'[cell'] = clusterId'
    <3>1. Candidate(cell)' <=> Candidate(c0)
      BY <1>1 DEF Candidate, IsPositive, catMap, Obstacle
    <3> QED  BY <1>1, <1>2, <1>3, <1>4, <3>1
  <2>3. VisitedFrom(cell)' = VisitedFrom(c0)
    <3>1. VisitedFrom(cell)' = VisitedFrom(c0)'
      BY DEF VisitedFrom, StraightNeighbours, DiagNeighbours, IfInside, Near
    <3> QED  BY <1>2, <1>5, <3>1
  <2>4. \A n \in Range(neighbours)' : n \in Range(VisitedFrom(cell))'
    BY <1>6, <2>3
  <2>5. thrown' = FALSE /\ growing'
    BY <1>1 DEF BorderInv
  <2> QED  BY <1>2, <2>1, <2>2, <2>4, <2>5 DEF BorderInv
<1>9. MarkInv'
  <2>1. \A c \in Cell : mark'[c] = InBorder => Candidate(c)
    BY <1>1, <1>4 DEF MarkInv, InBorder, Done
  <2>2. \A c \in Cell : mark[c] # Todo => mark'[c] # Todo
    BY <1>4 DEF Todo, Done
  <2>3. \A c \in Cell : Candidate(c) /\ mark'[c] = Done => result'[c] \in 1 .. clusterId
    <3>1. \A c \in Cell : Candidate(c) /\ mark[c] = Done => result[c] \in 1 .. clusterId
      BY <1>1 DEF MarkInv
    <3>2. clusterId \in 1 .. clusterId
      BY <1>1 DEF MarkInv, ObstacleTypes
    <3> QED  BY <1>4, <3>1, <3>2
  <2>4. \A c \in Cell : ~Candidate(c) =>
          /\ stage = "plain" => mark'[c] = Todo /\ result'[c] = Unset
          /\ call.op = "fuzzy" => mark'[c] = Done
    BY <1>1, <1>3, <1>4 DEF MarkInv
  <2> QED  BY <1>1, <1>5, <2>1, <2>2, <2>3, <2>4 DEF MarkInv
<1>10. GoneOnInv'
  <2> SUFFICES ASSUME NEW a \in Cell, NEW b \in Cell, Candidate(a), Candidate(b),
                      mark'[a] = Done, <<a, b>> \in Leads
               PROVE  \/ mark'[b] = Done /\ result'[b] <= result'[a]
                      \/ mark'[b] = InBorder /\ result'[a] = clusterId
                      \/ a = c0 /\ b \in Range(neighbours')
    BY <1>1, <1>5 DEF GoneOnInv
  <2>1. CASE a = c0
    BY <1>6, <2>1 DEF Leads
  <2>2. CASE a # c0
    <3>1. mark[a] = Done /\ result'[a] = result[a] /\ Range(neighbours) = {}
      BY <1>1, <1>4, <2>2 DEF Range
    <3>2. \/ mark[b] = Done /\ result[b] <= result[a]
          \/ mark[b] = InBorder /\ result[a] = clusterId
      BY <1>1, <3>1 DEF GoneOnInv
    <3>3. clusterId <= clusterId
      BY DEF ObstacleTypes
    <3> QED  BY <1>3, <1>4, <3>1, <3>2, <3>3 DEF InBorder, Done
  <2> QED  BY <2>1, <2>2
<1>11. RootInv'
  <2>1. ASSUME NEW id \in 1 .. clusterId PROVE Group(id)' = Group(id)
    <3> DEFINE Now(c) == \/ mark[c] = Done /\ result[c] = id
                         \/ mark[c] = InBorder /\ id = clusterId
               Then(c) == \/ mark'[c] = Done /\ result'[c] = id
                          \/ mark'[c] = InBorder /\ id = clusterId
    <3>1. \A c \in Cell : Candidate(c) => (Then(c) <=> Now(c))
      BY <1>3, <1>4 DEF InBorder, Done
    <3>2. ASSUME NEW c \in Cell PROVE c \in Group(id)' <=> c \in Group(id)
      <4>1. c \in Group(id)' <=> Candidate(c) /\ Then(c)
        BY <1>1, <1>5 DEF Group
      <4>2. c \in Group(id) <=> Candidate(c) /\ Now(c)
        BY DEF Group
      <4> HIDE DEF Now, Then
      <4> QED  BY <3>1, <4>1, <4>2
    <3>3. Group(id)' \subseteq Cell /\ Group(id) \subseteq Cell
      BY DEF Group
    <3> QED  BY <3>2, <3>3
  <2>2. clusterId \in 1 .. clusterId
    BY <1>1 DEF MarkInv, ObstacleTypes
  <2>3. Rooted(Group(clusterId), cursor, Leads)'
    <3>1. Rooted(Group(clusterId), cursor, Leads)
      BY <1>1 DEF RootInv
    <3>2. Group(clusterId)' = Group(clusterId)
      BY <1>1, <2>1, <2>2 DEF Group
    <3> QED  BY <1>1, <1>5, <3>1, <3>2 DEF Rooted
  <2>4. ASSUME NEW id \in 1 .. clusterId', Group(id)' # {}
        PROVE  \E f \in Cell : Rooted(Group(id), f, Leads)'
    <3>1. PICK f \in Cell : Rooted(Group(id), f, Leads)
      BY <1>1, <2>1, <2>4 DEF RootInv
    <3> QED  BY <1>1, <1>5, <2>1, <3>1 DEF Rooted
  <2>5. stage = "plain" => \A id \in 1 .. clusterId' : Group(id)' # {}
    BY <1>1, <2>1 DEF RootInv
  <2> QED  BY <1>1, <2>3, <2>4, <2>5 DEF RootInv
<1>12. AssignInv' /\ SettledInv'
  BY <1>1 DEF AssignInv, SettledInv, Searching
<1> QED  BY <1>7, <1>8, <1>9, <1>10, <1>11, <1>12

(* What a cell that the search goes on to does to it.                      *)
LEMMA JoinStep ==
  ASSUME ObstacleInv, TryNeighbour,
         mark[Head(neighbours)] = Todo, Joins(cell, Head(neighbours))
  PROVE  /\ border' = Append(border, Head(neighbours)) /\ thrown' = FALSE /\ cell' = cell
         /\ mark' = [mark EXCEPT ![Head(neighbours)] = InBorder]
         /\ Candidate(Head(neighbours)) /\ <<cell, Head(neighbours)>> \in Leads
         /\ Head(neighbours) \notin Range(border)
<1> USE DEF ObstacleInv
<1> DEFINE n == Head(neighbours)
<1>1. /\ growing = TRUE /\ neighbours # <<>> /\ Searching /\ cell \in Cell
      /\ neighbours \in Seq(Cell) /\ border \in Seq(Cell)
      /\ mark' = [mark EXCEPT ![n] = InBorder] /\ Fifo!PushBack(n)
  BY DEF TryNeighbour, ObstacleTypes
<1>2. n \in Cell /\ n \in Range(neighbours)
  BY <1>1, RangeHeadTail
<1>3. mark[n] = Todo /\ Joins(cell, n)
  OBVIOUS
<1> HIDE DEF n
<1>4. <<cell, n>> \in Leads
  BY <1>1, <1>2, <1>3 DEF Leads, BorderInv
<1>5. Candidate(n)
  <2>1. Candidate(cell)
    BY <1>1 DEF BorderInv
  <2>2. call.op = "fuzzy" => Candidate(n)
    BY <1>1, <1>2, <1>3 DEF MarkInv, Todo, Done
  <2> QED  BY <1>1, <1>2, <1>4, <2>1, <2>2, LeadsToCandidates
<1>6. n \notin Range(border)
  BY <1>2, <1>3 DEF BorderInv, Todo, InBorder
<1>7. Fifo!HasRoom
  <2>1. Len(border) < Cardinality(Cell)
    BY <1>1, <1>2, <1>6, CellsFinite, DistinctIsShort DEF BorderInv
  <2> QED  BY <2>1, CellsFinite DEF Fifo!HasRoom
<1>8. border' = Append(border, n) /\ thrown' = FALSE /\ cell' = cell
  BY <1>1, <1>7 DEF Fifo!PushBack, BorderInv
<1> QED  BY <1>1, <1>4, <1>5, <1>6, <1>8 DEF n

(* A neighbour that has been visited has an id or is on the border.        *)
LEMMA TryNeighbourInv ==
  ASSUME ObstacleInv, TryNeighbour
  PROVE  ObstacleInv'
<1> USE DEF ObstacleInv
<1> DEFINE n == Head(neighbours)
           joins == mark[n] = Todo /\ Joins(cell, n)
<1>1. /\ UNCHANGED <<call, stage, cursor, growing, clusterId, clusterSize, backgroundId, result>>
      /\ growing = TRUE /\ neighbours # <<>> /\ Searching /\ cursor \in Cell
      /\ neighbours' = Tail(neighbours) /\ cell \in Cell
      /\ neighbours \in Seq(Cell) /\ border \in Seq(Cell)
  BY DEF TryNeighbour, ObstacleTypes
<1>2. /\ n \in Cell /\ neighbours' \in Seq(Cell)
      /\ Range(neighbours) = {n} \cup Range(neighbours')
  BY <1>1, RangeHeadTail
<1>3. /\ Candidate(cell) /\ mark[cell] = Done /\ result[cell] = clusterId
      /\ n \in Range(VisitedFrom(cell))
  BY <1>1, <1>2 DEF BorderInv
(* Either n is put on the border or nothing but neighbours changes.        *)
<1>4. /\ cell' = cell /\ thrown' = FALSE /\ border' \in Seq(Cell)
      /\ mark' \in [Cell -> {Todo, InBorder, Done}]
      /\ Range(border') = IF joins THEN Range(border) \cup {n} ELSE Range(border)
      /\ \A i, j \in 1 .. Len(border') : border'[i] = border'[j] => i = j
      /\ \A c \in Cell : mark'[c] = IF joins /\ c = n THEN InBorder ELSE mark[c]
      /\ joins => Candidate(n) /\ <<cell, n>> \in Leads
  <2>1. CASE joins
    <3>1. /\ border' = Append(border, n) /\ thrown' = FALSE /\ cell' = cell
          /\ mark' = [mark EXCEPT ![n] = InBorder]
          /\ Candidate(n) /\ <<cell, n>> \in Leads /\ n \notin Range(border)
      BY <2>1, JoinStep
    <3> HIDE DEF n
    <3>2. Range(border') = Range(border) \cup {n} /\ border' \in Seq(Cell)
      BY <1>1, <1>2, <3>1, RangeAppend
    <3>3. \A i, j \in 1 .. Len(border') : border'[i] = border'[j] => i = j
      <4>1. /\ n \notin Range(border)
            /\ \A i, j \in 1 .. Len(border) : border[i] = border[j] => i = j
        BY <3>1 DEF BorderInv
      <4>2. \A i, j \in 1 .. Len(Append(border, n)) :
              Append(border, n)[i] = Append(border, n)[j] => i = j
        BY <1>1, <1>2, <4>1, DistinctAppend
      <4>3. border' = Append(border, n)
        BY <3>1
      <4> QED  BY <4>2, <4>3, Zenon
    <3>4. /\ mark' \in [Cell -> {Todo, InBorder, Done}]
          /\ \A c \in Cell : mark'[c] = IF c = n THEN InBorder ELSE mark[c]
      BY <1>2, <3>1 DEF ObstacleTypes
    <3> QED  BY <2>1, <3>1, <3>2, <3>3, <3>4
  <2>2. CASE ~joins
    <3>1. UNCHANGED <<mark, border, thrown, cell>>
      BY <2>2 DEF TryNeighbour
    <3> HIDE DEF n, joins
    <3> QED  BY <2>2, <3>1 DEF ObstacleTypes, BorderInv
  <2> QED  BY <2>1, <2>2
<1>5. joins => mark[n] = Todo
  OBVIOUS
<1>6. <<cell, n>> \in Leads => joins \/ mark[n] # Todo
  BY DEF Leads
<1> HIDE DEF n, joins
<1>7. /\ \A c : Candidate(c)' <=> Candidate(c)
      /\ Leads' = Leads
      /\ Searching'
      /\ \A c \in Cell : VisitedFrom(c)' = VisitedFrom(c)
  BY <1>1, LeadsSteady
<1>8. \A c \in Cell : mark'[c] = Done <=> mark[c] = Done
  BY <1>4, <1>5 DEF Todo, InBorder, Done
<1>9. ObstacleTypes'
  BY <1>1, <1>2, <1>4, <1>7 DEF ObstacleTypes
<1>10. BorderInv'
  <2>1. \A c \in Cell : mark'[c] = InBorder <=> c \in Range(border')
    <3>1. \A c \in Cell : mark[c] = InBorder <=> c \in Range(border)
      BY DEF BorderInv
    <3> QED  BY <1>4, <3>1
  <2>2. Candidate(cell)' /\ mark'[cell'] = Done /\ result'[cell'] = clusterId'
    <3>1. Candidate(cell)' <=> Candidate(cell)
      BY <1>1, <1>4 DEF Candidate, IsPositive, catMap, Obstacle
    <3> QED  BY <1>1, <1>3, <1>4, <1>8, <3>1
  <2>3. VisitedFrom(cell)' = VisitedFrom(cell)
    BY <1>1, <1>4 DEF VisitedFrom, StraightNeighbours, DiagNeighbours, IfInside, Near
  <2>4. \A b \in Range(neighbours)' : b \in Range(VisitedFrom(cell))'
    BY <1>2, <2>3 DEF BorderInv
  <2> QED  BY <1>1, <1>4, <2>1, <2>2, <2>4 DEF BorderInv
<1>11. MarkInv'
  <2>1. \A c \in Cell : mark'[c] = InBorder => Candidate(c)
    BY <1>1, <1>4 DEF MarkInv
  <2>2. \A c \in Cell : mark[c] # Todo => mark'[c] # Todo
    BY <1>4 DEF Todo, InBorder
  <2>3. \A c \in Cell : ~Candidate(c) => mark'[c] = mark[c]
    BY <1>4
  <2> QED  BY <1>1, <1>7, <1>8, <2>1, <2>2, <2>3 DEF MarkInv
<1>12. GoneOnInv'
  <2> SUFFICES ASSUME NEW a \in Cell, NEW b \in Cell, Candidate(a), Candidate(b),
                      mark'[a] = Done, <<a, b>> \in Leads
               PROVE  \/ mark'[b] = Done /\ result[b] <= result[a]
                      \/ mark'[b] = InBorder /\ result[a] = clusterId
                      \/ a = cell /\ b \in Range(neighbours')
    BY <1>1, <1>4, <1>7 DEF GoneOnInv
  <2>1. mark[a] = Done
    BY <1>8
  <2>2. \/ mark[b] = Done /\ result[b] <= result[a]
        \/ mark[b] = InBorder /\ result[a] = clusterId
        \/ a = cell /\ b \in Range(neighbours)
    BY <1>1, <2>1 DEF GoneOnInv
  <2>3. CASE mark[b] = Done /\ result[b] <= result[a]
    BY <1>8, <2>3
  <2>4. CASE mark[b] = InBorder /\ result[a] = clusterId
    BY <1>4, <2>4
  <2>5. CASE a = cell /\ b \in Range(neighbours')
    BY <2>5
  <2>6. CASE a = cell /\ b = n
    <3>1. joins \/ mark[b] # Todo
      BY <1>6, <2>6
    <3>2. CASE joins
      BY <1>2, <1>3, <1>4, <2>6, <3>2
    <3>3. CASE ~joins /\ mark[b] = InBorder
      BY <1>3, <1>4, <2>6, <3>3
    <3>4. CASE ~joins /\ mark[b] = Done
      <4>1. result[b] \in 1 .. clusterId /\ clusterId \in Nat
        BY <1>1, <3>4 DEF MarkInv, ObstacleTypes
      <4> QED  BY <1>3, <1>8, <2>6, <3>4, <4>1
    <3>5. mark[b] \in {Todo, InBorder, Done}
      BY DEF ObstacleTypes
    <3> QED  BY <3>1, <3>2, <3>3, <3>4, <3>5
  <2> QED  BY <1>2, <2>2, <2>3, <2>4, <2>5, <2>6
<1>13. RootInv'
  <2>1. clusterId \in 1 .. clusterId
    BY <1>1 DEF MarkInv, ObstacleTypes
  <2>2. ASSUME NEW id \in 1 .. clusterId
        PROVE  Group(id)' = IF joins /\ id = clusterId THEN Group(id) \cup {n} ELSE Group(id)
    <3> DEFINE Now(c) == \/ mark[c] = Done /\ result[c] = id
                         \/ mark[c] = InBorder /\ id = clusterId
               Then(c) == \/ mark'[c] = Done /\ result[c] = id
                          \/ mark'[c] = InBorder /\ id = clusterId
               added == IF joins /\ id = clusterId THEN Group(id) \cup {n} ELSE Group(id)
    <3>1. ASSUME NEW c \in Cell, Candidate(c)
          PROVE  Then(c) <=> (Now(c) \/ (joins /\ id = clusterId /\ c = n))
      <4>1. CASE joins /\ c = n
        BY <1>4, <1>5, <4>1 DEF Todo, InBorder, Done
      <4>2. CASE ~(joins /\ c = n)
        BY <1>4, <4>2
      <4> QED  BY <4>1, <4>2
    <3>2. ASSUME NEW c \in Cell PROVE c \in Group(id)' <=> c \in added
      <4>1. c \in Group(id)' <=> Candidate(c) /\ Then(c)
        BY <1>1, <1>7 DEF Group
      <4>2. c \in Group(id) <=> Candidate(c) /\ Now(c)
        BY DEF Group
      <4>3. c \in added <=> c \in Group(id) \/ (joins /\ id = clusterId /\ c = n)
        OBVIOUS
      <4> HIDE DEF Now, Then, added
      <4> QED  BY <1>4, <3>1, <4>1, <4>2, <4>3
    <3>3. Group(id)' \subseteq Cell /\ added \subseteq Cell
      BY <1>2 DEF Group
    <3>4. Group(id)' = added
      <4> HIDE DEF added
      <4> QED  BY <3>2, <3>3
    <3> QED  BY <3>4
  <2>3. Rooted(Group(clusterId), cursor, Leads)
    BY <1>1 DEF RootInv
  <2>4. Rooted(Group(clusterId)', cursor, Leads)
    <3>1. CASE joins
      <4>1. cell \in Group(clusterId)
        BY <1>1, <1>3 DEF Group
      <4>2. Before(cursor, n)
        <5>1. n # cursor /\ ~Before(n, cursor)
          BY <1>1, <1>2, <1>4, <1>5, <3>1 DEF MarkInv
        <5>2. n[1] \in Int /\ n[2] \in Int /\ cursor[1] \in Int /\ cursor[2] \in Int
              /\ n = <<n[1], n[2]>> /\ cursor = <<cursor[1], cursor[2]>>
          BY <1>1, <1>2, GridAssumption DEF Cell
        <5> QED  BY <5>1, <5>2 DEF Before
      <4>3. Rooted(Group(clusterId) \cup {n}, cursor, Leads)
        BY <1>4, <2>3, <3>1, <4>1, <4>2, RootedAdd
      <4>4. Group(clusterId)' = Group(clusterId) \cup {n}
        <5>1. clusterId' = clusterId
          BY <1>1
        <5>2. \A id \in 1 .. clusterId : id = clusterId => Group(id)' = Group(clusterId) \cup {n}
          BY <2>2, <3>1
        <5>3. Group(clusterId)'
                = {c \in Cell : Candidate(c)' /\ \/ mark'[c] = Done /\ result'[c] = clusterId'
                                                 \/ mark'[c] = InBorder}
          BY DEF Group
        <5>4. \A id : id = clusterId => Group(id)'
                = {c \in Cell : Candidate(c)' /\ \/ mark'[c] = Done /\ result'[c] = clusterId
                                                 \/ mark'[c] = InBorder}
          BY <5>1 DEF Group
        <5> QED  BY <2>1, <5>1, <5>2, <5>3, <5>4
      <4> QED  BY <4>3, <4>4
    <3>2. CASE ~joins
      <4>1. Group(clusterId)' = Group(clusterId)
        BY <1>1, <1>4, <1>7, <3>2 DEF Group
      <4> QED  BY <2>3, <4>1
    <3> QED  BY <3>1, <3>2
  <2>5. Rooted(Group(clusterId), cursor, Leads)'
    BY <1>1, <1>7, <2>4 DEF Rooted
  <2>6. ASSUME NEW id \in 1 .. clusterId', Group(id)' # {}
        PROVE  \E f \in Cell : Rooted(Group(id), f, Leads)'
    <3>1. CASE id = clusterId'
      BY <1>1, <2>5, <3>1
    <3>2. CASE id # clusterId'
      <4>1. id \in 1 .. clusterId /\ Group(id)' = Group(id)
        BY <1>1, <2>2, <3>2
      <4>2. PICK f \in Cell : Rooted(Group(id), f, Leads)
        BY <1>1, <2>6, <4>1 DEF RootInv
      <4> QED  BY <1>7, <4>1, <4>2 DEF Rooted
    <3> QED  BY <3>1, <3>2
  <2>7. stage = "plain" => \A id \in 1 .. clusterId' : Group(id)' # {}
    <3> SUFFICES ASSUME stage = "plain", NEW id \in 1 .. clusterId PROVE Group(id)' # {}
      BY <1>1
    <3>1. Group(id) # {}
      BY <1>1 DEF RootInv
    <3>2. Group(id) \subseteq Group(id)'
      BY <2>2
    <3> QED  BY <3>1, <3>2
  <2> QED  BY <1>1, <2>5, <2>6, <2>7 DEF RootInv
<1>14. AssignInv' /\ SettledInv'
  BY <1>1 DEF AssignInv, SettledInv, Searching
<1> QED  BY <1>9, <1>10, <1>11, <1>12, <1>13, <1>14

(* What belongs together depends on the call and the areas found before.   *)
LEMMA BelongSteady ==
  ASSUME call' = call, backgroundId' = backgroundId
  PROVE  /\ \A c : Open(c)' <=> Open(c)
         /\ \A c : PlainCandidate(c)' <=> PlainCandidate(c)
         /\ Belong' = Belong
<1>1. \A a, b \in Cell : Together(a, b)' <=> Together(a, b)
  <2>1. \A a, b : Near(a, b)' <=> Near(a, b)
    BY DEF Near
  <2>2. \A a, b : Blocked(a, b)' <=> Blocked(a, b)
    BY DEF Blocked, Obstacle
  <2>3. \A a, b : BlockedPath(a, b)' <=> BlockedPath(a, b)
    BY <2>2 DEF BlockedPath
  <2> QED  BY <2>1, <2>2, <2>3, Zenon DEF Together
<1>2. Belong' = Belong
  BY <1>1 DEF Belong
<1> QED  BY <1>2 DEF Open, PlainCandidate, IsPositive, catMap

(* What was found stays as it is while only cells that no search comes to  *)
(* are written.                                                            *)
LEMMA SettledSteady ==
  ASSUME call' = call, backgroundId' = backgroundId,
         \A c \in Cell : Open(c) => result'[c] = result[c]
  PROVE  /\ NoneLater => NoneLater'
         /\ AllRooted => AllRooted'
         /\ \A c, id : Held(c, id)' = Held(c, id)
<1>1. /\ \A c : Open(c)' <=> Open(c)
      /\ Belong' = Belong
  BY BelongSteady
<1>2. ASSUME NoneLater PROVE NoneLater'
  BY <1>1, <1>2 DEF NoneLater
<1>3. ASSUME AllRooted PROVE AllRooted'
  <2>1. ASSUME NEW c \in Cell, Open(c) PROVE \E f \in Cell : Rooted(MembersOf(c), f, Belong)'
    <3>1. MembersOf(c)' = MembersOf(c)
      BY <1>1, <2>1 DEF MembersOf
    <3>2. PICK f \in Cell : Rooted(MembersOf(c), f, Belong)
      BY <1>3, <2>1 DEF AllRooted
    <3> QED  BY <1>1, <3>1, <3>2 DEF Rooted
  <2> QED  BY <1>1, <2>1 DEF AllRooted
<1>4. \A c, id : Held(c, id)' = Held(c, id)
  BY <1>1 DEF Held
<1> QED  BY <1>2, <1>3, <1>4

(* When the loops are over, what belongs together has been joined, each    *)
(* cluster from its first cell.                                            *)
LEMMA SearchesSettle ==
  ASSUME ObstacleInv, stage = "fuzzy" \/ (stage = "plain" /\ call.op = "obstacles"),
         growing = FALSE, PastEnd(cursor)
  PROVE  NoneLater /\ AllRooted
<1> USE DEF ObstacleInv
<1>1. Searching /\ border = <<>> /\ neighbours = <<>>
  BY DEF Searching, BorderInv
<1>2. \A c \in Cell : mark[c] # InBorder
  BY <1>1 DEF BorderInv, Range
<1>3. \A c : Candidate(c) <=> Open(c)
  BY LeadsTogether
<1>4. Leads = Belong
  <2>1. \A a, b \in Cell : <<a, b>> \in Leads <=> Together(a, b)
    BY LeadsTogether
  <2>2. \A p \in Cell \X Cell : p = <<p[1], p[2]>> /\ p[1] \in Cell /\ p[2] \in Cell
    OBVIOUS
  <2>3. \A p \in Cell \X Cell : p \in Leads <=> p \in Belong
    BY <2>1, <2>2 DEF Belong
  <2> QED  BY <2>3 DEF Leads, Belong
<1>5. \A c \in Cell : Candidate(c) => mark[c] = Done /\ result[c] \in 1 .. clusterId
  <2>1. \A c \in Cell : Before(c, cursor)
    BY GridAssumption DEF PastEnd, Before, Cell
  <2>2. \A c \in Cell : mark[c] \in {Todo, InBorder, Done}
    BY DEF ObstacleTypes
  <2> QED  BY <1>1, <1>2, <2>1, <2>2 DEF MarkInv
<1>6. ASSUME NEW a \in Cell, NEW b \in Cell, Open(a), Open(b), <<a, b>> \in Belong
      PROVE  result[b] <= result[a]
  <2>1. Range(neighbours) = {}
    BY <1>1 DEF Range
  <2> QED  BY <1>1, <1>2, <1>3, <1>4, <1>5, <1>6, <2>1 DEF GoneOnInv
<1>7. ASSUME NEW c \in Cell, Open(c)
      PROVE  \E f \in Cell : Rooted(MembersOf(c), f, Belong)
  <2>1. result[c] \in 1 .. clusterId
    BY <1>3, <1>5, <1>7
  <2>2. Group(result[c]) = MembersOf(c)
    BY <1>2, <1>3, <1>5 DEF Group, MembersOf
  <2>3. Group(result[c]) # {}
    BY <1>7, <2>2 DEF MembersOf
  <2>4. PICK f \in Cell : Rooted(Group(result[c]), f, Leads)
    BY <1>1, <2>1, <2>3 DEF RootInv
  <2> QED  BY <1>4, <2>2, <2>4
<1> QED  BY <1>6, <1>7 DEF NoneLater, AllRooted

(* All candidates have ids when cells under obstacles get theirs.          *)
LEMMA StartAssigningInv ==
  ASSUME ObstacleInv, StartAssigning
  PROVE  ObstacleInv'
<1> USE DEF ObstacleInv
<1>1. /\ UNCHANGED <<call, growing, cell, neighbours, mark, border, thrown, clusterId,
                     clusterSize, backgroundId, result>>
      /\ stage = "plain" /\ stage' = "assign" /\ growing = FALSE /\ PastEnd(cursor)
      /\ cursor' = FirstCell /\ border = <<>> /\ neighbours = <<>> /\ Searching /\ ~Searching'
  BY DEF StartAssigning, obstacleSearch, ObstacleTypes, BorderInv, Searching
<1>2. /\ \A c : Open(c)' <=> Open(c)
      /\ \A c : PlainCandidate(c)' <=> PlainCandidate(c)
  BY <1>1, BelongSteady
<1>3. ObstacleTypes'
  BY <1>1, NoneBeforeFirst DEF ObstacleTypes
<1>4. BorderInv'
  <2>1. Range(neighbours') = {}
    BY <1>1 DEF Range
  <2> QED  BY <1>1, <2>1 DEF BorderInv
<1>5. \A c \in Cell : mark[c] # InBorder
  BY <1>1 DEF BorderInv, Range
<1>6. AssignInv'
  <2>1. \A c : PlainCandidate(c) <=> Candidate(c)
    BY <1>1 DEF PlainCandidate, Candidate
  <2>2. \A c \in Cell : PlainCandidate(c) => mark[c] = Done /\ result[c] \in 1 .. clusterId
    <3>1. \A c \in Cell : Before(c, cursor)
      BY <1>1, GridAssumption DEF PastEnd, Before, Cell
    <3>2. \A c \in Cell : mark[c] \in {Todo, InBorder, Done}
      BY DEF ObstacleTypes
    <3> QED  BY <1>1, <1>5, <2>1, <3>1, <3>2 DEF MarkInv
  <2>3. \A c \in Cell : ~PlainCandidate(c) => result[c] = Unset
    BY <1>1, <2>1 DEF MarkInv
  <2>4. ASSUME NEW id \in 1 .. clusterId PROVE \E c \in Cell : PlainCandidate(c) /\ result[c] = id
    <3>1. PICK c \in Group(id) : TRUE
      BY <1>1 DEF RootInv
    <3> QED  BY <1>5, <2>1, <3>1 DEF Group
  <2>5. \A c \in Cell : ~Before(c, cursor')
    BY <1>1, NoneBeforeFirst
  <2> QED  BY <1>1, <1>2, <2>2, <2>3, <2>4, <2>5 DEF AssignInv
<1>7. SettledInv'
  <2> SUFFICES ASSUME call.op = "obstacles" PROVE SettledInv'
    BY <1>1 DEF SettledInv
  <2>1. NoneLater /\ AllRooted
    BY <1>1, SearchesSettle
  <2>2. NoneLater' /\ AllRooted'
    BY <1>1, <2>1, SettledSteady
  <2> QED  BY <1>1, <2>2 DEF SettledInv
<1> QED  BY <1>1, <1>3, <1>4, <1>6, <1>7 DEF MarkInv, GoneOnInv, RootInv

(* The second part of fuzzy_cluster_id_with_obstacles starts anew.         *)
LEMMA StartFuzzyInv ==
  ASSUME ObstacleInv, StartFuzzy
  PROVE  ObstacleInv'
<1> USE DEF ObstacleInv
<1>1. /\ UNCHANGED <<call, growing, cell, neighbours, border, thrown, clusterSize>>
      /\ stage = "assign" /\ stage' = "fuzzy" /\ call.op = "fuzzy_obstacles" /\ growing = FALSE
      /\ cursor' = FirstCell /\ border = <<>> /\ neighbours = <<>> /\ clusterId' = 0
      /\ mark' = [c \in Cell |-> Todo] /\ result' = [c \in Cell |-> Unset]
  BY DEF StartFuzzy, ObstacleTypes, BorderInv, Searching
<1>2. \A c \in Cell : mark'[c] = Todo /\ mark'[c] # InBorder /\ mark'[c] # Done
  BY <1>1 DEF Todo, InBorder, Done
<1>3. ObstacleTypes'
  BY <1>1, NoneBeforeFirst DEF ObstacleTypes, Searching
<1>4. BorderInv'
  <2>1. Range(neighbours') = {} /\ Range(border') = {}
    BY <1>1 DEF Range
  <2> QED  BY <1>1, <1>2, <2>1 DEF BorderInv
<1>5. MarkInv'
  BY <1>1, <1>2, NoneBeforeFirst DEF MarkInv
<1>6. GoneOnInv'
  BY <1>2 DEF GoneOnInv
<1>7. RootInv'
  BY <1>1 DEF RootInv
<1>8. AssignInv' /\ SettledInv'
  BY <1>1 DEF AssignInv, SettledInv
<1> QED  BY <1>3, <1>4, <1>5, <1>6, <1>7, <1>8

(* What most cells around a cell hold does not change either.              *)
LEMMA JoinsMostSteady ==
  ASSUME call' = call, backgroundId' = backgroundId, clusterId' = clusterId,
         \A m \in Cell : Open(m) => result'[m] = result[m],
         DOMAIN clusterSize' = DOMAIN clusterSize,
         NEW c \in Cell, result'[c] = result[c], JoinsMost(c)
  PROVE  JoinsMost(c)'
<1>1. \A id : Held(c, id)' = Held(c, id)
  BY SettledSteady
<1>2. Held(c, result[c])' = Held(c, result[c])
  <2>1. Held(c, result[c])' = {n \in Cell : (Straight(c, n) \/ Diagonal(c, n)) /\ Open(n)'
                                              /\ result'[n] = result'[c]}
    BY DEF Held
  <2>2. \A n : Open(n)' <=> Open(n)
    BY BelongSteady
  <2> QED  BY <2>1, <2>2 DEF Held
<1> QED  BY <1>1, <1>2 DEF JoinsMost

(* What is returned is what the loops have left.                           *)
LEMMA ReturnResultInv ==
  ASSUME ObstacleInv, ReturnResult
  PROVE  ObstacleInv'
<1> USE DEF ObstacleInv
<1>1. /\ UNCHANGED <<call, cursor, growing, cell, neighbours, mark, border, thrown, clusterId,
                     clusterSize, backgroundId, result>>
      /\ stage = IF call.op = "obstacles" THEN "assign" ELSE "fuzzy"
      /\ stage' = "returned" /\ growing = FALSE /\ PastEnd(cursor)
      /\ border = <<>> /\ neighbours = <<>> /\ ~Searching'
  BY DEF ReturnResult, obstacleSearch, ObstacleTypes, BorderInv, Searching
<1>2. ObstacleTypes'
  BY <1>1 DEF ObstacleTypes
<1>3. BorderInv'
  <2>1. Range(neighbours') = {}
    BY <1>1 DEF Range
  <2> QED  BY <1>1, <2>1 DEF BorderInv
<1>4. NoneLater /\ AllRooted
  <2>1. CASE call.op = "obstacles"
    BY <1>1, <2>1 DEF SettledInv
  <2>2. CASE call.op # "obstacles"
    BY <1>1, <2>2, SearchesSettle
  <2> QED  BY <2>1, <2>2
<1>5. call.op = "obstacles" =>
        \A c \in Cell : IsPositive(call.items, c) /\ call.obstacle[c] = 1 => JoinsMost(c)'
  <2> SUFFICES ASSUME call.op = "obstacles", NEW c \in Cell, IsPositive(call.items, c),
                      call.obstacle[c] = 1
               PROVE  JoinsMost(c)'
    OBVIOUS
  <2>1. Before(c, cursor)
    BY <1>1, GridAssumption DEF PastEnd, Before, Cell
  <2>2. JoinsMost(c)
    BY <1>1, <2>1 DEF AssignInv
  <2> QED  BY <1>1, <2>2, JoinsMostSteady
<1>6. SettledInv'
  <2>1. NoneLater' /\ AllRooted'
    BY <1>1, <1>4, SettledSteady
  <2>2. \A c : IsPositive(call.items, c)' <=> IsPositive(call.items, c)
    BY <1>1 DEF IsPositive
  <2> QED  BY <1>1, <1>5, <2>1, <2>2 DEF SettledInv
<1> QED  BY <1>1, <1>2, <1>3, <1>6 DEF MarkInv, GoneOnInv, RootInv, AssignInv

(* A cell under an obstacle is given an id that most cells around it hold, *)
(* or none if no cell around it has an id.                                 *)
LEMMA MostJoins ==
  ASSUME ObstacleInv, stage = "assign", call.op = "obstacles",
         NEW c \in Cell, call.obstacle[c] = 1,
         NEW given, given = IF ClusterCellsAround(c) # {} THEN MostAround(c) ELSE 0
  PROVE  /\ given \in DOMAIN clusterSize
         /\ given = 0 <=> \A id \in 1 .. clusterId : Cardinality(Held(c, id)) = 0
         /\ \A id \in 1 .. clusterId :
              Cardinality(Held(c, id)) <= Cardinality(Held(c, given)) \/ given = 0
<1> USE DEF ObstacleInv
<1> DEFINE around == ClusterCellsAround(c)
<1>1. /\ around = {n \in Cell : (Straight(c, n) \/ Diagonal(c, n)) /\ PlainCandidate(n)}
      /\ clusterId \in 0 .. Rows * Cols - 1
      /\ \A n \in around : result[n] \in 1 .. clusterId /\ clusterSize[result[n]] \in Nat
  BY AroundObstacle
<1>2. DOMAIN clusterSize = 0 .. Rows * Cols - 1 /\ Rows * Cols \in Nat
  BY GridAssumption DEF ObstacleTypes
<1>3. \A n : PlainCandidate(n) <=> Open(n)
  BY DEF PlainCandidate, Open, catMap
<1>4. \A id : Held(c, id) = {n \in around : result[n] = id}
  BY <1>1, <1>3 DEF Held
<1>5. \A id : IsFiniteSet(Held(c, id)) /\ Cardinality(Held(c, id)) \in Nat
  <2> SUFFICES ASSUME NEW id PROVE IsFiniteSet(Held(c, id)) /\ Cardinality(Held(c, id)) \in Nat
    OBVIOUS
  <2>1. Held(c, id) \in SUBSET Cell
    BY DEF Held
  <2> QED  BY <2>1, CellsFinite, FS_Subset, FS_CardinalityType
<1>6. \A id : Cardinality(Held(c, id)) = 0 <=> Held(c, id) = {}
  BY <1>5, FS_EmptySet
<1>7. CASE around = {}
  <2>1. given = 0 /\ \A id : Held(c, id) = {}
    BY <1>4, <1>7
  <2>2. 0 \in 0 .. Rows * Cols - 1
    <3> DEFINE N == Rows * Cols
    <3>1. clusterId \in 0 .. N - 1 /\ N \in Nat
      BY <1>1, <1>2
    <3> HIDE DEF N
    <3>2. 0 \in 0 .. N - 1
      BY <3>1
    <3> QED  BY <3>2 DEF N
  <2> QED  BY <1>2, <1>6, <2>1, <2>2
<1>8. CASE around # {}
  <2>1. given = MostAround(c)
    BY <1>8
  <2>2. \A n \in around : result[n] \in Nat /\ clusterSize[result[n]] \in Nat
    BY <1>1
  <2>3. /\ \E n \in around : given = result[n]
        /\ \A o \in around : Cardinality({n \in around : result[n] = result[o]})
                               <= Cardinality({n \in around : result[n] = given})
    BY <1>8, <2>1, <2>2, MostAroundIs
  <2> HIDE DEF around
  <2>4. given \in 1 .. clusterId /\ Held(c, given) # {}
    BY <1>1, <1>4, <2>3
  <2>5. given # 0 /\ given \in DOMAIN clusterSize
    BY <1>1, <1>2, <2>4
  <2>6. ASSUME NEW id \in 1 .. clusterId
        PROVE  Cardinality(Held(c, id)) <= Cardinality(Held(c, given))
    <3>1. CASE Held(c, id) = {}
      BY <1>5, <1>6, <3>1
    <3>2. CASE Held(c, id) # {}
      <4>1. PICK o \in around : result[o] = id
        BY <1>4, <3>2
      <4>2. /\ Held(c, id) = {n \in around : result[n] = result[o]}
            /\ Held(c, given) = {n \in around : result[n] = given}
        BY <1>4, <4>1
      <4> QED  BY <2>3, <4>2
    <3> QED  BY <3>1, <3>2
  <2>7. \E id \in 1 .. clusterId : Cardinality(Held(c, id)) # 0
    BY <1>6, <2>4
  <2> QED  BY <2>5, <2>6, <2>7
<1> QED  BY <1>7, <1>8

(* Giving a cell under an obstacle to a cluster changes no other cell.     *)
LEMMA AssignCellInv ==
  ASSUME ObstacleInv, AssignCell
  PROVE  ObstacleInv'
<1> USE DEF ObstacleInv
<1>1. /\ UNCHANGED <<call, stage, growing, cell, neighbours, mark, border, thrown, clusterId,
                     backgroundId>>
      /\ stage = "assign" /\ growing = FALSE /\ ~PastEnd(cursor)
      /\ cursor' = NextCell(cursor) /\ border = <<>> /\ neighbours = <<>> /\ ~Searching'
      /\ call.op # "fuzzy"
  BY DEF AssignCell, obstacleSearch, ObstacleTypes, BorderInv, Searching
<1>2. /\ cursor \in Cell /\ cursor' \in (0 .. Rows) \X (0 .. Cols - 1)
      /\ \A c \in Cell : Before(c, cursor') <=> Before(c, cursor) \/ c = cursor
  BY <1>1, NextCellInGrid DEF ObstacleTypes
<1> DEFINE under == IsPositive(catMap, cursor) /\ call.obstacle[cursor] = 1
           given == IF ClusterCellsAround(cursor) # {} THEN MostAround(cursor) ELSE 0
<1>3. /\ result' = IF under THEN [result EXCEPT ![cursor] = given] ELSE result
      /\ clusterSize' \in [0 .. Rows * Cols - 1 -> Nat]
      /\ under => given \in Nat
  <2>1. CASE under /\ ClusterCellsAround(cursor) # {}
    <3>1. \A n \in ClusterCellsAround(cursor) :
            result[n] \in 1 .. clusterId /\ clusterSize[result[n]] \in Nat
      BY <1>1, <1>2, <2>1, AroundObstacle
    <3>2. clusterId \in 0 .. Rows * Cols - 1 /\ Rows * Cols \in Nat
      BY <1>1, <1>2, <2>1, AroundObstacle, GridAssumption
    <3>3. \A n \in ClusterCellsAround(cursor) : result[n] \in Nat /\ clusterSize[result[n]] \in Nat
      BY <3>1
    <3>4. \E n \in ClusterCellsAround(cursor) : MostAround(cursor) = result[n]
      BY <1>2, <2>1, <3>3, MostAroundIs
    <3>5. MostAround(cursor) \in 0 .. Rows * Cols - 1 /\ MostAround(cursor) \in Nat
      BY <3>1, <3>2, <3>4
    <3>6. /\ result' = [result EXCEPT ![cursor] = MostAround(cursor)]
          /\ clusterSize' = [clusterSize EXCEPT ![result'[cursor]] = @ + 1]
      BY <2>1 DEF AssignCell
    <3>7. result'[cursor] = MostAround(cursor)
      BY <1>2, <3>6 DEF ObstacleTypes
    <3>8. clusterSize \in [0 .. Rows * Cols - 1 -> Nat]
      BY DEF ObstacleTypes
    <3>9. clusterSize' \in [0 .. Rows * Cols - 1 -> Nat]
      BY <3>5, <3>6, <3>7, <3>8
    <3> QED  BY <2>1, <3>5, <3>6, <3>9
  <2>2. CASE under /\ ClusterCellsAround(cursor) = {}
    BY <2>2 DEF AssignCell, ObstacleTypes
  <2>3. CASE ~under
    BY <2>3 DEF AssignCell, ObstacleTypes
  <2> QED  BY <2>1, <2>2, <2>3
<1>4. under => call.obstacle[cursor] = 1
  OBVIOUS
<1> HIDE DEF under, given
<1>5. \A c \in Cell : result'[c] = IF under /\ c = cursor THEN given ELSE result[c]
  BY <1>2, <1>3 DEF ObstacleTypes
<1>6. ObstacleTypes'
  <2>1. result' \in [Cell -> Nat \cup {Unset, NoData}]
    BY <1>2, <1>3 DEF ObstacleTypes
  <2> QED  BY <1>1, <1>2, <1>3, <2>1 DEF ObstacleTypes
<1>7. BorderInv'
  <2>1. Range(neighbours') = {}
    BY <1>1 DEF Range
  <2> QED  BY <1>1, <2>1 DEF BorderInv
<1>8. /\ \A c : Open(c)' <=> Open(c)
      /\ \A c : PlainCandidate(c)' <=> PlainCandidate(c)
  BY <1>1, BelongSteady
<1>9. \A c \in Cell : call.obstacle[c] # 1 => result'[c] = result[c]
  BY <1>4, <1>5
<1>10. \A c \in Cell : Open(c) => result'[c] = result[c]
  BY <1>1, <1>9 DEF Open
<1>11. ASSUME call.op = "obstacles", NEW c \in Cell, Before(c, cursor'),
              IsPositive(call.items, c), call.obstacle[c] = 1
       PROVE  JoinsMost(c)'
  <2>1. CASE c = cursor
    <3>1. under /\ result'[c] = given
      BY <1>5, <1>11, <2>1 DEF under, catMap
    <3>2. /\ given \in DOMAIN clusterSize
          /\ given = 0 <=> \A id \in 1 .. clusterId : Cardinality(Held(c, id)) = 0
          /\ \A id \in 1 .. clusterId :
               Cardinality(Held(c, id)) <= Cardinality(Held(c, given)) \/ given = 0
      BY <1>1, <1>11, <2>1, MostJoins DEF given
    <3>3. \A id : Held(c, id)' = Held(c, id)
      BY <1>1, <1>10, SettledSteady
    <3>4. Held(c, result[c])' = Held(c, given)
      <4>1. Held(c, result[c])' = {n \in Cell : (Straight(c, n) \/ Diagonal(c, n)) /\ Open(n)'
                                                  /\ result'[n] = result'[c]}
        BY DEF Held
      <4> QED  BY <1>8, <1>10, <3>1, <4>1 DEF Held
    <3>5. DOMAIN clusterSize' = DOMAIN clusterSize
      BY <1>3 DEF ObstacleTypes
    <3> QED  BY <1>1, <3>1, <3>2, <3>3, <3>4, <3>5 DEF JoinsMost
  <2>2. CASE c # cursor
    <3>1. JoinsMost(c)
      BY <1>1, <1>2, <1>11, <2>2 DEF AssignInv
    <3>2. result'[c] = result[c] /\ DOMAIN clusterSize' = DOMAIN clusterSize
      BY <1>3, <1>5, <2>2 DEF ObstacleTypes
    <3> QED  BY <1>1, <1>10, <3>1, <3>2, JoinsMostSteady
  <2> QED  BY <2>1, <2>2
<1>12. AssignInv'
  <2>1. \A c \in Cell : PlainCandidate(c) => result'[c] = result[c]
    BY <1>9 DEF PlainCandidate
  <2>2. /\ \A c \in Cell : PlainCandidate(c) => result[c] \in 1 .. clusterId
        /\ \A c \in Cell : ~PlainCandidate(c) /\ call.obstacle[c] # 1 => result[c] = Unset
        /\ \A id \in 1 .. clusterId : \E c \in Cell : PlainCandidate(c) /\ result[c] = id
    BY <1>1 DEF AssignInv
  <2>3. \A c : IsPositive(call.items, c)' <=> IsPositive(call.items, c)
    BY <1>1 DEF IsPositive
  <2> QED  BY <1>1, <1>8, <1>9, <1>11, <2>1, <2>2, <2>3 DEF AssignInv
<1>13. SettledInv'
  <2> SUFFICES ASSUME call.op = "obstacles" PROVE SettledInv'
    BY <1>1 DEF SettledInv
  <2>1. NoneLater /\ AllRooted
    BY <1>1 DEF SettledInv
  <2>2. NoneLater' /\ AllRooted'
    BY <1>1, <1>10, <2>1, SettledSteady
  <2> QED  BY <1>1, <2>2 DEF SettledInv
<1> QED  BY <1>1, <1>6, <1>7, <1>12, <1>13 DEF MarkInv, GoneOnInv, RootInv

(* Every step keeps the invariant.                                         *)
LEMMA ObstacleInvNext == ObstacleInv /\ [ObstacleNext]_obstacleVars => ObstacleInv'
<1> SUFFICES ASSUME ObstacleInv, [ObstacleNext]_obstacleVars PROVE ObstacleInv'
  OBVIOUS
<1>1. CASE BeginCluster
  BY <1>1, BeginClusterInv
<1>2. CASE PassOver
  BY <1>2, PassOverCellInv
<1>3. CASE TakeCell
  BY <1>3, TakeCellInv
<1>4. CASE TryNeighbour
  BY <1>4, TryNeighbourInv
<1>5. CASE EndCluster
  BY <1>5, EndClusterInv
<1>6. CASE StartAssigning
  BY <1>6, StartAssigningInv
<1>7. CASE AssignCell
  BY <1>7, AssignCellInv
<1>8. CASE StartFuzzy
  BY <1>8, StartFuzzyInv
<1>9. CASE ReturnResult
  BY <1>9, ReturnResultInv
<1>10. CASE UNCHANGED obstacleVars
  <2>1. UNCHANGED <<call, stage, cursor, growing, cell, neighbours, mark, border, thrown,
                    clusterId, clusterSize, backgroundId, result>>
    BY <1>10 DEF obstacleVars, obstacleSearch
  <2>2. /\ \A c : Candidate(c)' <=> Candidate(c)
        /\ Leads' = Leads
        /\ \A c \in Cell : VisitedFrom(c)' = VisitedFrom(c)
        /\ Searching' <=> Searching
        /\ VisitedFrom(cell)' = VisitedFrom(cell)
    BY <2>1, LeadsSteady DEF VisitedFrom, StraightNeighbours, DiagNeighbours, IfInside, Near
  <2>3. /\ \A id : Group(id)' = Group(id)
        /\ Group(clusterId)' = Group(clusterId)
    BY <2>1, <2>2 DEF Group
  <2>4. ObstacleTypes' /\ MarkInv' /\ GoneOnInv'
    BY <2>1, <2>2 DEF ObstacleInv, ObstacleTypes, MarkInv, GoneOnInv
  <2>5. BorderInv'
    <3>1. Candidate(cell)' <=> Candidate(cell)
      BY <2>1 DEF Candidate, IsPositive, catMap, Obstacle
    <3> QED  BY <2>1, <2>2, <3>1 DEF ObstacleInv, BorderInv
  <2>6. RootInv'
    <3>1. \A id : \A f \in Cell : Rooted(Group(id), f, Leads)' <=> Rooted(Group(id), f, Leads)
      BY <2>2, <2>3 DEF Rooted
    <3>2. Rooted(Group(clusterId), cursor, Leads)' <=> Rooted(Group(clusterId), cursor, Leads)
      BY <2>1, <2>2, <2>3 DEF Rooted
    <3> QED  BY <2>1, <2>2, <2>3, <3>1, <3>2 DEF ObstacleInv, RootInv
  <2>7. /\ \A c \in Cell : JoinsMost(c) => JoinsMost(c)'
        /\ \A c : IsPositive(call.items, c)' <=> IsPositive(call.items, c)
        /\ \A c : PlainCandidate(c)' <=> PlainCandidate(c)
    BY <2>1, JoinsMostSteady, BelongSteady DEF IsPositive
  <2>8. AssignInv'
    BY <2>1, <2>7 DEF ObstacleInv, AssignInv
  <2>9. SettledInv'
    <3> SUFFICES ASSUME stage = "returned" \/ (stage = "assign" /\ call.op = "obstacles")
                 PROVE  SettledInv'
      BY <2>1 DEF SettledInv
    <3>1. NoneLater /\ AllRooted
      BY DEF ObstacleInv, SettledInv
    <3>2. NoneLater' /\ AllRooted'
      BY <2>1, <3>1, SettledSteady
    <3> QED  BY <2>1, <2>7, <3>2 DEF ObstacleInv, SettledInv
  <2> QED  BY <2>4, <2>5, <2>6, <2>8, <2>9 DEF ObstacleInv
<1> QED  BY <1>1, <1>2, <1>3, <1>4, <1>5, <1>6, <1>7, <1>8, <1>9, <1>10 DEF ObstacleNext

(* Every member of a cluster is reached from its first one within as many  *)
(* rounds as there are cells.                                              *)
LEMMA ReachedFromRoot ==
  ASSUME NEW f \in Cell, Rooted(MembersOf(f), f, Belong)
  PROVE  MembersOf(f) \subseteq ReachedInside(f)
<1> DEFINE K == MembersOf(f)
           N == Rows * Cols
           Round(A) == A \cup {b \in K : \E a \in A : Together(a, b)}
           F == [A \in SUBSET Cell |-> Round(A)]
           IsReach(g) == g = [n \in 0 .. N |->
             IF n = 0 THEN {f}
             ELSE g[n - 1] \cup {b \in K : \E a \in g[n - 1] : Together(a, b)}]
           reach == CHOOSE g : IsReach(g)
<1>1. N \in Nat /\ K \in SUBSET Cell
  BY GridAssumption DEF MembersOf
<1>2. /\ f \in K
      /\ \A part \in SUBSET K : f \in part /\ part # K =>
           \E a \in part, b \in K \ part : Together(a, b)
  <2>1. f \in K
    BY DEF Rooted
  <2>2. ASSUME NEW part \in SUBSET K, f \in part, part # K
        PROVE  \E a \in part, b \in K \ part : Together(a, b)
    <3>1. PICK a \in part, b \in K \ part : <<a, b>> \in Belong
      BY <2>2 DEF Rooted
    <3> QED  BY <3>1 DEF Belong
  <2> QED  BY <2>1, <2>2
<1>3. ReachedInside(f) = reach[N]
  BY DEF ReachedInside, MembersOf
<1> HIDE DEF K
<1>4. F \in [SUBSET Cell -> SUBSET Cell] /\ {f} \in SUBSET Cell
  BY <1>1
<1>5. PICK g : Iterates(g, SUBSET Cell, F, {f}, N)
  <2> HIDE DEF F, N
  <2> QED  BY <1>1, <1>4, Iteration
<1>6. IsReach(g)
  <2>1. g \in [0 .. N -> SUBSET Cell] /\ g[0] = {f} /\ \A n \in 1 .. N : g[n] = F[g[n - 1]]
    BY <1>5, Zenon DEF Iterates
  <2>2. ASSUME NEW n \in 0 .. N
        PROVE  g[n] = IF n = 0 THEN {f}
                      ELSE g[n - 1] \cup {b \in K : \E a \in g[n - 1] : Together(a, b)}
    <3>1. CASE n = 0
      BY <3>1, <2>1
    <3>2. CASE n # 0
      <4>1. n \in 1 .. N /\ n - 1 \in 0 .. N
        BY <1>1, <3>2
      <4>2. g[n] = F[g[n - 1]] /\ g[n - 1] \in SUBSET Cell
        <5> HIDE DEF F, N
        <5> QED  BY <2>1, <4>1
      <4>3. g[n] = Round(g[n - 1])
        BY <4>2
      <4> QED  BY <3>2, <4>3
    <3> QED  BY <3>1, <3>2
  <2> QED  BY <2>1, <2>2
<1>7. IsReach(reach)
  <2> HIDE DEF IsReach
  <2> QED  BY <1>6
<1> HIDE DEF reach
<1>8. reach[0] = {f} /\ \A n \in 1 .. N : reach[n] = Round(reach[n - 1])
  <2>1. 0 \in 0 .. N /\ \A n \in 1 .. N : n \in 0 .. N /\ n # 0
    BY <1>1
  <2> QED  BY <1>7, <2>1
<1>9. ASSUME NEW A \in SUBSET K
      PROVE  A \subseteq Round(A) /\ Round(A) \in SUBSET K
  OBVIOUS
<1>10. ASSUME NEW A \in SUBSET K, f \in A, A # K
       PROVE  \E b \in K \ A : b \in Round(A)
  <2>1. PICK a \in A, b \in K \ A : Together(a, b)
    BY <1>2, <1>10
  <2> QED  BY <2>1
<1> HIDE DEF N, Round
<1> DEFINE Bad == {n \in Nat : n \in 0 .. N /\
                     ~(/\ reach[n] \in SUBSET K /\ f \in reach[n]
                       /\ reach[n] = K \/ Cardinality(reach[n]) > n)}
<1>11. Bad = {}
  <2> SUFFICES ASSUME Bad # {} PROVE FALSE
    OBVIOUS
  <2>1. PICK n \in Bad : \A j \in Bad : n <= j
    <3>1. Bad \in SUBSET Nat
      OBVIOUS
    <3> HIDE DEF Bad
    <3> QED  BY <3>1, LeastNatural
  <2>2. n # 0
    <3>1. {f} \in SUBSET K /\ f \in {f}
      BY <1>2
    <3>2. Cardinality({f}) = 1
      BY FS_Singleton, Zenon
    <3>3. 1 > 0
      OBVIOUS
    <3>4. reach[0] \in SUBSET K /\ Cardinality(reach[0]) > 0 /\ f \in reach[0]
      BY <1>8, <3>1, <3>2, <3>3, Zenon
    <3> QED  BY <2>1, <3>4
  <2>3. n \in 1 .. N /\ n - 1 \in 0 .. N /\ n - 1 \in Nat /\ n - 1 \notin Bad
    BY <1>1, <2>1, <2>2
  <2> DEFINE A == reach[n - 1]
  <2>4. A \in SUBSET K /\ f \in A /\ (A = K \/ Cardinality(A) > n - 1)
    BY <2>3
  <2>5. reach[n] = Round(A)
    BY <1>8, <2>3
  <2> HIDE DEF A
  <2>6. A \subseteq reach[n] /\ reach[n] \in SUBSET K /\ f \in reach[n]
    BY <1>9, <2>4, <2>5
  <2>7. CASE A = K
    BY <2>1, <2>6, <2>7
  <2>8. CASE A # K
    <3>1. IsFiniteSet(A) /\ Cardinality(A) \in Nat /\ IsFiniteSet(reach[n])
      BY <1>1, <2>4, <2>6, CellsFinite, FS_Subset, FS_CardinalityType
    <3>2. PICK b \in K \ A : b \in reach[n]
      BY <1>10, <2>4, <2>5, <2>8
    <3>3. Cardinality(A \cup {b}) = Cardinality(A) + 1
      BY <3>1, <3>2, FS_AddElement
    <3>4. A \cup {b} \in SUBSET reach[n]
      BY <2>6, <3>2
    <3>5. Cardinality(A \cup {b}) <= Cardinality(reach[n])
      BY <3>1, <3>4, FS_Subset
    <3>6. Cardinality(reach[n]) \in Nat
      BY <3>1, FS_CardinalityType
    <3>7. Cardinality(reach[n]) > n
      BY <2>3, <2>4, <2>8, <3>1, <3>3, <3>5, <3>6
    <3> QED  BY <2>1, <2>6, <3>7
  <2> QED  BY <2>7, <2>8
<1>12. reach[N] \in SUBSET K /\ (reach[N] = K \/ Cardinality(reach[N]) > N)
  BY <1>1, <1>11
<1>13. Cardinality(reach[N]) <= N /\ Cardinality(reach[N]) \in Nat
  <2>1. reach[N] \in SUBSET Cell
    BY <1>1, <1>12
  <2> QED  BY <2>1, CellsFinite, FS_Subset, FS_CardinalityType DEF N
<1>14. K \subseteq ReachedInside(f)
  BY <1>1, <1>3, <1>12, <1>13
<1> QED  BY <1>14 DEF K

(* For every raster, obstacle map, radius and grid: what cluster_id_with_  *)
(* obstacles and the two fuzzy functions give one id is what belongs       *)
(* together and nothing else.  No cell that can be reached from a cell of  *)
(* a cluster has been left to a later one, and every cell is reached from  *)
(* the first of its cluster without leaving it; the border never           *)
(* overflows.                                                              *)
THEOREM ObstacleClustersAreExact == ObstacleSpec => []ClustersExact
<1>1. ObstacleInv => ClustersExact
  <2> SUFFICES ASSUME ObstacleInv PROVE ClustersExact
    OBVIOUS
  <2>1. ~thrown
    BY DEF ObstacleInv, BorderInv
  <2>2. stage = "returned" => NoneLater /\ AllRooted
    BY DEF ObstacleInv, SettledInv
  <2>3. NoneLeftOut
    <3>1. \A a, b \in Cell : Together(a, b) <=> <<a, b>> \in Belong
      BY DEF Belong
    <3> QED  BY <2>1, <2>2, <3>1 DEF NoneLeftOut, NoneLater
  <2>4. ASSUME stage = "returned", NEW c \in Cell, Open(c), NEW first,
               first = CHOOSE f \in MembersOf(c) : \A m \in MembersOf(c) \ {f} : Before(f, m)
        PROVE  c \in ReachedInside(first)
    <3>1. PICK f \in Cell : Rooted(MembersOf(c), f, Belong)
      BY <2>2, <2>4 DEF AllRooted
    <3>2. f \in MembersOf(c) /\ \A m \in MembersOf(c) \ {f} : Before(f, m)
      BY <3>1 DEF Rooted
    <3>3. first \in MembersOf(c) /\ \A m \in MembersOf(c) \ {first} : Before(first, m)
      BY <2>4, <3>2
    <3>4. first = f
      <4> SUFFICES ASSUME first # f PROVE FALSE
        OBVIOUS
      <4>1. Before(first, f) /\ Before(f, first)
        BY <3>2, <3>3
      <4>2. f \in Cell /\ first \in Cell
        BY <3>2, <3>3 DEF MembersOf
      <4>3. f[1] \in Int /\ f[2] \in Int /\ first[1] \in Int /\ first[2] \in Int
        BY <4>2, GridAssumption DEF Cell
      <4> QED  BY <4>1, <4>3 DEF Before
    <3>5. MembersOf(f) = MembersOf(c) /\ c \in MembersOf(c)
      BY <2>4, <3>2 DEF MembersOf
    <3>6. MembersOf(c) \subseteq ReachedInside(f)
      BY <3>1, <3>5, ReachedFromRoot
    <3> QED  BY <3>4, <3>5, <3>6
  <2>5. ClustersReached
    BY <2>4 DEF ClustersReached, MembersOf
  <2> QED  BY <2>3, <2>5 DEF ClustersExact
<1> QED  BY <1>1, ObstacleInitInv, ObstacleInvNext, PTL DEF ObstacleSpec

-----------------------------------------------------------------------------
(* Equal clusters                                                          *)

UnderObstacle(c) == IsPositive(call.items, c) /\ call.obstacle[c] = 1

(* Of the ids that as many cells around c hold, c was given the one that   *)
(* had taken fewest cells under obstacles, and of these the least.         *)
TiesDecided(c) ==
  \A given : \A id \in 1 .. clusterId :
    result[c] = given /\ given # 0 /\ Cardinality(Held(c, id)) = Cardinality(Held(c, given))
      => \/ TakenBefore(c, given) < TakenBefore(c, id)
         \/ TakenBefore(c, given) = TakenBefore(c, id) /\ given <= id

(* clusterSize has counted the cells given so far.                         *)
TieInv ==
  /\ stage = "plain" => \A id \in DOMAIN clusterSize : clusterSize[id] = 0
  /\ stage = "assign" /\ call.op = "obstacles" =>
       /\ \A id \in DOMAIN clusterSize : id # 0 => clusterSize[id] = TakenBefore(cursor, id)
       /\ \A c \in Cell : Before(c, cursor) /\ UnderObstacle(c) => TiesDecided(c)
  /\ stage = "returned" /\ call.op = "obstacles" =>
       \A c \in Cell : UnderObstacle(c) => TiesDecided(c)

LEMMA TiesSteady ==
  ASSUME call' = call, backgroundId' = backgroundId, clusterId' = clusterId,
         \A m \in Cell : Open(m) => result'[m] = result[m],
         NEW c \in Cell, result'[c] = result[c],
         \A d \in Cell : Before(d, c) => result'[d] = result[d]
  PROVE  /\ \A id : TakenBefore(c, id)' = TakenBefore(c, id)
         /\ TiesDecided(c) => TiesDecided(c)'
<1>1. \A id : Held(c, id)' = Held(c, id)
  BY SettledSteady
<1>2. \A id : TakenBefore(c, id)' = TakenBefore(c, id)
  <2> SUFFICES ASSUME NEW id PROVE TakenBefore(c, id)' = TakenBefore(c, id)
    OBVIOUS
  <2> DEFINE now == {d \in Cell : /\ Before(d, c) /\ result[d] = id
                                  /\ IsPositive(call.items, d) /\ call.obstacle[d] = 1}
             later == {d \in Cell : /\ Before(d, c) /\ result'[d] = id
                                    /\ IsPositive(call.items, d) /\ call.obstacle[d] = 1}
  <2>1. later = now
    OBVIOUS
  <2>2. TakenBefore(c, id)' = Cardinality(later)
    BY DEF TakenBefore, IsPositive
  <2> QED  BY <2>1, <2>2 DEF TakenBefore
<1> QED  BY <1>1, <1>2 DEF TiesDecided

(* The cell is given MostAround, which is counted.                         *)
LEMMA AssignCellStep ==
  ASSUME ObstacleInv, AssignCell, call.op = "obstacles",
         NEW given, given = IF ClusterCellsAround(cursor) # {} THEN MostAround(cursor) ELSE 0
  PROVE  /\ cursor \in Cell
         /\ \A c \in Cell : Before(c, cursor') <=> Before(c, cursor) \/ c = cursor
         /\ \A c \in Cell : result'[c] = IF UnderObstacle(cursor) /\ c = cursor THEN given
                                          ELSE result[c]
         /\ DOMAIN clusterSize' = DOMAIN clusterSize
         /\ \A id \in DOMAIN clusterSize :
              id # 0 => clusterSize'[id] = clusterSize[id]
                          + (IF UnderObstacle(cursor) /\ id = given THEN 1 ELSE 0)
<1>1. /\ cursor \in Cell
      /\ \A c \in Cell : Before(c, cursor') <=> Before(c, cursor) \/ c = cursor
  BY NextCellInGrid DEF AssignCell, ObstacleInv, ObstacleTypes
<1>2. /\ result \in [Cell -> Nat \cup {Unset, NoData}]
      /\ clusterSize \in [0 .. Rows * Cols - 1 -> Nat]
      /\ stage = "assign"
  BY DEF ObstacleInv, ObstacleTypes, AssignCell
<1>3. UnderObstacle(cursor) <=> IsPositive(catMap, cursor) /\ call.obstacle[cursor] = 1
  BY DEF UnderObstacle, catMap
<1>4. CASE UnderObstacle(cursor) /\ ClusterCellsAround(cursor) # {}
  <2>1. /\ result' = [result EXCEPT ![cursor] = given]
        /\ clusterSize' = [clusterSize EXCEPT ![result'[cursor]] = @ + 1]
    BY <1>3, <1>4 DEF AssignCell
  <2>2. result'[cursor] = given
    BY <1>1, <1>2, <2>1
  <2> QED  BY <1>1, <1>2, <1>4, <2>1, <2>2
<1>5. CASE UnderObstacle(cursor) /\ ClusterCellsAround(cursor) = {}
  <2>1. given = 0 /\ result' = [result EXCEPT ![cursor] = given] /\ clusterSize' = clusterSize
    BY <1>3, <1>5 DEF AssignCell
  <2> QED  BY <1>1, <1>2, <1>5, <2>1
<1>6. CASE ~UnderObstacle(cursor)
  <2>1. result' = result /\ clusterSize' = clusterSize
    BY <1>3, <1>6 DEF AssignCell
  <2> QED  BY <1>1, <1>2, <1>6, <2>1
<1> QED  BY <1>4, <1>5, <1>6

LEMMA AssignCellTies ==
  ASSUME ObstacleInv, TieInv, AssignCell, call.op = "obstacles"
  PROVE  TieInv'
<1>1. PICK given : given = IF ClusterCellsAround(cursor) # {} THEN MostAround(cursor) ELSE 0
  OBVIOUS
<1>2. /\ cursor \in Cell
      /\ \A c \in Cell : Before(c, cursor') <=> Before(c, cursor) \/ c = cursor
      /\ \A c \in Cell : result'[c] = IF UnderObstacle(cursor) /\ c = cursor THEN given
                                       ELSE result[c]
      /\ DOMAIN clusterSize' = DOMAIN clusterSize
      /\ \A id \in DOMAIN clusterSize :
           id # 0 => clusterSize'[id] = clusterSize[id]
                       + (IF UnderObstacle(cursor) /\ id = given THEN 1 ELSE 0)
  BY <1>1, AssignCellStep
<1>3. UNCHANGED <<call, stage, clusterId, backgroundId>> /\ stage = "assign"
  BY DEF AssignCell
<1>4. \A c \in Cell : UnderObstacle(c)' <=> UnderObstacle(c)
  BY <1>3 DEF UnderObstacle, IsPositive
<1>5. \A id \in DOMAIN clusterSize : id # 0 => clusterSize[id] = TakenBefore(cursor, id)
  BY <1>3 DEF TieInv
<1>6. \A m \in Cell : Open(m) => result'[m] = result[m]
  BY <1>2 DEF Open, UnderObstacle
<1>7. \A id \in DOMAIN clusterSize' : id # 0 => clusterSize'[id] = TakenBefore(cursor, id)'
  <2> SUFFICES ASSUME NEW id \in DOMAIN clusterSize, id # 0
               PROVE  clusterSize'[id] = TakenBefore(cursor, id)'
    BY <1>2
  <2> DEFINE taken == {d \in Cell : /\ Before(d, cursor) /\ result[d] = id
                                    /\ IsPositive(call.items, d) /\ call.obstacle[d] = 1}
             takenNow == {d \in Cell : /\ Before(d, cursor') /\ result'[d] = id
                                       /\ IsPositive(call.items, d) /\ call.obstacle[d] = 1}
  <2>1. clusterSize[id] = Cardinality(taken) /\ TakenBefore(cursor, id)' = Cardinality(takenNow)
    BY <1>3, <1>5 DEF TakenBefore, IsPositive
  <2>2. cursor \notin taken
    BY <1>2 DEF Before, Cell
  <2>3. takenNow = IF UnderObstacle(cursor) /\ id = given THEN taken \cup {cursor} ELSE taken
    BY <1>2, <2>2 DEF UnderObstacle
  <2>4. IsFiniteSet(taken) /\ Cardinality(taken) \in Nat
    <3>1. taken \in SUBSET Cell
      OBVIOUS
    <3> HIDE DEF taken
    <3> QED  BY <3>1, CellsFinite, FS_Subset, FS_CardinalityType
  <2> HIDE DEF taken, takenNow
  <2>5. Cardinality(taken \cup {cursor}) = Cardinality(taken) + 1
    BY <2>2, <2>4, FS_AddElement
  <2> QED  BY <1>2, <2>1, <2>3, <2>4, <2>5
<1>8. ASSUME NEW c \in Cell, Before(c, cursor'), UnderObstacle(c)
      PROVE  TiesDecided(c)'
  <2>1. CASE c # cursor
    <3>1. Before(c, cursor) /\ TiesDecided(c)
      BY <1>2, <1>3, <1>8, <2>1 DEF TieInv
    <3>2. \A d \in Cell : Before(d, c) => d # cursor
      BY <1>2, <3>1 DEF Before, Cell
    <3> QED  BY <1>2, <1>3, <1>6, <2>1, <3>1, <3>2, TiesSteady
  <2>2. CASE c = cursor
    <3>1. call.obstacle[c] = 1 /\ result'[c] = given
      BY <1>2, <1>8, <2>2 DEF UnderObstacle
    <3>2. \A id : TakenBefore(c, id)' = TakenBefore(c, id)
      <4>1. \A d \in Cell : Before(d, c) => d # c
        BY DEF Before, Cell
      <4> SUFFICES ASSUME NEW id PROVE TakenBefore(c, id)' = TakenBefore(c, id)
        OBVIOUS
      <4> DEFINE taken == {d \in Cell : /\ Before(d, c) /\ result[d] = id
                                        /\ IsPositive(call.items, d) /\ call.obstacle[d] = 1}
                 takenNow == {d \in Cell : /\ Before(d, c) /\ result'[d] = id
                                           /\ IsPositive(call.items, d) /\ call.obstacle[d] = 1}
      <4>2. takenNow = taken
        BY <1>2, <2>2, <4>1
      <4>3. TakenBefore(c, id)' = Cardinality(takenNow)
        BY <1>3 DEF TakenBefore, IsPositive
      <4> QED  BY <4>2, <4>3 DEF TakenBefore
    <3>3. \A id : Held(c, id)' = Held(c, id)
      BY <1>3, <1>6, SettledSteady
    <3> DEFINE around == ClusterCellsAround(c)
    <3>4. /\ around = {n \in Cell : (Straight(c, n) \/ Diagonal(c, n)) /\ PlainCandidate(n)}
          /\ clusterId \in 0 .. Rows * Cols - 1
          /\ \A n \in around : result[n] \in 1 .. clusterId /\ clusterSize[result[n]] \in Nat
      BY <1>3, <3>1, AroundObstacle DEF ObstacleInv
    <3>5. \A n : PlainCandidate(n) <=> Open(n)
      BY DEF PlainCandidate, Open, catMap
    <3>6. \A id : Held(c, id) = {n \in around : result[n] = id}
      BY <3>4, <3>5 DEF Held
    <3>7. \A id \in 1 .. clusterId : clusterSize[id] = TakenBefore(c, id)
      <4>1. \A id \in 1 .. clusterId : id \in DOMAIN clusterSize /\ id # 0
        BY <3>4, GridAssumption DEF ObstacleInv, ObstacleTypes
      <4> QED  BY <1>5, <2>2, <4>1
    <3> SUFFICES ASSUME NEW id \in 1 .. clusterId, given # 0,
                        Cardinality(Held(c, id)) = Cardinality(Held(c, given))
                 PROVE  \/ TakenBefore(c, given) < TakenBefore(c, id)
                        \/ TakenBefore(c, given) = TakenBefore(c, id) /\ given <= id
      BY <1>3, <3>1, <3>2, <3>3 DEF TiesDecided
    <3>8. around # {} /\ given = MostAround(c)
      BY <1>1, <2>2
    <3>9. /\ \A n \in around : result[n] \in Nat /\ clusterSize[result[n]] \in Nat
      BY <3>4
    <3>10. /\ \E n \in around : given = result[n]
           /\ \A o \in around :
                Cardinality({n \in around : result[n] = result[o]})
                    = Cardinality({n \in around : result[n] = given})
                  => \/ clusterSize[given] < clusterSize[result[o]]
                     \/ clusterSize[given] = clusterSize[result[o]] /\ given <= result[o]
      BY <3>8, <3>9, MostAroundIs
    <3> HIDE DEF around
    <3>11. given \in 1 .. clusterId /\ Held(c, given) # {}
      BY <3>4, <3>6, <3>10
    <3>12. PICK o \in around : result[o] = id
      <4>1. Held(c, given) \in SUBSET Cell /\ Held(c, id) \in SUBSET Cell
        BY DEF Held
      <4>2. Cardinality(Held(c, given)) # 0
        BY <3>11, <4>1, CellsFinite, FS_Subset, FS_EmptySet
      <4>3. Held(c, id) # {}
        BY <4>2, FS_EmptySet
      <4> QED  BY <3>6, <4>3
    <3>13. /\ Held(c, id) = {n \in around : result[n] = result[o]}
           /\ Held(c, given) = {n \in around : result[n] = given}
      BY <3>6, <3>12
    <3>14. \/ clusterSize[given] < clusterSize[id]
           \/ clusterSize[given] = clusterSize[id] /\ given <= id
      BY <3>10, <3>12, <3>13
    <3> QED  BY <3>7, <3>11, <3>14
  <2> QED  BY <2>1, <2>2
<1> QED  BY <1>3, <1>4, <1>7, <1>8 DEF TieInv

LEMMA TieInvInit == ObstacleInit => TieInv
BY DEF ObstacleInit, TieInv

LEMMA TieInvNext == ObstacleInv /\ TieInv /\ [ObstacleNext]_obstacleVars => TieInv'
<1> SUFFICES ASSUME ObstacleInv, TieInv, [ObstacleNext]_obstacleVars PROVE TieInv'
  OBVIOUS
<1>1. CASE BeginCluster \/ PassOver \/ TakeCell \/ TryNeighbour \/ EndCluster
  <2>1. stage \in {"plain", "fuzzy"} /\ UNCHANGED <<call, stage, clusterSize>>
    BY <1>1 DEF BeginCluster, PassOver, TakeCell, TryNeighbour, EndCluster, ObstacleInv,
                ObstacleTypes, Searching
  <2> QED  BY <2>1 DEF TieInv
<1>2. CASE StartAssigning
  <2>1. /\ UNCHANGED <<call, clusterSize, result>> /\ stage = "plain" /\ stage' = "assign"
        /\ cursor' = FirstCell
    BY <1>2 DEF StartAssigning
  <2>2. \A c \in Cell : ~Before(c, cursor')
    BY <2>1, NoneBeforeFirst
  <2>3. \A id : TakenBefore(cursor, id)' = 0
    <3> SUFFICES ASSUME NEW id PROVE TakenBefore(cursor, id)' = 0
      OBVIOUS
    <3> DEFINE taken == {d \in Cell : /\ Before(d, cursor') /\ result'[d] = id
                                      /\ IsPositive(call.items, d)' /\ call'.obstacle[d] = 1}
    <3>1. taken = {}
      BY <2>2
    <3>2. TakenBefore(cursor, id)' = Cardinality(taken)
      BY DEF TakenBefore
    <3> QED  BY <3>1, <3>2, FS_EmptySet
  <2> QED  BY <2>1, <2>2, <2>3 DEF TieInv
<1>3. CASE AssignCell
  <2>1. CASE call.op = "obstacles"
    BY <1>3, <2>1, AssignCellTies
  <2>2. CASE call.op # "obstacles"
    BY <1>3, <2>2 DEF AssignCell, TieInv
  <2> QED  BY <2>1, <2>2
<1>4. CASE StartFuzzy
  BY <1>4 DEF StartFuzzy, TieInv
<1>5. CASE ReturnResult
  <2>1. /\ UNCHANGED <<call, cursor, clusterId, clusterSize, backgroundId, result>>
        /\ stage' = "returned" /\ PastEnd(cursor)
        /\ call.op = "obstacles" => stage = "assign"
    BY <1>5 DEF ReturnResult
  <2>2. \A c \in Cell : Before(c, cursor)
    BY <2>1, GridAssumption DEF PastEnd, Before, Cell
  <2>3. \A c \in Cell : /\ UnderObstacle(c)' <=> UnderObstacle(c)
                        /\ TiesDecided(c) => TiesDecided(c)'
    BY <2>1, TiesSteady DEF UnderObstacle, IsPositive
  <2> QED  BY <2>1, <2>2, <2>3 DEF TieInv
<1>6. CASE UNCHANGED obstacleVars
  <2>1. UNCHANGED <<call, stage, cursor, clusterId, clusterSize, backgroundId, result>>
    BY <1>6 DEF obstacleVars
  <2>2. \A c \in Cell : /\ UnderObstacle(c)' <=> UnderObstacle(c)
                        /\ TiesDecided(c) => TiesDecided(c)'
    BY <2>1, TiesSteady DEF UnderObstacle, IsPositive
  <2>3. \A id : TakenBefore(cursor, id)' = TakenBefore(cursor, id)
    BY <2>1 DEF TakenBefore, IsPositive
  <2> QED  BY <2>1, <2>2, <2>3 DEF TieInv
<1> QED  BY <1>1, <1>2, <1>3, <1>4, <1>5, <1>6 DEF ObstacleNext

(* For every raster, obstacle map and grid: a cell under an obstacle gets  *)
(* an id that no other id around it outnumbers, whatever was given to the  *)
(* cells under obstacles before it; of equal ones the id that took fewest  *)
(* of those, then the least.  No id is beyond the vector of cluster sizes. *)
THEOREM ObstacleCellsJoinMost == ObstacleSpec => []ObstacleCellsJoin
<1>1. ObstacleInv /\ TieInv => ObstacleCellsJoin
  <2> SUFFICES ASSUME ObstacleInv, TieInv, stage = "returned", call.op = "obstacles",
                      NEW c \in Cell, IsPositive(call.items, c), call.obstacle[c] = 1
               PROVE  LET held(id) == Cardinality({n \in Cell : /\ Straight(c, n) \/ Diagonal(c, n)
                                                                /\ Open(n) /\ result[n] = id})
                      IN  /\ result[c] \in DOMAIN clusterSize
                          /\ result[c] = 0 <=> \A id \in 1 .. clusterId : held(id) = 0
                          /\ \A id \in 1 .. clusterId : held(id) <= held(result[c]) \/ result[c] = 0
                          /\ \A id \in 1 .. clusterId : result[c] # 0 /\ held(id) = held(result[c]) =>
                               \/ TakenBefore(c, result[c]) < TakenBefore(c, id)
                               \/ TakenBefore(c, result[c]) = TakenBefore(c, id) /\ result[c] <= id
    BY DEF ObstacleCellsJoin
  <2>1. JoinsMost(c)
    BY DEF ObstacleInv, SettledInv
  <2>2. TiesDecided(c)
    BY DEF TieInv, UnderObstacle
  <2> QED  BY <2>1, <2>2, Zenon DEF JoinsMost, TiesDecided, Held
<1>2. ObstacleInit => ObstacleInv /\ TieInv
  BY ObstacleInitInv, TieInvInit
<1>3. ObstacleInv /\ TieInv /\ [ObstacleNext]_obstacleVars => (ObstacleInv /\ TieInv)'
  BY ObstacleInvNext, TieInvNext
<1> QED  BY <1>1, <1>2, <1>3, PTL DEF ObstacleSpec
=============================================================================
