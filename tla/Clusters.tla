------------------------------ MODULE Clusters ------------------------------
(***************************************************************************)
(* cluster_id, cluster_size and cluster_sum: label the groups of adjacent  *)
(* cells that hold the same positive value.  The three functions share one *)
(* breadth-first search and differ in what they write per cluster and in   *)
(* when a cell's mark becomes Done.                                        *)
(***************************************************************************)
EXTENDS ClusterSearch, FiniteSets, Functions

CONSTANTS Rasters,     \* the input rasters: Cell -> Int or NoData
          ValueToSum   \* the second argument of cluster_sum: Cell -> Int

ASSUME ClustersAssumption ==
  /\ NoData \notin Int
  /\ Unset \notin Int
  /\ Rasters \subseteq [Cell -> Int \cup {NoData}]
  /\ ValueToSum \in [Cell -> Int]

Operations == {"cluster_id", "cluster_size", "cluster_sum"}

VARIABLES op, ras, diagonals,   \* the call: which function, its arguments
          pc,                   \* "scan", "grow" or "returned"
          clusterCells,
          sum, summed           \* the total and how many cells went into it

input == <<op, ras, diagonals>>
search == <<cell, neighbours, mark, border, clusterCells, sum, summed, thrown>>
vars == <<input, search, pc, cursor, clusterId, result>>

\* Mutants: the argument diagonals is ignored.
VisitedStraight(c) == StraightNeighbours(c)
VisitedAll(c) == StraightNeighbours(c) \o DiagNeighbours(c)

Visited(c) == StraightNeighbours(c)
                \o IF diagonals = "Include" THEN DiagNeighbours(c) ELSE <<>>

Init ==
  /\ op \in Operations
  /\ ras \in Rasters
  /\ diagonals \in {"Include", "Exclude"}
  /\ pc = "scan"
  /\ cursor = FirstCell
  /\ neighbours = <<>>
  /\ mark = [c \in Cell |-> Todo]
  /\ clusterCells = <<>>
  /\ clusterId = 0
  /\ sum = 0 /\ summed = 0
  /\ result = [c \in Cell |-> IF op = "cluster_id" THEN Unset ELSE 0]
  /\ Fifo!Init

(* One iteration of the scanning loops that starts no cluster: nodata and  *)
(* zero are copied, a negative or already clustered cell is passed over.   *)
Scan ==
  /\ pc = "scan" /\ ~PastEnd(cursor)
  /\ \/ /\ ras[cursor] = NoData
        /\ result' = [result EXCEPT ![cursor] = NoData]
     \/ /\ ras[cursor] = 0
        /\ result' = [result EXCEPT ![cursor] = 0]
     \/ /\ ras[cursor] \in Int /\ ras[cursor] # 0
        /\ ras[cursor] < 0 \/ mark[cursor] # Todo
        /\ UNCHANGED result
  /\ cursor' = NextCell(cursor)
  /\ UNCHANGED <<input, search, pc, clusterId>>

(* border.clear(), then insert_cell into the now empty border. *)
StartCluster ==
  /\ pc = "scan" /\ ~PastEnd(cursor)
  /\ ras[cursor] \in Int /\ ras[cursor] > 0
  /\ mark[cursor] = Todo
  /\ clusterId' = clusterId + 1
  /\ sum' = 0 /\ summed' = 0
  /\ mark' = [mark EXCEPT ![cursor] = InBorder]
  /\ border' = <<cursor>>
  /\ clusterCells' = <<cursor>>
  /\ pc' = "grow"
  /\ UNCHANGED <<input, cursor, cell, neighbours, result, thrown>>

(* while (!border.empty()): take a cell off the border. *)
Pop ==
  /\ pc = "grow" /\ neighbours = <<>> /\ ~thrown
  /\ Fifo!PopHead
  /\ neighbours' = Visited(cell')
  /\ sum' = IF op = "cluster_size" THEN sum + 1 ELSE sum
  /\ mark' = IF op = "cluster_id" THEN mark ELSE [mark EXCEPT ![cell'] = Done]
  /\ UNCHANGED <<input, pc, cursor, clusterCells, clusterId, summed, result>>

(* handle_cell: the callback for one neighbour of the cell. *)
HandleCell ==
  /\ pc = "grow" /\ neighbours # <<>> /\ ~thrown
  /\ neighbours' = Tail(neighbours)
  /\ LET n == Head(neighbours)
     IN  IF ras[n] = ras[cursor] /\ mark[n] = Todo
           THEN /\ mark' = [mark EXCEPT ![n] = InBorder]
                /\ Fifo!PushBack(n)
                /\ clusterCells' = IF Fifo!HasRoom THEN Append(clusterCells, n)
                                   ELSE clusterCells
           ELSE UNCHANGED <<mark, border, cell, thrown, clusterCells>>
  /\ UNCHANGED <<input, pc, cursor, clusterId, sum, summed, result>>

SearchOver == pc = "grow" /\ neighbours = <<>> /\ border = <<>> /\ ~thrown

(* cluster_sum: the loop over clusterCells that adds up the second raster. *)
AddValue ==
  /\ SearchOver
  /\ op = "cluster_sum" /\ summed < Len(clusterCells)
  /\ summed' = summed + 1
  /\ sum' = sum + ValueToSum[clusterCells[summed']]
  /\ UNCHANGED <<input, pc, cursor, cell, neighbours, mark, border, clusterCells,
                 clusterId, result, thrown>>

\* Mutant: the id after the next increment.
ClusterValueOffByOne == IF op = "cluster_id" THEN clusterId + 1 ELSE sum

ClusterValue == IF op = "cluster_id" THEN clusterId ELSE sum

(* The last loop over clusterCells writes the result. *)
FinishCluster ==
  /\ SearchOver
  /\ op = "cluster_sum" => summed = Len(clusterCells)
  /\ LET members == Range(clusterCells)
     IN  /\ result' = [c \in Cell |-> IF c \in members THEN ClusterValue ELSE result[c]]
         /\ mark' = [c \in Cell |-> IF c \in members THEN Done ELSE mark[c]]
  /\ pc' = "scan"
  /\ cursor' = NextCell(cursor)
  /\ UNCHANGED <<input, cell, neighbours, border, clusterCells, clusterId, sum,
                 summed, thrown>>

Return ==
  /\ pc = "scan" /\ PastEnd(cursor)
  /\ pc' = "returned"
  /\ UNCHANGED <<input, search, cursor, clusterId, result>>

Next ==
  \/ Scan \/ StartCluster \/ Pop \/ HandleCell
  \/ AddValue \/ FinishCluster \/ Return

(* One thread runs the function to its end. *)
Spec == Init /\ [][Next]_vars /\ WF_vars(Next)

-----------------------------------------------------------------------------
(* Properties                                                              *)

(* The types of the variables.                                            *)
TypeOK ==
  /\ op \in Operations
  /\ ras \in [Cell -> Int \cup {NoData}]
  /\ diagonals \in {"Include", "Exclude"}
  /\ pc \in {"scan", "grow", "returned"}
  /\ cursor \in (0 .. Rows) \X (0 .. Cols - 1)
  /\ pc = "grow" => cursor \in Cell
  /\ cell \in Cell
  /\ neighbours \in Seq(Cell)
  /\ mark \in [Cell -> {Todo, InBorder, Done}]
  /\ border \in Seq(Cell)
  /\ clusterCells \in Seq(Cell)
  /\ clusterId \in Nat
  /\ sum \in Int
  /\ summed \in 0 .. Len(clusterCells)
  /\ result \in [Cell -> Int \cup {NoData, Unset}]
  /\ thrown \in BOOLEAN

Positive(c) == ras[c] \in Int /\ ras[c] > 0

Adjacent(a, b) == Straight(a, b) \/ (diagonals = "Include" /\ Diagonal(a, b))

(* a and b belong to one cluster by a single step. *)
Linked(a, b) == Adjacent(a, b) /\ ras[a] = ras[b]

(* The border never overflows: the capacity Rows * Cols suffices because   *)
(* no cell enters the border twice (clusterutils.h:59-61).                 *)
NoOverflow == ~thrown

(* Two adjacent cells with the same positive value get the same label, no  *)
(* matter from which side and through which detour the search came; this   *)
(* is what would break if a cluster were started twice or left early.      *)
AdjacentAlike ==
  pc = "returned" =>
    \A a, b \in Cell : Positive(a) /\ Linked(a, b) => result[a] = result[b]

(* Cells with the same id are joined by a chain of equal adjacent cells:   *)
(* every part of a cluster has a link to the rest of it (cluster_id).      *)
ClustersConnected ==
  pc = "returned" /\ op = "cluster_id" =>
    \A id \in 1 .. clusterId :
      LET members == {c \in Cell : Positive(c) /\ result[c] = id}
      IN  \A part \in SUBSET members :
            \/ part \in {{}, members}
            \/ \E a \in part, b \in members \ part : Linked(a, b)

(* The cells reachable from c within Rows * Cols steps: all of its cluster. *)
Component(c) ==
  LET reach[n \in 0 .. Rows * Cols] ==
        IF n = 0 THEN {c}
        ELSE UNION {{a} \cup {b \in Cell : Linked(a, b)} : a \in reach[n - 1]}
  IN  reach[Rows * Cols]

(* cluster_size and cluster_sum write in every cell of a cluster the exact *)
(* count, or the sum of the second raster, over the whole cluster: every   *)
(* cell is counted once although it is reachable from several sides.       *)
TotalsExact ==
  pc = "returned" =>
    \A c \in Cell : Positive(c) =>
      /\ op = "cluster_size" => result[c] = Cardinality(Component(c))
      /\ op = "cluster_sum" => result[c] = SumFunctionOnSet(ValueToSum, Component(c))

(* Ids are handed out without gaps, in the order in which the row-major    *)
(* scan meets the first cell of each cluster; nodata and zero are kept.    *)
IdsInScanOrder ==
  pc = "returned" /\ op = "cluster_id" =>
    /\ {result[c] : c \in {c \in Cell : Positive(c)}} = 1 .. clusterId
    /\ \A a \in Cell : Positive(a) /\ result[a] > 1 =>
         \E b \in Cell : Before(b, a) /\ Positive(b) /\ result[b] = result[a] - 1
    /\ \A c \in Cell : ras[c] \in {0, NoData} => result[c] = ras[c]

(* What the three functions return is what their clusters define           *)
(* (clusterid.h:13-77, clustersize.h:20-149).                              *)
ResultsExact == ClustersConnected /\ TotalsExact /\ IdsInScanOrder

(* The search comes to an end on every raster, because no cell re-enters   *)
(* the border.                                                             *)
Termination == <>(pc = "returned")
=============================================================================
