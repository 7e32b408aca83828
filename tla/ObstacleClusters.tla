--------------------------- MODULE ObstacleClusters ---------------------------
(***************************************************************************)
(* The cluster functions of clusterid.h beside cluster_id:                 *)
(*                                                                         *)
(* - cluster_id_with_obstacles ("obstacles"): clusters of equal cells that *)
(*   are separated by obstacles; then each cell under an obstacle is given *)
(*   to the cluster with most cells around it;                             *)
(* - fuzzy_cluster_id ("fuzzy"): cells within a radius belong together;    *)
(* - fuzzy_cluster_id_with_obstacles ("fuzzy_obstacles"): runs the first   *)
(*   one over a raster of ones, which finds the areas that obstacles       *)
(*   separate, then joins equal cells of one area within the radius, if    *)
(*   no obstacle is on the line between them.                              *)
(*                                                                         *)
(* What is stored for nodata is taken to be a number of its own, and not   *)
(* zero.                                                                   *)
(***************************************************************************)
EXTENDS ClusterSearch, FiniteSets, SequencesExt

CONSTANT Calls

ObstacleOperations == {"obstacles", "fuzzy", "fuzzy_obstacles"}

\* items is catMap or ras; radius2 is the radius in cells, squared
CallType == [op : ObstacleOperations, items : [Cell -> Int \cup {NoData}],
             obstacle : [Cell -> {0, 1, NoData}], radius2 : Nat]

ASSUME ObstacleClustersAssumption ==
  /\ NoData \notin Int /\ Unset \notin Nat \cup {NoData}
  /\ Calls \subseteq CallType

VARIABLES call,
          stage,         \* "plain", "assign", "fuzzy" or "returned"
          growing,       \* a cluster is searched for from the cursor
          clusterSize, backgroundId

obstacleSearch == <<growing, cell, neighbours, mark, border, thrown>>
obstacleVars == <<call, stage, cursor, obstacleSearch, clusterId, clusterSize, backgroundId, result>>

\* The background of "fuzzy_obstacles" is made of ones.
catMap == IF call.op = "fuzzy_obstacles" THEN [c \in Cell |-> 1] ELSE call.items

IsPositive(f, c) == f[c] \in Int /\ f[c] > 0

Obstacle(c) == call.obstacle[c] # 0

(* fuzzy_cluster_id has a loop of its own for zeros and nodata.            *)
ObstacleInit ==
  /\ call \in Calls
  /\ stage = IF call.op = "fuzzy" THEN "fuzzy" ELSE "plain"
  /\ cursor = FirstCell
  /\ growing = FALSE /\ neighbours = <<>>
  /\ mark = [c \in Cell |-> IF call.op = "fuzzy" /\ ~IsPositive(call.items, c)
                              THEN Done ELSE Todo]
  /\ clusterId = 0
  /\ clusterSize = [id \in 0 .. Rows * Cols - 1 |-> 0]
  /\ backgroundId = [c \in Cell |-> 0]
  /\ result = [c \in Cell |->
                 IF call.op # "fuzzy" THEN Unset
                 ELSE IF call.items[c] = NoData THEN NoData ELSE 0]
  /\ Fifo!Init

-----------------------------------------------------------------------------
(* What belongs together                                                   *)

(* is_blocked, and the tests of the handlers of cluster_id_with_obstacles. *)
Blocked(from, to) ==
  \/ Obstacle(to)
  \/ /\ Diagonal(from, to)
     /\ Obstacle(<<from[1], to[2]>>) /\ Obstacle(<<to[1], from[2]>>)

(* is_blocked_path goes diagonally as long as both coordinates differ.     *)
Toward(a, b, steps) ==
  IF b - a > steps THEN a + steps ELSE IF a - b > steps THEN a - steps ELSE b

OnPath(from, to, steps) ==
  <<Toward(from[1], to[1], steps), Toward(from[2], to[2], steps)>>

BlockedPath(from, to) ==
  \E k \in 0 .. Rows + Cols :
    /\ OnPath(from, to, k) # to
    /\ Blocked(OnPath(from, to, k), OnPath(from, to, k + 1))

Near(a, b) ==
  (a[1] - b[1]) * (a[1] - b[1]) + (a[2] - b[2]) * (a[2] - b[2]) <= call.radius2

(* A search that has come to a goes on to b, among the cells it visits     *)
(* from there, if b is still to be done.                                   *)
Joins(a, b) ==
  IF stage = "plain" THEN catMap[b] = catMap[a] /\ ~Blocked(a, b)
  ELSE call.op = "fuzzy_obstacles" =>
         /\ call.items[b] = call.items[a]
         /\ backgroundId[b] = backgroundId[a]
         /\ ~BlockedPath(a, b)

(* Some cells in the order of two nested loops.                            *)
InOrder(S) ==
  FoldLeft(LAMBDA seen, c : IF c \in S THEN Append(seen, c) ELSE seen, <<>>,
           [i \in 1 .. Rows * Cols |-> <<(i - 1) \div Cols, (i - 1) % Cols>>])

\* Mutant: the square instead of the circle within it.
VisitedSquare(c) ==
  IF stage = "plain" THEN StraightNeighbours(c) \o DiagNeighbours(c)
  ELSE InOrder({n \in Cell : Near(c, <<n[1], c[2]>>) /\ Near(c, <<c[1], n[2]>>)})

VisitedFrom(c) ==
  IF stage = "plain" THEN StraightNeighbours(c) \o DiagNeighbours(c)
  ELSE InOrder({n \in Cell : Near(c, n)})

-----------------------------------------------------------------------------
(* The search for the cells of a cluster                                   *)

\* Mutant: a cell that is in a cluster starts another one.
StartsAgain(c) ==
  IF stage = "plain" THEN IsPositive(catMap, c) /\ call.obstacle[c] = 0
  ELSE IsPositive(call.items, c) /\ (call.op = "fuzzy_obstacles" => ~Obstacle(c))

Starts(c) ==
  /\ mark[c] = Todo
  /\ IF stage = "plain"
       THEN IsPositive(catMap, c) /\ call.obstacle[c] = 0
       ELSE /\ IsPositive(call.items, c)
            /\ call.op = "fuzzy_obstacles" => ~Obstacle(c)

BeginCluster ==
  /\ stage \in {"plain", "fuzzy"} /\ ~growing /\ ~PastEnd(cursor) /\ Starts(cursor)
  /\ growing' = TRUE
  /\ clusterId' = clusterId + 1
  /\ mark' = [mark EXCEPT ![cursor] = InBorder]
  /\ border' = <<cursor>>
  /\ UNCHANGED <<call, stage, cursor, cell, neighbours, thrown, clusterSize,
                 backgroundId, result>>

(* A cell under an obstacle is a fuzzy cluster of its own.                 *)
ClusterUnderObstacle(c) ==
  /\ stage = "fuzzy" /\ call.op = "fuzzy_obstacles"
  /\ mark[c] = Todo /\ IsPositive(call.items, c) /\ Obstacle(c)

PassOver ==
  /\ stage \in {"plain", "fuzzy"} /\ ~growing /\ ~PastEnd(cursor) /\ ~Starts(cursor)
  /\ cursor' = NextCell(cursor)
  /\ IF ClusterUnderObstacle(cursor) THEN
       /\ clusterId' = clusterId + 1
       /\ mark' = [mark EXCEPT ![cursor] = Done]
       /\ result' = [result EXCEPT ![cursor] = clusterId']
     ELSE IF stage = "fuzzy" /\ call.items[cursor] = NoData THEN
       /\ mark' = [mark EXCEPT ![cursor] = Done]
       /\ result' = [result EXCEPT ![cursor] = NoData]
       /\ UNCHANGED clusterId
     ELSE UNCHANGED <<clusterId, mark, result>>
  /\ UNCHANGED <<call, stage, growing, cell, neighbours, border, thrown,
                 clusterSize, backgroundId>>

TakeCell ==
  /\ growing /\ neighbours = <<>> /\ ~thrown
  /\ Fifo!PopHead
  /\ neighbours' = VisitedFrom(cell')
  /\ mark' = [mark EXCEPT ![cell'] = Done]
  /\ result' = [result EXCEPT ![cell'] = clusterId]
  /\ UNCHANGED <<call, stage, cursor, growing, clusterId, clusterSize, backgroundId>>

TryNeighbour ==
  /\ growing /\ neighbours # <<>> /\ ~thrown
  /\ neighbours' = Tail(neighbours)
  /\ LET n == Head(neighbours)
     IN  IF mark[n] = Todo /\ Joins(cell, n)
           THEN mark' = [mark EXCEPT ![n] = InBorder] /\ Fifo!PushBack(n)
           ELSE UNCHANGED <<mark, border, thrown, cell>>
  /\ UNCHANGED <<call, stage, cursor, growing, clusterId, clusterSize, backgroundId,
                 result>>

EndCluster ==
  /\ growing /\ neighbours = <<>> /\ border = <<>> /\ ~thrown
  /\ growing' = FALSE /\ cursor' = NextCell(cursor)
  /\ UNCHANGED <<call, stage, cell, neighbours, mark, border, thrown, clusterId,
                 clusterSize, backgroundId, result>>

-----------------------------------------------------------------------------
(* Cells under obstacles                                                   *)

StartAssigning ==
  /\ stage = "plain" /\ ~growing /\ PastEnd(cursor)
  /\ stage' = "assign" /\ cursor' = FirstCell
  /\ UNCHANGED <<call, obstacleSearch, clusterId, clusterSize, backgroundId, result>>

(* The cells around c that are in a cluster and not under an obstacle.     *)
ClusterCellsAround(c) ==
  {n \in Cell : /\ Straight(c, n) \/ Diagonal(c, n) \/ n = c
                /\ call.obstacle[n] \in {NoData, 0}
                /\ result[n] \in Nat \ {0}}

countNeighbors(c) ==
  [id \in {result[n] : n \in ClusterCellsAround(c)} |->
     Cardinality({n \in ClusterCellsAround(c) : result[n] = id})]

\* Mutant: of equal clusters the first is taken, whatever they took before.
FirstOfMost(c) ==
  LET count == countNeighbors(c)
      most == {id \in DOMAIN count : \A other \in DOMAIN count : count[other] <= count[id]}
  IN  CHOOSE id \in most : \A other \in most : id <= other

(* The loop over countNeighbors: most neighbours, then the least           *)
(* clusterSize, then the least id.                                         *)
MostAround(c) ==
  LET count == countNeighbors(c)
      most == {id \in DOMAIN count : \A other \in DOMAIN count : count[other] <= count[id]}
      least == {id \in most : \A other \in most : clusterSize[id] <= clusterSize[other]}
  IN  CHOOSE id \in least : \A other \in least : id <= other

(* compute_cluster_id_of_obstacle_cell *)
AssignCell ==
  /\ stage = "assign" /\ ~PastEnd(cursor)
  /\ cursor' = NextCell(cursor)
  /\ IF IsPositive(catMap, cursor) /\ call.obstacle[cursor] = 1 THEN
       IF ClusterCellsAround(cursor) # {} THEN
         /\ result' = [result EXCEPT ![cursor] = MostAround(cursor)]
         /\ clusterSize' = [clusterSize EXCEPT ![result'[cursor]] = @ + 1]
       ELSE
         /\ result' = [result EXCEPT ![cursor] = 0]
         /\ UNCHANGED clusterSize
     ELSE UNCHANGED <<result, clusterSize>>
  /\ UNCHANGED <<call, stage, obstacleSearch, clusterId, backgroundId>>

(* The result is the background of the fuzzy clusters, or is returned.     *)
StartFuzzy ==
  /\ stage = "assign" /\ PastEnd(cursor) /\ call.op = "fuzzy_obstacles"
  /\ stage' = "fuzzy" /\ cursor' = FirstCell
  /\ backgroundId' = result
  /\ result' = [c \in Cell |-> Unset]
  /\ mark' = [c \in Cell |-> Todo]
  /\ clusterId' = 0
  /\ UNCHANGED <<call, growing, cell, neighbours, border, thrown, clusterSize>>

ReturnResult ==
  /\ ~growing /\ PastEnd(cursor)
  /\ stage = IF call.op = "obstacles" THEN "assign" ELSE "fuzzy"
  /\ stage' = "returned"
  /\ UNCHANGED <<call, cursor, obstacleSearch, clusterId, clusterSize, backgroundId, result>>

ObstacleNext == \/ BeginCluster \/ PassOver \/ TakeCell \/ TryNeighbour \/ EndCluster
        \/ StartAssigning \/ AssignCell \/ StartFuzzy \/ ReturnResult

ObstacleSpec == ObstacleInit /\ [][ObstacleNext]_obstacleVars

-----------------------------------------------------------------------------
(* Properties                                                              *)

\* The cells that become clusters by a search.
Open(c) ==
  IsPositive(call.items, c) /\ (call.op # "fuzzy" => call.obstacle[c] = 0)

(* What the functions promise to put together: from a one gets to b.       *)
Together(a, b) ==
  CASE call.op = "fuzzy" -> Near(a, b)
    [] call.op = "obstacles" -> /\ Straight(a, b) \/ Diagonal(a, b)
                                /\ call.items[a] = call.items[b]
                                /\ ~Blocked(a, b)
    [] call.op = "fuzzy_obstacles" -> /\ Near(a, b)
                                      /\ call.items[a] = call.items[b]
                                      /\ backgroundId[a] = backgroundId[b]
                                      /\ ~BlockedPath(a, b)

(* What belongs together gets one id, found from whichever side.  A line   *)
(* between two cells can be blocked one way and free the other (the        *)
(* diagonal part comes first), so that the search from one cell finds the  *)
(* other but not the reverse: the cluster found first must have taken all  *)
(* that can be reached from it (clusterid.h:380).                          *)
NoneLeftOut ==
  /\ ~thrown
  /\ stage = "returned" =>
       \A a, b \in Cell : Open(a) /\ Open(b) /\ Together(a, b) => result[b] <= result[a]

(* All cells of a cluster can be reached from its first one in steps that  *)
(* stay in it: no obstacle, value or distance separates them.              *)
ReachedInside(first) ==
  LET members == {c \in Cell : Open(c) /\ result[c] = result[first]}
      reach[n \in 0 .. Rows * Cols] ==
        IF n = 0 THEN {first}
        ELSE LET before == reach[n - 1]
             IN  before \cup {c \in members : \E a \in before : Together(a, c)}
  IN  reach[Rows * Cols]

ClustersReached ==
  stage = "returned" =>
    \A c \in Cell : Open(c) =>
      LET members == {m \in Cell : Open(m) /\ result[m] = result[c]}
          first == CHOOSE f \in members : \A m \in members \ {f} : Before(f, m)
      IN  c \in ReachedInside(first)

(* A cluster is what belongs together and nothing else (clusterid.h:79-434).*)
ClustersExact == NoneLeftOut /\ ClustersReached

(* How many cells under obstacles were given to id before the loop came to *)
(* c.  Those are all that clusterSize counts: not the cells of the cluster *)
(* itself.                                                                 *)
TakenBefore(c, id) ==
  Cardinality({d \in Cell : /\ Before(d, c) /\ result[d] = id
                            /\ IsPositive(call.items, d) /\ call.obstacle[d] = 1})

(* A cell under an obstacle goes to a cluster that has most cells around   *)
(* it, those not counted that were under obstacles themselves; of equal    *)
(* ones to that which took fewest such cells before, then to the one with  *)
(* the least id: so the order of the scan decides (clusterid.h:193).  No   *)
(* id is beyond the vector of cluster sizes.                               *)
ObstacleCellsJoin ==
  stage = "returned" /\ call.op = "obstacles" =>
    \A c \in Cell : IsPositive(call.items, c) /\ call.obstacle[c] = 1 =>
      LET held(id) == Cardinality({n \in Cell : /\ Straight(c, n) \/ Diagonal(c, n)
                                               /\ Open(n) /\ result[n] = id})
      IN  /\ result[c] \in DOMAIN clusterSize
          /\ result[c] = 0 <=> \A id \in 1 .. clusterId : held(id) = 0
          /\ \A id \in 1 .. clusterId : held(id) <= held(result[c]) \/ result[c] = 0
          /\ \A id \in 1 .. clusterId : result[c] # 0 /\ held(id) = held(result[c]) =>
               \/ TakenBefore(c, result[c]) < TakenBefore(c, id)
               \/ TakenBefore(c, result[c]) = TakenBefore(c, id) /\ result[c] <= id
=============================================================================
