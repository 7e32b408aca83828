----------------------------- MODULE LoopProofs -----------------------------
(***************************************************************************)
(* Loops over the cells of a raster that say themselves which cell is next *)
(* and when they are done, for rasters of every size.                      *)
(*                                                                         *)
(* validate_ldd, whose rows are shared out among threads: for every map,   *)
(* number of threads and schedule the types are kept, the verdict is what  *)
(* the map says, every fault at the end of a flow is reported, and no loop *)
(* is reported twice.                                                      *)
(*                                                                         *)
(* The iterator over a window never leaves it, for every window, wherever  *)
(* it is cut off, and every set of nodata, and visits what was promised.   *)
(* The argument: a window that is not clipped away lies inside the raster, *)
(* and the pointer is a row and a column of the window, the column being   *)
(* the counted one if the window is narrower than the raster.              *)
(*                                                                         *)
(* The filters over windows compute what their names say, of every image.  *)
(* The argument: a sum is a sum over a set of cells, an element of the     *)
(* integral image is that of a rectangle, a circle that moves gains and    *)
(* loses its borders, and a loop is a fold whose states are followed one   *)
(* after the other.                                                        *)
(***************************************************************************)
EXTENDS LddValidate, WindowFilters, GridProofs, SequenceTheorems

(* Where a flow stands that has met no fault so far.                       *)
SoundSoFar(map, start, seen, c) ==
  /\ OnTheWay(map, start, seen, c)
  /\ seen = Passed(map, start, Cardinality(seen))
  /\ \A m \in 0 .. Cardinality(seen) - 1 :
       \A b \in Course(map, start)[m] : FaultAt(map, b, Passed(map, start, m)) = {}

Reported == BagToSet(reports) \cup {<<"loop", d>> : d \in loops}

(* What a thread stands at.                                                *)
WalkInv ==
  \A t \in Threads :
    /\ pc[t] \notin {"scan", "returned"} => cursor[t] \in Sources
    /\ pc[t] = "flow" => SoundSoFar(ldd, cursor[t], traversedCells[t], curCell[t])
    /\ pc[t] = "returned" => PastEnd(cursor[t])

(* A thread that has something to report has found it at the end of its    *)
(* flow, and holds the mutex when it is a loop.                            *)
FaultInv ==
  \A t \in Threads :
    /\ pc[t] \in {"lock", "call", "callback"} =>
         callbacks /\ valid = FALSE /\ FaultOf(ldd, cursor[t]) = {fault[t]}
    /\ pc[t] = "lock" => fault[t][1] = "loop"
    /\ pc[t] = "callback" => fault[t] \in BagToSet(reports)
    /\ pc[t] \in {"call", "callback"} /\ fault[t][1] = "loop" =>
         mutex = t /\ fault[t][2] \in loops

(* Nothing a thread has left behind is lost.                               *)
DoneInv ==
  \A t \in Threads : Defined =>
    \A c \in Sources : c[1] \in rowsOf[t] /\ Before(c, cursor[t]) =>
      /\ Drains(ldd, c) \/ valid = FALSE
      /\ callbacks => FaultOf(ldd, c) \subseteq Reported

(* The rows are shared out, nobody returns alone, and what is said of the  *)
(* map is so.                                                              *)
TruthInv ==
  /\ \A r \in 0 .. Rows - 1 : \E t \in Threads : r \in rowsOf[t]
  /\ Returned => \A t \in Threads : pc[t] = "returned"
  /\ valid = FALSE => \E c \in Sources : ~Drains(ldd, c)
  /\ BagToSet(reports) \subseteq UNION {FaultOf(ldd, c) : c \in Sources}
  /\ ~callbacks => BagToSet(reports) = {}

(* A loop in the set has been reported, or a thread is about to.           *)
LoopsInv ==
  \A d \in Cell :
    /\ d \notin loops => <<"loop", d>> \notin BagToSet(reports)
    /\ BagIn(<<"loop", d>>, reports) => reports[<<"loop", d>>] = 1
    /\ \A t \in Threads :
         pc[t] = "call" /\ fault[t] = <<"loop", d>> => <<"loop", d>> \notin BagToSet(reports)
    /\ d \in loops => \/ <<"loop", d>> \in BagToSet(reports)
                      \/ \E t \in Threads : pc[t] = "call" /\ fault[t] = <<"loop", d>>

ValidateInv == WalkInv /\ FaultInv /\ DoneInv /\ TruthInv /\ LoopsInv

-----------------------------------------------------------------------------
(* Operators                                                               *)

LEMMA BagAdd ==
  ASSUME NEW B, IsABag(B), NEW x
  PROVE  LET C == B (+) SetToBag({x})
         IN  /\ IsABag(C) /\ BagToSet(C) = BagToSet(B) \cup {x}
             /\ x \notin BagToSet(B) => C[x] = 1
             /\ \A e \in BagToSet(B) \ {x} : C[e] = B[e]
BY DEF IsABag, BagToSet, SetToBag, (+)

(* The cursor a thread moves on to passes none of its rows.                *)
LEMMA MineIsNext ==
  ASSUME rowsOf \in [Threads -> SUBSET (0 .. Rows - 1)],
         NEW t \in Threads, NEW c \in (0 .. Rows) \X (0 .. Cols - 1)
  PROVE  /\ Mine(t, c) \in (0 .. Rows) \X (0 .. Cols - 1)
         /\ \A b \in Cell : b[1] \in rowsOf[t] =>
              (Before(b, Mine(t, c)) <=> Before(b, c))
<1>1. CASE PastEnd(c) \/ c[1] \in rowsOf[t]
  BY <1>1 DEF Mine
<1>2. CASE ~(PastEnd(c) \/ c[1] \in rowsOf[t])
  <2> DEFINE S == {Rows} \cup {r \in rowsOf[t] : r > c[1]}
  <2>1. S \in SUBSET Nat /\ S # {} /\ S \subseteq 0 .. Rows
    BY GridAssumption
  <2>2. Min(S) \in S /\ \A r \in S : Min(S) <= r
    <3> HIDE DEF S
    <3>1. \E k \in S : \A r \in S : k <= r
      BY <2>1, LeastNatural
    <3> QED  BY <3>1 DEF Min
  <2>3. Mine(t, c) = <<Min(S), 0>>
    BY <1>2 DEF Mine
  <2> DEFINE m == Min(S)
  <2>4. m \in 0 .. Rows /\ m > c[1]
    <3>1. c[1] \in 0 .. Rows /\ c[1] # Rows
      BY <1>2 DEF PastEnd
    <3>2. \A r \in S : r > c[1]
      BY <3>1, GridAssumption
    <3> HIDE DEF S
    <3> QED  BY <2>1, <2>2, <3>2
  <2>5. \A r \in rowsOf[t] : r > c[1] => m <= r
    BY <2>2
  <2> HIDE DEF m
  <2>6. Mine(t, c) = <<m, 0>>
    BY <2>3 DEF m
  <2>7. ASSUME NEW b \in Cell, b[1] \in rowsOf[t]
        PROVE  Before(b, <<m, 0>>) <=> Before(b, c)
    <3>1. b[1] # c[1] /\ b[1] \in Int /\ b[2] \in Nat /\ c[1] \in Int
      BY <1>2, <2>7, GridAssumption DEF Cell
    <3> QED  BY <2>4, <2>5, <2>7, <3>1 DEF Before
  <2> QED  BY <2>4, <2>6, <2>7, GridAssumption
<1> QED  BY <1>1, <1>2

(* At most one thing is wrong at a cell; nothing is, in the table of       *)
(* directions, that the border of the map does not hold.                   *)
LEMMA FaultType ==
  ASSUME NEW map, NEW c \in Cell, NEW seen, NEW f \in FaultAt(map, c, seen)
  PROVE  /\ FaultAt(map, c, seen) = {f}
         /\ f \in Kinds \X Around
         /\ f[1] = "loop" => f[2] \in Cell /\ f = <<"loop", f[2]>>
         /\ map.dir[c] # Pit
         /\ seen \subseteq Cell => Onward(map, c) \subseteq seen \cup {c}
<1> DEFINE dir == map.dir[c]
           dest == getNeighbour(dir, c)
<1>1. dir # Pit
  BY DEF FaultAt
<1>2. Cell \subseteq Around
  BY GridAssumption DEF Cell, Around
<1>3. CASE ~InTable(dir)
  BY <1>1, <1>2, <1>3 DEF FaultAt, Kinds, Onward, FlowsInto
<1>4. CASE InTable(dir) /\ dest \notin Cell
  <2>1. dest \in Around
    <3>1. \A k \in 0 .. 9 : lookupOffsets[k] \in (-1 .. 1) \X (-1 .. 1)
      BY DEF lookupOffsets
    <3>2. lookupOffsets[dir] \in (-1 .. 1) \X (-1 .. 1)
      BY <1>4, <3>1 DEF InTable, lookupOffsets
    <3> QED  BY <3>2, GridAssumption DEF getNeighbour, Around, Cell
  <2> QED  BY <1>1, <1>4, <2>1 DEF FaultAt, Kinds, Onward, FlowsInto
<1>5. CASE InTable(dir) /\ dest \in Cell /\ is_nodata(map, dest)
  BY <1>1, <1>2, <1>5 DEF FaultAt, Kinds, Onward, FlowsInto
<1>6. CASE InTable(dir) /\ dest \in Cell /\ ~is_nodata(map, dest)
  <2>1. dest \in seen \cup {c} /\ FaultAt(map, c, seen) = {<<"loop", dest>>}
    BY <1>1, <1>6 DEF FaultAt
  <2>2. f = <<"loop", dest>>
    BY <2>1
  <2> HIDE DEF dest
  <2>3. f \in Kinds \X Around /\ f[2] \in Cell /\ f = <<"loop", f[2]>>
    BY <1>2, <1>6, <2>2 DEF Kinds
  <2>4. Onward(map, c) \subseteq {dest}
    BY DEF Onward, FlowsInto, dest
  <2> QED  BY <1>1, <2>1, <2>3, <2>4
<1> QED  BY <1>3, <1>4, <1>5, <1>6

LEMMA NoFaultGoesOn ==
  ASSUME NEW map, NEW c \in Cell, NEW seen, FaultAt(map, c, seen) = {}, map.dir[c] # Pit
  PROVE  /\ getNeighbour(map.dir[c], c) \in Onward(map, c)
         /\ getNeighbour(map.dir[c], c) \notin seen \cup {c}
BY DEF FaultAt, Onward, FlowsInto

-----------------------------------------------------------------------------
(* Flows and their faults                                                  *)

LEMMA SoundStarts ==
  ASSUME NEW map, NEW start \in Cell
  PROVE  SoundSoFar(map, start, {}, start)
<1>1. Cardinality({}) = 0
  BY FS_EmptySet
<1>2. Passed(map, start, 0) = {}
  BY DEF Passed
<1> QED  BY <1>1, <1>2, WayStarts DEF SoundSoFar

LEMMA PassedNext ==
  ASSUME NEW map, NEW start, NEW n \in Nat
  PROVE  Passed(map, start, n + 1) = Passed(map, start, n) \cup Course(map, start)[n]
<1>1. 0 .. (n + 1) - 1 = (0 .. n - 1) \cup {n}
  OBVIOUS
<1> QED  BY <1>1 DEF Passed

LEMMA SoundGoesOn ==
  ASSUME NEW map, NEW start, NEW seen, NEW c, SoundSoFar(map, start, seen, c),
         map.dir[c] # Pit, FaultAt(map, c, seen) = {}
  PROVE  SoundSoFar(map, start, seen \cup {c}, getNeighbour(map.dir[c], c))
<1> DEFINE to == getNeighbour(map.dir[c], c)
           k == Cardinality(seen)
           at == Course(map, start)
<1>1. /\ OnTheWay(map, start, seen, c) /\ c \in Cell /\ seen \subseteq Cell
      /\ c \notin seen /\ at[k] = {c} /\ seen = Passed(map, start, k)
  BY DEF SoundSoFar, OnTheWay
<1>2. OnTheWay(map, start, seen \cup {c}, to)
  BY <1>1, NoFaultGoesOn, WayGoesOn
<1>3. k \in Nat /\ Cardinality(seen \cup {c}) = k + 1
  <2>1. c \in Cell \ seen
    BY <1>1
  <2>2. Cardinality(seen) + 1 \in 1 .. Rows * Cols
    BY <1>1, <2>1, SeenBound
  <2>3. Cardinality(seen \cup {c}) = Cardinality(seen) + 1
    BY <1>1, <2>1, SeenBound
  <2>4. IsFiniteSet(seen)
    BY <1>1, <2>1, SeenBound
  <2> QED  BY <2>3, <2>4, FS_CardinalityType
<1> HIDE DEF to, at, k
<1>4. seen \cup {c} = Passed(map, start, k + 1)
  BY <1>1, <1>3, PassedNext DEF at
<1>5. ASSUME NEW m \in 0 .. (k + 1) - 1, NEW b \in at[m]
      PROVE  FaultAt(map, b, Passed(map, start, m)) = {}
  <2>1. CASE m = k
    BY <1>1, <1>5, <2>1
  <2>2. CASE m # k
    <3>1. m \in 0 .. k - 1
      BY <1>3, <2>2
    <3> QED  BY <1>5, <3>1 DEF SoundSoFar, k, at
  <2> QED  BY <2>1, <2>2
<1> QED  BY <1>2, <1>3, <1>4, <1>5 DEF SoundSoFar, to, at

(* The least step at which a flow meets a fault.                           *)
FaultySteps(map, start) ==
  {n \in 0 .. Rows * Cols :
     \E c \in Course(map, start)[n] : FaultAt(map, c, Passed(map, start, n)) # {}}

LEMMA SoundUpTo ==
  ASSUME NEW map, NEW start, NEW seen, NEW c, SoundSoFar(map, start, seen, c)
  PROVE  /\ Cardinality(seen) \in 0 .. Rows * Cols
         /\ \A n \in FaultySteps(map, start) : Cardinality(seen) <= n
         /\ Cardinality(seen) \in FaultySteps(map, start) <=> FaultAt(map, c, seen) # {}
<1> DEFINE k == Cardinality(seen)
<1>1. k \in 0 .. Rows * Cols /\ Rows * Cols \in Nat
  <2>1. seen \subseteq Cell /\ c \in Cell \ seen
    BY DEF SoundSoFar, OnTheWay
  <2>2. Cardinality(seen) \in 0 .. Rows * Cols
    BY <2>1, SeenBound
  <2>3. Rows * Cols \in Nat
    BY GridAssumption
  <2> QED  BY <2>2, <2>3
<1>2. Course(map, start)[k] = {c} /\ seen = Passed(map, start, k)
  BY DEF SoundSoFar, OnTheWay
<1> HIDE DEF k
<1>3. ASSUME NEW n \in FaultySteps(map, start), n < k PROVE FALSE
  <2>1. n \in 0 .. k - 1
    BY <1>1, <1>3 DEF FaultySteps
  <2> QED  BY <2>1 DEF SoundSoFar, FaultySteps, k
<1>4. \A n \in FaultySteps(map, start) : n \in Int
  BY <1>1 DEF FaultySteps
<1> QED  BY <1>1, <1>2, <1>3, <1>4 DEF FaultySteps, k

(* The fault a flow meets is the one FaultOf promises for its source.      *)
LEMMA FaultMet ==
  ASSUME NEW map, NEW start, NEW seen, NEW c, SoundSoFar(map, start, seen, c),
         NEW f \in FaultAt(map, c, seen)
  PROVE  FaultOf(map, start) = {f} /\ ~Drains(map, start)
<1> DEFINE k == Cardinality(seen)
           step == FaultySteps(map, start)
<1>1. k \in step /\ \A n \in step : k <= n
  BY SoundUpTo
<1>2. Min(step) = k
  <2>1. \A n \in step : n \in Int
    BY GridAssumption DEF FaultySteps
  <2> HIDE DEF k, step
  <2> QED  BY <1>1, <2>1 DEF Min
<1>3. Course(map, start)[k] = {c} /\ seen = Passed(map, start, k) /\ c \in Cell
  BY DEF SoundSoFar, OnTheWay
<1>4. FaultOf(map, start) = FaultAt(map, c, seen)
  <2>1. step # {} /\ FaultOf(map, start) =
          IF step = {} THEN {}
          ELSE UNION {FaultAt(map, b, Passed(map, start, Min(step))) : b \in Course(map, start)[Min(step)]}
    BY <1>1 DEF FaultOf, FaultySteps
  <2> HIDE DEF step, k
  <2> QED  BY <1>2, <1>3, <2>1
<1>5. OnTheWay(map, start, seen, c)
  BY DEF SoundSoFar
<1>6. map.dir[c] # Pit /\ Onward(map, c) \subseteq seen \cup {c}
  BY <1>3, <1>5, FaultType DEF OnTheWay
<1> QED  BY <1>3, <1>4, <1>5, <1>6, FaultType, WayIsBlocked

(* A flow that comes to a pit gives rise to no report.                     *)
LEMMA NoFaultMet ==
  ASSUME NEW map, NEW start, NEW seen, NEW c, SoundSoFar(map, start, seen, c),
         map.dir[c] = Pit
  PROVE  FaultOf(map, start) = {} /\ Drains(map, start)
<1> DEFINE k == Cardinality(seen)
           N == Rows * Cols
           at == Course(map, start)
           After == {n \in Nat : n \in k + 1 .. N /\ at[n] # {}}
<1>1. OnTheWay(map, start, seen, c) /\ at[k] = {c} /\ start \in Cell
  BY DEF SoundSoFar, OnTheWay
<1>2. N \in Nat /\ k \in 0 .. N
  BY SoundUpTo, GridAssumption
<1>3. \A n \in 1 .. N : at[n] = UNION {Onward(map, b) : b \in at[n - 1]}
  BY <1>1, CourseDef
<1>4. Onward(map, c) = {}
  BY DEF Onward
<1>5. FaultAt(map, c, seen) = {}
  BY DEF FaultAt
<1> HIDE DEF N, at, k
<1>6. After = {}
  <2> SUFFICES ASSUME After # {} PROVE FALSE
    OBVIOUS
  <2>1. PICK n \in After : \A j \in After : n <= j
    <3>1. After \in SUBSET Nat
      OBVIOUS
    <3> HIDE DEF After
    <3> QED  BY <3>1, LeastNatural
  <2>2. /\ n \in 1 .. N /\ at[n] = UNION {Onward(map, b) : b \in at[n - 1]}
        /\ n - 1 \in Nat
    BY <1>2, <1>3, <2>1
  <2>3. CASE n = k + 1
    <3>1. at[n] = UNION {Onward(map, b) : b \in {c}}
      BY <1>1, <1>2, <2>2, <2>3
    <3> QED  BY <1>4, <2>1, <3>1
  <2>4. CASE n # k + 1
    <3>1. n - 1 \in k + 1 .. N /\ n - 1 \notin After
      BY <1>2, <2>1, <2>2, <2>4
    <3>2. at[n - 1] = {}
      BY <2>2, <3>1
    <3> QED  BY <2>1, <2>2, <3>2
  <2> QED  BY <2>3, <2>4
<1>7. ASSUME NEW n \in FaultySteps(map, start) PROVE FALSE
  <2>1. k <= n /\ n \in 0 .. N /\ at[n] # {}
    BY SoundUpTo DEF FaultySteps, k, N, at
  <2>2. n # k
    BY <1>5, SoundUpTo DEF k
  <2>3. n \in After
    BY <1>2, <2>1, <2>2
  <2> QED  BY <1>6, <2>3
<1>8. FaultOf(map, start) = {}
  BY <1>7 DEF FaultOf, FaultySteps
<1> QED  BY <1>1, <1>8, WayEndsInPit

-----------------------------------------------------------------------------
(* Type correctness                                                        *)

(* A thread that is busy with a cell is at one of the map's.               *)
PlaceInv ==
  \A t \in Threads :
    /\ pc[t] \notin {"scan", "returned"} => cursor[t] \in Cell
    /\ pc[t] = "lock" => fault[t][2] \in Cell

(* The next iteration passes the cell of this one and no other of the      *)
(* thread's rows.                                                          *)
LEMMA NextIterationMoves ==
  ASSUME TypeOK, NEW t \in Threads, cursor[t] \in Cell, NextIteration(t)
  PROVE  /\ pc' = [pc EXCEPT ![t] = "scan"]
         /\ cursor' \in [Threads -> (0 .. Rows) \X (0 .. Cols - 1)]
         /\ \A u \in Threads \ {t} : cursor'[u] = cursor[u]
         /\ \A b \in Cell : b[1] \in rowsOf[t] =>
              (Before(b, cursor'[t]) <=> Before(b, cursor[t]) \/ b = cursor[t])
<1>1. cursor' = [cursor EXCEPT ![t] = Mine(t, NextCell(cursor[t]))]
  BY DEF NextIteration
<1>2. cursor[t] \in (0 .. Rows) \X (0 .. Cols - 1) /\ ~PastEnd(cursor[t])
  BY GridAssumption DEF TypeOK, Cell, PastEnd
<1>3. /\ NextCell(cursor[t]) \in (0 .. Rows) \X (0 .. Cols - 1)
      /\ \A b \in Cell :
           Before(b, NextCell(cursor[t])) <=> Before(b, cursor[t]) \/ b = cursor[t]
  BY <1>2, NextCellInGrid
<1> DEFINE m == Mine(t, NextCell(cursor[t]))
<1>4. /\ m \in (0 .. Rows) \X (0 .. Cols - 1)
      /\ \A b \in Cell : b[1] \in rowsOf[t] =>
           (Before(b, m) <=> Before(b, NextCell(cursor[t])))
  BY <1>3, MineIsNext DEF TypeOK
<1> HIDE DEF m
<1>5. cursor' = [cursor EXCEPT ![t] = m] /\ cursor'[t] = m
  BY <1>1 DEF m, TypeOK
<1>6. \A u \in Threads \ {t} : cursor'[u] = cursor[u]
  BY <1>5 DEF TypeOK
<1>7. cursor' \in [Threads -> (0 .. Rows) \X (0 .. Cols - 1)]
  BY <1>4, <1>5 DEF TypeOK
<1>8. pc' = [pc EXCEPT ![t] = "scan"]
  BY DEF NextIteration, Become
<1> QED  BY <1>3, <1>4, <1>5, <1>6, <1>7, <1>8

LEMMA TypeInit == Init => TypeOK /\ PlaceInv
<1> SUFFICES ASSUME Init PROVE TypeOK /\ PlaceInv
  OBVIOUS
<1>1. FirstCell \in Cell /\ FirstCell \in (0 .. Rows) \X (0 .. Cols - 1)
  BY GridAssumption DEF FirstCell, Cell
<1>2. rowsOf \in [Threads -> SUBSET (0 .. Rows - 1)]
  BY DEF Init
<1>3. cursor \in [Threads -> (0 .. Rows) \X (0 .. Cols - 1)]
  <2>1. \A t \in Threads : Mine(t, FirstCell) \in (0 .. Rows) \X (0 .. Cols - 1)
    BY <1>1, <1>2, MineIsNext
  <2> QED  BY <2>1 DEF Init
<1>4. IsABag(reports) /\ BagToSet(reports) = {}
  BY DEF Init, EmptyBag, SetToBag, IsABag, BagToSet
<1>5. fault \in [Threads -> Kinds \X Around]
  <2>1. FirstCell \in Around
    BY GridAssumption DEF FirstCell, Around
  <2> QED  BY <2>1 DEF Init, Kinds
<1>6. pc = [t \in Threads |-> "scan"]
  BY DEF Init
<1>7. /\ ldd \in LddMap /\ callbacks \in BOOLEAN /\ valid \in BOOLEAN /\ loops \subseteq Cell
      /\ mutex \in Threads \cup {Nobody} /\ gil \in Threads \cup {Nobody}
  BY ValidateAssumption DEF Init
<1>8. curCell \in [Threads -> Cell] /\ traversedCells \in [Threads -> SUBSET Cell]
  BY <1>1 DEF Init
<1>9. pc \in [Threads -> Labels]
  BY <1>6 DEF Labels
<1> QED  BY <1>2, <1>3, <1>4, <1>5, <1>6, <1>7, <1>8, <1>9 DEF TypeOK, PlaceInv

LEMMA TypeNext == TypeOK /\ PlaceInv /\ [Next]_vars => (TypeOK /\ PlaceInv)'
<1> SUFFICES ASSUME TypeOK, PlaceInv, [Next]_vars PROVE (TypeOK /\ PlaceInv)'
  OBVIOUS
<1>1. ASSUME NEW t \in Threads, SkipCell(t) PROVE (TypeOK /\ PlaceInv)'
  <2>1. cursor[t] \in Cell
    BY <1>1, NextCellInGrid DEF SkipCell, TypeOK
  <2>2. NextIteration(t)
    BY <1>1 DEF SkipCell
  <2>3. /\ pc' = [pc EXCEPT ![t] = "scan"]
        /\ cursor' \in [Threads -> (0 .. Rows) \X (0 .. Cols - 1)]
        /\ \A u \in Threads \ {t} : cursor'[u] = cursor[u]
    BY <2>1, <2>2, NextIterationMoves
  <2> QED  BY <1>1, <2>3 DEF SkipCell, TypeOK, PlaceInv, Labels, input
<1>2. ASSUME NEW t \in Threads, EnterFlow(t) PROVE (TypeOK /\ PlaceInv)'
  <2>1. cursor[t] \in Cell
    BY <1>2, NextCellInGrid DEF EnterFlow, TypeOK
  <2> QED  BY <1>2, <2>1 DEF EnterFlow, Become, TypeOK, PlaceInv, Labels, input
<1>3. ASSUME NEW t \in Threads, FollowFlow(t) PROVE (TypeOK /\ PlaceInv)'
  <2>1. pc[t] = "flow" /\ cursor[t] \in Cell /\ curCell[t] \in Cell
    BY <1>3 DEF FollowFlow, PlaceInv, TypeOK
  <2>2. CASE ldd.dir[curCell[t]] = Pit
    <3>1. NextIteration(t) /\ UNCHANGED <<curCell, traversedCells>>
      BY <1>3, <2>2 DEF FollowFlow
    <3>2. /\ pc' = [pc EXCEPT ![t] = "scan"]
          /\ cursor' \in [Threads -> (0 .. Rows) \X (0 .. Cols - 1)]
          /\ \A u \in Threads \ {t} : cursor'[u] = cursor[u]
      BY <2>1, <3>1, NextIterationMoves
    <3> QED  BY <1>3, <3>1, <3>2 DEF FollowFlow, TypeOK, PlaceInv, Labels, input
  <2>3. CASE ldd.dir[curCell[t]] # Pit
    <3>1. getNeighbour(ldd.dir[curCell[t]], curCell[t]) \in Cell
      <4>1. FaultAt(ldd, curCell[t], traversedCells[t]) = {}
        BY <1>3 DEF FollowFlow
      <4> QED  BY <2>1, <2>3, <4>1, NoFaultGoesOn DEF Onward
    <3>2. /\ traversedCells' = [traversedCells EXCEPT ![t] = @ \cup {curCell[t]}]
          /\ curCell' = [curCell EXCEPT ![t] = getNeighbour(ldd.dir[curCell[t]], curCell[t])]
          /\ UNCHANGED <<pc, cursor>>
      BY <1>3, <2>3 DEF FollowFlow
    <3>3. curCell' \in [Threads -> Cell]
      BY <3>1, <3>2 DEF TypeOK
    <3>4. traversedCells' \in [Threads -> SUBSET Cell]
      BY <2>1, <3>2 DEF TypeOK
    <3> QED  BY <1>3, <3>2, <3>3, <3>4 DEF FollowFlow, TypeOK, PlaceInv, input
  <2> QED  BY <2>2, <2>3
<1>4. ASSUME NEW t \in Threads, FindFault(t) PROVE (TypeOK /\ PlaceInv)'
  <2>1. pc[t] = "flow" /\ cursor[t] \in Cell /\ curCell[t] \in Cell
    BY <1>4 DEF FindFault, PlaceInv, TypeOK
  <2>2. PICK f \in FaultAt(ldd, curCell[t], traversedCells[t]) :
          /\ fault' = [fault EXCEPT ![t] = f]
          /\ Invalidate(f[1])
          /\ IF ~callbacks THEN NextIteration(t)
             ELSE Become(t, IF f[1] = "loop" THEN "lock" ELSE "call") /\ UNCHANGED cursor
    BY <1>4 DEF FindFault
  <2>3. f \in Kinds \X Around /\ (f[1] = "loop" => f[2] \in Cell)
    BY <2>1, FaultType
  <2>4. /\ fault' \in [Threads -> Kinds \X Around] /\ fault'[t] = f
        /\ \A u \in Threads \ {t} : fault'[u] = fault[u]
    BY <2>2, <2>3 DEF TypeOK
  <2>5. CASE ~callbacks
    <3>1. NextIteration(t)
      BY <2>2, <2>5
    <3>2. /\ pc' = [pc EXCEPT ![t] = "scan"]
          /\ cursor' \in [Threads -> (0 .. Rows) \X (0 .. Cols - 1)]
          /\ \A u \in Threads \ {t} : cursor'[u] = cursor[u]
      BY <2>1, <3>1, NextIterationMoves
    <3> QED  BY <1>4, <2>2, <2>4, <3>2 DEF FindFault, Invalidate, TypeOK, PlaceInv, Labels, input
  <2>6. CASE callbacks
    <3>1. PICK label \in {"lock", "call"} :
            pc' = [pc EXCEPT ![t] = label] /\ (label = "lock" => f[1] = "loop")
      BY <2>2, <2>6 DEF Become
    <3>2. pc' \in [Threads -> Labels] /\ UNCHANGED cursor
      BY <2>2, <2>6, <3>1 DEF TypeOK, Labels
    <3>3. PlaceInv'
      BY <2>1, <2>3, <2>4, <3>1, <3>2 DEF TypeOK, PlaceInv
    <3> QED  BY <1>4, <2>2, <2>4, <3>2, <3>3 DEF FindFault, Invalidate, TypeOK, input
  <2> QED  BY <2>5, <2>6
<1>5. ASSUME NEW t \in Threads, Lock(t) PROVE (TypeOK /\ PlaceInv)'
  <2>1. cursor[t] \in Cell /\ fault[t][2] \in Cell
    BY <1>5 DEF Lock, PlaceInv
  <2>2. CASE fault[t][2] \in loops
    <3>1. NextIteration(t) /\ UNCHANGED <<loops, mutex>>
      BY <1>5, <2>2 DEF Lock
    <3>2. /\ pc' = [pc EXCEPT ![t] = "scan"]
          /\ cursor' \in [Threads -> (0 .. Rows) \X (0 .. Cols - 1)]
          /\ \A u \in Threads \ {t} : cursor'[u] = cursor[u]
      BY <2>1, <3>1, NextIterationMoves
    <3> QED  BY <1>5, <3>1, <3>2 DEF Lock, TypeOK, PlaceInv, Labels, input
  <2>3. CASE fault[t][2] \notin loops
    BY <1>5, <2>1, <2>3 DEF Lock, Become, TypeOK, PlaceInv, Labels, input
  <2> QED  BY <2>2, <2>3
<1>6. ASSUME NEW t \in Threads, Call(t) PROVE (TypeOK /\ PlaceInv)'
  <2>1. cursor[t] \in Cell
    BY <1>6 DEF Call, PlaceInv
  <2>2. IsABag(reports') /\ BagToSet(reports') = BagToSet(reports) \cup {fault[t]}
    <3>1. IsABag(reports) /\ reports' = reports (+) SetToBag({fault[t]})
      BY <1>6 DEF Call, TypeOK
    <3> QED  BY <3>1, BagAdd
  <2>3. BagToSet(reports') \subseteq Kinds \X Around
    BY <2>2 DEF TypeOK
  <2> QED  BY <1>6, <2>1, <2>2, <2>3 DEF Call, Become, TypeOK, PlaceInv, Labels, input
<1>7. ASSUME NEW t \in Threads, EndCall(t) PROVE (TypeOK /\ PlaceInv)'
  <2>1. cursor[t] \in Cell /\ NextIteration(t)
    BY <1>7 DEF EndCall, PlaceInv
  <2>2. /\ pc' = [pc EXCEPT ![t] = "scan"]
        /\ cursor' \in [Threads -> (0 .. Rows) \X (0 .. Cols - 1)]
        /\ \A u \in Threads \ {t} : cursor'[u] = cursor[u]
    BY <2>1, NextIterationMoves
  <2> QED  BY <1>7, <2>2 DEF EndCall, TypeOK, PlaceInv, Labels, input
<1>8. CASE Return
  BY <1>8 DEF Return, TypeOK, PlaceInv, Labels, input
<1>9. CASE UNCHANGED vars
  BY <1>9 DEF vars, TypeOK, PlaceInv, input, locals
<1> QED  BY <1>1, <1>2, <1>3, <1>4, <1>5, <1>6, <1>7, <1>8, <1>9 DEF Next, Thread

(* The variables of validate_ldd and of its threads keep their types       *)
(* whatever the schedule (accuflux.h:293-435).                             *)
THEOREM TypeCorrect == Spec => []TypeOK
<1>1. Spec => [](TypeOK /\ PlaceInv)
  BY TypeInit, TypeNext, PTL DEF Spec
<1> QED  BY <1>1, PTL

-----------------------------------------------------------------------------
(* The invariant                                                           *)

LEMMA InputStays ==
  ASSUME UNCHANGED input
  PROVE  /\ ldd' = ldd /\ callbacks' = callbacks /\ rowsOf' = rowsOf
         /\ Sources' = Sources /\ (Defined' <=> Defined)
BY DEF input, Sources, Defined, DataCells

LEMMA SourceIsCell == Sources \subseteq Cell
BY DEF Sources, DataCells

(* A flow has to be followed from a source that a thread comes upon.       *)
LEMMA DoneAfterIteration ==
  ASSUME TypeOK, DoneInv, NEW t \in Threads, cursor[t] \in Cell, NextIteration(t),
         UNCHANGED input, valid = FALSE => valid' = FALSE, Reported \subseteq Reported',
         Defined /\ cursor[t] \in Sources =>
           /\ Drains(ldd, cursor[t]) \/ valid' = FALSE
           /\ callbacks => FaultOf(ldd, cursor[t]) \subseteq Reported'
  PROVE  DoneInv'
<1>1. /\ ldd' = ldd /\ callbacks' = callbacks /\ rowsOf' = rowsOf
      /\ Sources' = Sources /\ (Defined' <=> Defined)
  BY InputStays
<1>2. /\ \A u \in Threads \ {t} : cursor'[u] = cursor[u]
      /\ \A b \in Cell : b[1] \in rowsOf[t] =>
           (Before(b, cursor'[t]) <=> Before(b, cursor[t]) \/ b = cursor[t])
  BY NextIterationMoves
<1>3. ASSUME NEW u \in Threads, Defined, NEW c \in Sources,
             c[1] \in rowsOf[u], Before(c, cursor'[u])
      PROVE  /\ Drains(ldd, c) \/ valid' = FALSE
             /\ callbacks => FaultOf(ldd, c) \subseteq Reported'
  <2>1. CASE u = t /\ c = cursor[t]
    BY <1>3, <2>1
  <2>2. CASE ~(u = t /\ c = cursor[t])
    <3>1. Before(c, cursor[u])
      BY <1>2, <1>3, <2>2, SourceIsCell
    <3> QED  BY <1>3, <3>1 DEF DoneInv
  <2> QED  BY <2>1, <2>2
<1> QED  BY <1>1, <1>3 DEF DoneInv

LEMMA DoneStays ==
  ASSUME DoneInv, UNCHANGED <<input, cursor>>, valid = FALSE => valid' = FALSE,
         Reported \subseteq Reported'
  PROVE  DoneInv'
<1>1. /\ ldd' = ldd /\ callbacks' = callbacks /\ rowsOf' = rowsOf /\ cursor' = cursor
      /\ Sources' = Sources /\ (Defined' <=> Defined)
  BY InputStays
<1> QED  BY <1>1 DEF DoneInv

(* Nothing changes about the loops when no thread comes to or from a call  *)
(* for one.                                                                *)
LEMMA LoopsStay ==
  ASSUME LoopsInv, UNCHANGED <<loops, reports>>,
         \A t \in Threads, d \in Cell :
           pc'[t] = "call" /\ fault'[t] = <<"loop", d>>
             <=> pc[t] = "call" /\ fault[t] = <<"loop", d>>
  PROVE  LoopsInv'
BY DEF LoopsInv

LEMMA NobodyReturnsAlone ==
  ASSUME TypeOK, TruthInv, NEW t \in Threads, pc[t] # "returned",
         NEW label \in Labels, label # "returned", pc' = [pc EXCEPT ![t] = label]
  PROVE  ~Returned'
<1>1. Main \in Threads
  BY ValidateAssumption
<1>2. pc'[Main] = IF t = Main THEN label ELSE pc[Main]
  BY <1>1 DEF TypeOK
<1> QED  BY <1>1, <1>2 DEF Returned, TruthInv

LEMMA TruthStays ==
  ASSUME TruthInv, UNCHANGED <<input, valid, reports>>, ~Returned'
  PROVE  TruthInv'
<1>1. /\ ldd' = ldd /\ callbacks' = callbacks /\ rowsOf' = rowsOf
      /\ Sources' = Sources /\ valid' = valid /\ reports' = reports
  BY InputStays
<1> QED  BY <1>1 DEF TruthInv

LEMMA ReportedStays ==
  ASSUME UNCHANGED <<loops, reports>>
  PROVE  Reported' = Reported
BY DEF Reported

LEMMA ValidateInit == Init => ValidateInv
<1> SUFFICES ASSUME Init PROVE ValidateInv
  OBVIOUS
<1>1. /\ pc = [t \in Threads |-> "scan"] /\ valid = TRUE /\ loops = {}
      /\ BagToSet(reports) = {} /\ TypeOK
  BY TypeInit DEF Init, EmptyBag, SetToBag, BagToSet
<1>2. WalkInv /\ FaultInv
  BY <1>1 DEF WalkInv, FaultInv
<1>3. DoneInv
  <2> SUFFICES ASSUME NEW t \in Threads, NEW c \in Sources, c[1] \in rowsOf[t],
                      Before(c, cursor[t])
               PROVE  FALSE
    BY DEF DoneInv
  <2>1. cursor[t] = Mine(t, FirstCell)
    BY DEF Init
  <2>2. FirstCell \in (0 .. Rows) \X (0 .. Cols - 1) /\ c \in Cell
    BY SourceIsCell, GridAssumption DEF FirstCell
  <2>3. Before(c, FirstCell)
    BY <1>1, <2>1, <2>2, MineIsNext DEF TypeOK
  <2> QED  BY <2>2, <2>3 DEF Before, FirstCell, Cell
<1>4. TruthInv
  <2>1. \A r \in 0 .. Rows - 1 : \E t \in Threads : r \in rowsOf[t]
    <3>1. PICK share \in [0 .. Rows - 1 -> Threads] :
            rowsOf = [t \in Threads |-> {r \in 0 .. Rows - 1 : share[r] = t}]
      BY DEF Init
    <3> QED  BY <3>1
  <2>2. Main \in Threads
    BY ValidateAssumption
  <2> QED  BY <1>1, <2>1, <2>2 DEF TruthInv, Returned
<1>5. LoopsInv
  BY <1>1 DEF LoopsInv, BagIn
<1> QED  BY <1>2, <1>3, <1>4, <1>5 DEF ValidateInv

-----------------------------------------------------------------------------
(* The steps of a thread                                                   *)

LEMMA SkipKeeps ==
  ASSUME TypeOK, ValidateInv, NEW t \in Threads, SkipCell(t)
  PROVE  ValidateInv'
<1> USE DEF ValidateInv
<1>1. /\ pc[t] = "scan" /\ cursor[t] \in Cell /\ NextIteration(t)
      /\ UNCHANGED <<input, valid, loops, mutex, reports, curCell, traversedCells, fault>>
  BY NextCellInGrid DEF SkipCell, TypeOK
<1>2. /\ pc' = [pc EXCEPT ![t] = "scan"]
      /\ \A u \in Threads \ {t} : cursor'[u] = cursor[u]
  BY <1>1, NextIterationMoves
<1>3. ldd' = ldd /\ callbacks' = callbacks /\ Sources' = Sources /\ Reported' = Reported
  BY <1>1, InputStays, ReportedStays
<1>4. WalkInv' /\ FaultInv'
  BY <1>1, <1>2, <1>3 DEF WalkInv, FaultInv, TypeOK
<1>5. ~(Defined /\ cursor[t] \in Sources)
  BY DEF SkipCell, Defined, Sources, DataCells, MaySeemIncoming
<1>6. DoneInv'
  BY <1>1, <1>3, <1>5, DoneAfterIteration
<1>7. ~Returned'
  BY <1>1, <1>2, NobodyReturnsAlone DEF Labels
<1>8. TruthInv'
  BY <1>1, <1>7, TruthStays
<1>9. LoopsInv'
  BY <1>1, <1>2, LoopsStay DEF TypeOK
<1> QED  BY <1>4, <1>6, <1>8, <1>9

LEMMA EnterKeeps ==
  ASSUME TypeOK, ValidateInv, NEW t \in Threads, EnterFlow(t)
  PROVE  ValidateInv'
<1> USE DEF ValidateInv
<1>1. /\ pc[t] = "scan" /\ cursor[t] \in Cell /\ cursor[t] \in Sources
      /\ curCell' = [curCell EXCEPT ![t] = cursor[t]]
      /\ traversedCells' = [traversedCells EXCEPT ![t] = {}]
      /\ pc' = [pc EXCEPT ![t] = "flow"]
      /\ UNCHANGED <<input, cursor, valid, loops, mutex, reports, fault>>
  BY NextCellInGrid DEF EnterFlow, Become, Sources, DataCells, TypeOK
<1>2. ldd' = ldd /\ callbacks' = callbacks /\ Sources' = Sources /\ Reported' = Reported
  BY <1>1, InputStays, ReportedStays
<1>3. SoundSoFar(ldd, cursor[t], {}, cursor[t])
  BY <1>1, SoundStarts
<1>4. WalkInv'
  BY <1>1, <1>2, <1>3 DEF WalkInv, TypeOK
<1>5. FaultInv'
  BY <1>1, <1>2 DEF FaultInv, TypeOK
<1>6. DoneInv'
  BY <1>1, <1>2, DoneStays
<1>7. ~Returned'
  BY <1>1, NobodyReturnsAlone DEF Labels
<1>8. TruthInv'
  BY <1>1, <1>7, TruthStays
<1>9. LoopsInv'
  BY <1>1, LoopsStay DEF TypeOK
<1> QED  BY <1>4, <1>5, <1>6, <1>8, <1>9

LEMMA FollowKeeps ==
  ASSUME TypeOK, PlaceInv, ValidateInv, NEW t \in Threads, FollowFlow(t)
  PROVE  ValidateInv'
<1> USE DEF ValidateInv
<1>1. /\ pc[t] = "flow" /\ cursor[t] \in Cell /\ curCell[t] \in Cell
      /\ FaultAt(ldd, curCell[t], traversedCells[t]) = {}
      /\ UNCHANGED <<input, valid, loops, mutex, reports, fault>>
  BY DEF FollowFlow, PlaceInv, TypeOK
<1>2. ldd' = ldd /\ callbacks' = callbacks /\ Sources' = Sources /\ Reported' = Reported
  BY <1>1, InputStays, ReportedStays
<1>3. SoundSoFar(ldd, cursor[t], traversedCells[t], curCell[t])
  BY <1>1 DEF WalkInv
<1>4. CASE ldd.dir[curCell[t]] = Pit
  <2>1. NextIteration(t) /\ UNCHANGED <<curCell, traversedCells>>
    BY <1>4 DEF FollowFlow
  <2>2. /\ pc' = [pc EXCEPT ![t] = "scan"]
        /\ \A u \in Threads \ {t} : cursor'[u] = cursor[u]
    BY <1>1, <2>1, NextIterationMoves
  <2>3. WalkInv' /\ FaultInv'
    BY <1>1, <1>2, <2>1, <2>2 DEF WalkInv, FaultInv, TypeOK
  <2>4. FaultOf(ldd, cursor[t]) = {} /\ Drains(ldd, cursor[t])
    BY <1>3, <1>4, NoFaultMet
  <2>5. DoneInv'
    BY <1>1, <1>2, <2>1, <2>4, DoneAfterIteration
  <2>6. ~Returned'
    BY <1>1, <2>2, NobodyReturnsAlone DEF Labels
  <2>7. TruthInv'
    BY <1>1, <2>6, TruthStays
  <2>8. LoopsInv'
    BY <1>1, <2>2, LoopsStay DEF TypeOK
  <2> QED  BY <2>3, <2>5, <2>7, <2>8
<1>5. CASE ldd.dir[curCell[t]] # Pit
  <2> DEFINE to == getNeighbour(ldd.dir[curCell[t]], curCell[t])
  <2>1. /\ traversedCells' = [traversedCells EXCEPT ![t] = @ \cup {curCell[t]}]
        /\ curCell' = [curCell EXCEPT ![t] = to]
        /\ UNCHANGED <<pc, cursor>>
    BY <1>5 DEF FollowFlow
  <2>2. SoundSoFar(ldd, cursor[t], traversedCells[t] \cup {curCell[t]}, to)
    BY <1>1, <1>3, <1>5, SoundGoesOn
  <2> HIDE DEF to
  <2>3. WalkInv'
    BY <1>1, <1>2, <2>1, <2>2 DEF WalkInv, TypeOK
  <2>4. FaultInv'
    BY <1>1, <1>2, <2>1 DEF FaultInv
  <2>5. DoneInv'
    BY <1>1, <1>2, <2>1, DoneStays
  <2>6. TruthInv'
    BY <1>1, <1>2, <2>1, InputStays DEF TruthInv, Returned
  <2>7. LoopsInv'
    BY <1>1, <2>1, LoopsStay
  <2> QED  BY <2>3, <2>4, <2>5, <2>6, <2>7
<1> QED  BY <1>4, <1>5

LEMMA FindKeeps ==
  ASSUME TypeOK, PlaceInv, ValidateInv, NEW t \in Threads, FindFault(t)
  PROVE  ValidateInv'
<1> USE DEF ValidateInv
<1>1. /\ pc[t] = "flow" /\ cursor[t] \in Cell /\ curCell[t] \in Cell
      /\ UNCHANGED <<input, loops, mutex, reports, curCell, traversedCells>>
  BY DEF FindFault, PlaceInv, TypeOK
<1>2. /\ ldd' = ldd /\ callbacks' = callbacks /\ rowsOf' = rowsOf
      /\ Sources' = Sources /\ Reported' = Reported
  BY <1>1, InputStays, ReportedStays
<1>3. PICK f \in FaultAt(ldd, curCell[t], traversedCells[t]) :
        /\ fault' = [fault EXCEPT ![t] = f]
        /\ valid' = FALSE
        /\ IF ~callbacks THEN NextIteration(t)
           ELSE Become(t, IF f[1] = "loop" THEN "lock" ELSE "call") /\ UNCHANGED cursor
  BY DEF FindFault, Invalidate
<1>4. SoundSoFar(ldd, cursor[t], traversedCells[t], curCell[t]) /\ cursor[t] \in Sources
  BY <1>1 DEF WalkInv
<1>5. FaultOf(ldd, cursor[t]) = {f} /\ ~Drains(ldd, cursor[t])
  BY <1>4, FaultMet
<1>6. /\ fault'[t] = f
      /\ \A u \in Threads \ {t} : fault'[u] = fault[u]
  BY <1>3 DEF TypeOK
<1>7. ASSUME ~Returned' PROVE TruthInv'
  <2>1. \E c \in Sources : ~Drains(ldd, c)
    BY <1>4, <1>5
  <2> QED  BY <1>1, <1>2, <1>7, <2>1 DEF TruthInv
<1>8. CASE ~callbacks
  <2>1. NextIteration(t)
    BY <1>3, <1>8
  <2>2. /\ pc' = [pc EXCEPT ![t] = "scan"]
        /\ \A u \in Threads \ {t} : cursor'[u] = cursor[u]
    BY <1>1, <2>1, NextIterationMoves
  <2>3. WalkInv'
    BY <1>1, <1>2, <2>2 DEF WalkInv, TypeOK
  <2>4. FaultInv'
    BY <1>1, <1>2, <1>3, <1>6, <1>8, <2>2 DEF FaultInv, TypeOK
  <2>5. DoneInv'
    BY <1>1, <1>2, <1>3, <1>8, <2>1, DoneAfterIteration
  <2>6. TruthInv'
    BY <1>1, <1>7, <2>2, NobodyReturnsAlone DEF Labels
  <2>7. LoopsInv'
    BY <1>1, <1>6, <2>2, LoopsStay DEF TypeOK
  <2> QED  BY <2>3, <2>4, <2>5, <2>6, <2>7
<1>9. CASE callbacks
  <2>1. PICK label \in {"lock", "call"} :
          pc' = [pc EXCEPT ![t] = label] /\ (label = "lock" <=> f[1] = "loop")
    BY <1>3, <1>9 DEF Become
  <2>2. UNCHANGED cursor
    BY <1>3, <1>9
  <2>3. WalkInv'
    BY <1>1, <1>2, <1>4, <2>1, <2>2 DEF WalkInv, TypeOK
  <2>4. FaultInv'
    BY <1>1, <1>2, <1>3, <1>5, <1>6, <1>9, <2>1, <2>2 DEF FaultInv, TypeOK
  <2>5. DoneInv'
    BY <1>1, <1>2, <1>3, <2>2, DoneStays
  <2>6. TruthInv'
    BY <1>1, <1>7, <2>1, NobodyReturnsAlone DEF Labels
  <2>7. LoopsInv'
    BY <1>1, <1>6, <2>1, LoopsStay DEF TypeOK
  <2> QED  BY <2>3, <2>4, <2>5, <2>6, <2>7
<1> QED  BY <1>8, <1>9

LEMMA LockKeeps ==
  ASSUME TypeOK, PlaceInv, ValidateInv, NEW t \in Threads, Lock(t)
  PROVE  ValidateInv'
<1> USE DEF ValidateInv
<1> DEFINE d == fault[t][2]
<1>1. /\ pc[t] = "lock" /\ cursor[t] \in Cell /\ d \in Cell /\ mutex = Nobody
      /\ UNCHANGED <<input, valid, reports, curCell, traversedCells, fault>>
  BY DEF Lock, PlaceInv
<1>2. /\ ldd' = ldd /\ callbacks' = callbacks /\ rowsOf' = rowsOf /\ Sources' = Sources
  BY <1>1, InputStays
<1>3. fault[t] = <<"loop", d>>
  <2>1. fault[t] \in Kinds \X Around /\ fault[t][1] = "loop"
    BY <1>1 DEF TypeOK, FaultInv
  <2> QED  BY <2>1
<1>4. valid = FALSE /\ FaultOf(ldd, cursor[t]) = {<<"loop", d>>}
  BY <1>1, <1>3 DEF FaultInv
<1> HIDE DEF d
<1>5. CASE d \in loops
  <2>1. NextIteration(t) /\ UNCHANGED <<loops, mutex>>
    BY <1>5 DEF Lock, d
  <2>2. /\ pc' = [pc EXCEPT ![t] = "scan"]
        /\ \A u \in Threads \ {t} : cursor'[u] = cursor[u]
    BY <1>1, <2>1, NextIterationMoves
  <2>3. WalkInv' /\ FaultInv'
    BY <1>1, <1>2, <2>1, <2>2 DEF WalkInv, FaultInv, TypeOK
  <2>4. Reported' = Reported /\ <<"loop", d>> \in Reported
    BY <1>1, <1>5, <2>1, ReportedStays DEF Reported
  <2>5. DoneInv'
    BY <1>1, <1>2, <1>4, <2>1, <2>4, DoneAfterIteration
  <2>6. ~Returned'
    BY <1>1, <2>2, NobodyReturnsAlone DEF Labels
  <2>7. TruthInv'
    BY <1>1, <2>6, TruthStays
  <2>8. LoopsInv'
    BY <1>1, <2>1, <2>2, LoopsStay DEF TypeOK
  <2> QED  BY <2>3, <2>5, <2>7, <2>8
<1>6. CASE d \notin loops
  <2>1. /\ loops' = loops \cup {d} /\ mutex' = t /\ UNCHANGED cursor
        /\ pc' = [pc EXCEPT ![t] = "call"]
    BY <1>6 DEF Lock, Become, d
  <2>2. \A u \in Threads : pc[u] \in {"call", "callback"} => fault[u][1] # "loop"
    BY <1>1, ValidateAssumption DEF FaultInv
  <2>3. WalkInv'
    BY <1>1, <1>2, <2>1 DEF WalkInv, TypeOK
  <2>4. FaultInv'
    BY <1>1, <1>2, <1>3, <2>1, <2>2 DEF FaultInv, TypeOK
  <2>5. Reported \subseteq Reported'
    BY <1>1, <2>1 DEF Reported
  <2>6. DoneInv'
    BY <1>1, <2>1, <2>5, DoneStays
  <2>7. ~Returned'
    BY <1>1, <2>1, NobodyReturnsAlone DEF Labels
  <2>8. TruthInv'
    BY <1>1, <2>7, TruthStays
  <2>9. LoopsInv'
    <3>1. \A u \in Threads, e \in Cell : ~(pc[u] = "call" /\ fault[u] = <<"loop", e>>)
      BY <2>2
    <3>2. \A u \in Threads, e \in Cell :
            pc'[u] = "call" /\ fault'[u] = <<"loop", e>> <=> u = t /\ e = d
      BY <1>1, <1>3, <2>1, <3>1 DEF TypeOK
    <3>3. <<"loop", d>> \notin BagToSet(reports)
      BY <1>1, <1>6 DEF LoopsInv
    <3> QED  BY <1>1, <2>1, <3>1, <3>2, <3>3 DEF LoopsInv
  <2> QED  BY <2>3, <2>4, <2>6, <2>8, <2>9
<1> QED  BY <1>5, <1>6

LEMMA CallKeeps ==
  ASSUME TypeOK, PlaceInv, ValidateInv, NEW t \in Threads, Call(t)
  PROVE  ValidateInv'
<1> USE DEF ValidateInv
<1> DEFINE f == fault[t]
<1>1. /\ pc[t] = "call" /\ cursor[t] \in Cell
      /\ reports' = reports (+) SetToBag({f})
      /\ pc' = [pc EXCEPT ![t] = "callback"]
      /\ UNCHANGED <<input, valid, loops, mutex, cursor, curCell, traversedCells, fault>>
  BY DEF Call, Become, PlaceInv
<1>2. /\ ldd' = ldd /\ callbacks' = callbacks /\ rowsOf' = rowsOf /\ Sources' = Sources
  BY <1>1, InputStays
<1>3. /\ BagToSet(reports') = BagToSet(reports) \cup {f}
      /\ f \notin BagToSet(reports) => reports'[f] = 1
      /\ \A e \in BagToSet(reports) \ {f} : reports'[e] = reports[e]
  <2>1. IsABag(reports)
    BY DEF TypeOK
  <2> QED  BY <1>1, <2>1, BagAdd
<1>4. /\ callbacks /\ FaultOf(ldd, cursor[t]) = {f} /\ cursor[t] \in Sources
      /\ f[1] = "loop" => mutex = t /\ f[2] \in loops
  BY <1>1 DEF FaultInv, WalkInv
<1>5. WalkInv'
  BY <1>1, <1>2 DEF WalkInv, TypeOK
<1>6. FaultInv'
  BY <1>1, <1>2, <1>3 DEF FaultInv, TypeOK
<1>7. Reported \subseteq Reported'
  BY <1>1, <1>3 DEF Reported
<1>8. DoneInv'
  BY <1>1, <1>7, DoneStays
<1>9. ~Returned'
  BY <1>1, NobodyReturnsAlone DEF Labels
<1>10. TruthInv'
  <2>1. BagToSet(reports') \subseteq UNION {FaultOf(ldd, c) : c \in Sources}
    BY <1>3, <1>4 DEF TruthInv
  <2> QED  BY <1>1, <1>2, <1>4, <1>9, <2>1 DEF TruthInv
<1> HIDE DEF f
<1>11. LoopsInv'
  <2> SUFFICES ASSUME NEW d \in Cell
               PROVE  /\ d \notin loops => <<"loop", d>> \notin BagToSet(reports')
                      /\ BagIn(<<"loop", d>>, reports') => reports'[<<"loop", d>>] = 1
                      /\ \A u \in Threads : pc'[u] = "call" /\ fault[u] = <<"loop", d>> =>
                           <<"loop", d>> \notin BagToSet(reports')
                      /\ d \in loops =>
                           \/ <<"loop", d>> \in BagToSet(reports')
                           \/ \E u \in Threads : pc'[u] = "call" /\ fault[u] = <<"loop", d>>
    BY <1>1 DEF LoopsInv
  <2>1. \A u \in Threads \ {t} : pc'[u] = pc[u]
    BY <1>1 DEF TypeOK
  <2>2. pc'[t] = "callback"
    BY <1>1 DEF TypeOK
  <2>3. CASE f = <<"loop", d>>
    <3>1. d \in loops /\ <<"loop", d>> \notin BagToSet(reports) /\ mutex = t
      BY <1>1, <1>4, <2>3 DEF LoopsInv, f
    <3>2. ASSUME NEW u \in Threads, pc'[u] = "call", fault[u] = <<"loop", d>> PROVE FALSE
      <4>1. u # t /\ pc[u] = "call" /\ fault[u][1] = "loop"
        BY <2>1, <2>2, <3>2
      <4> QED  BY <3>1, <4>1 DEF FaultInv
    <3>3. <<"loop", d>> \in BagToSet(reports') /\ reports'[<<"loop", d>>] = 1
      BY <1>3, <2>3, <3>1
    <3> QED  BY <3>1, <3>2, <3>3
  <2>4. CASE f # <<"loop", d>>
    <3>1. <<"loop", d>> \in BagToSet(reports') <=> <<"loop", d>> \in BagToSet(reports)
      BY <1>3, <2>4
    <3>2. \A u \in Threads : pc'[u] = "call" /\ fault[u] = <<"loop", d>>
            <=> pc[u] = "call" /\ fault[u] = <<"loop", d>>
      BY <1>1, <2>1, <2>2, <2>4 DEF f
    <3>3. <<"loop", d>> \in BagToSet(reports) =>
            reports'[<<"loop", d>>] = reports[<<"loop", d>>]
      BY <1>3, <2>4
    <3> QED  BY <3>1, <3>2, <3>3 DEF LoopsInv, BagIn
  <2> QED  BY <2>3, <2>4
<1> QED  BY <1>5, <1>6, <1>8, <1>10, <1>11

LEMMA EndKeeps ==
  ASSUME TypeOK, PlaceInv, ValidateInv, NEW t \in Threads, EndCall(t)
  PROVE  ValidateInv'
<1> USE DEF ValidateInv
<1>1. /\ pc[t] = "callback" /\ cursor[t] \in Cell /\ NextIteration(t)
      /\ mutex' = IF mutex = t THEN Nobody ELSE mutex
      /\ UNCHANGED <<input, valid, loops, reports, curCell, traversedCells, fault>>
  BY DEF EndCall, PlaceInv
<1>2. /\ pc' = [pc EXCEPT ![t] = "scan"]
      /\ \A u \in Threads \ {t} : cursor'[u] = cursor[u]
  BY <1>1, NextIterationMoves
<1>3. /\ ldd' = ldd /\ callbacks' = callbacks /\ Sources' = Sources /\ Reported' = Reported
  BY <1>1, InputStays, ReportedStays
<1>4. WalkInv'
  BY <1>1, <1>2, <1>3 DEF WalkInv, TypeOK
<1>5. FaultInv'
  <2> SUFFICES ASSUME NEW u \in Threads \ {t}, pc[u] \in {"call", "callback"},
                      fault[u][1] = "loop"
               PROVE  mutex' = u
    BY <1>1, <1>2, <1>3 DEF FaultInv, TypeOK
  <2>1. mutex = u
    BY DEF FaultInv
  <2> QED  BY <1>1, <2>1
<1>6. valid = FALSE /\ FaultOf(ldd, cursor[t]) \subseteq Reported
  BY <1>1 DEF FaultInv, Reported
<1>7. DoneInv'
  BY <1>1, <1>3, <1>6, DoneAfterIteration
<1>8. ~Returned'
  BY <1>1, <1>2, NobodyReturnsAlone DEF Labels
<1>9. TruthInv'
  BY <1>1, <1>8, TruthStays
<1>10. LoopsInv'
  BY <1>1, <1>2, LoopsStay DEF TypeOK
<1> QED  BY <1>4, <1>5, <1>7, <1>9, <1>10

LEMMA ValidateNext == TypeOK /\ PlaceInv /\ ValidateInv /\ [Next]_vars => ValidateInv'
<1> SUFFICES ASSUME TypeOK, PlaceInv, ValidateInv, [Next]_vars PROVE ValidateInv'
  OBVIOUS
<1>1. CASE \E t \in Threads : Thread(t)
  BY <1>1, SkipKeeps, EnterKeeps, FollowKeeps, FindKeeps, LockKeeps, CallKeeps, EndKeeps
     DEF Thread
<1>2. CASE Return
  <2> USE DEF ValidateInv
  <2>1. /\ \A t \in Threads : pc[t] = "scan" /\ PastEnd(cursor[t])
        /\ pc' = [t \in Threads |-> "returned"]
        /\ UNCHANGED <<input, valid, loops, mutex, reports, cursor, curCell, traversedCells, fault>>
    BY <1>2 DEF Return, AtBarrier
  <2>2. /\ ldd' = ldd /\ callbacks' = callbacks /\ rowsOf' = rowsOf
        /\ Sources' = Sources /\ Reported' = Reported
    BY <2>1, InputStays, ReportedStays
  <2>3. WalkInv'
    BY <2>1, <2>2 DEF WalkInv, PastEnd
  <2>4. FaultInv'
    BY <2>1 DEF FaultInv
  <2>5. DoneInv'
    BY <2>1, <2>2, DoneStays
  <2>6. TruthInv'
    BY <2>1, <2>2 DEF TruthInv
  <2>7. LoopsInv'
    BY <2>1, LoopsStay
  <2> QED  BY <2>3, <2>4, <2>5, <2>6, <2>7
<1>3. CASE UNCHANGED vars
  <2> USE DEF ValidateInv
  <2>1. /\ UNCHANGED <<input, cursor, valid, loops, mutex, reports, pc>>
        /\ UNCHANGED <<curCell, traversedCells, fault>>
    BY <1>3 DEF vars, locals
  <2>2. /\ ldd' = ldd /\ callbacks' = callbacks /\ rowsOf' = rowsOf
        /\ Sources' = Sources /\ Reported' = Reported
    BY <2>1, InputStays, ReportedStays
  <2>3. WalkInv'
    BY <2>1, <2>2 DEF WalkInv
  <2>4. FaultInv'
    BY <2>1, <2>2 DEF FaultInv
  <2>5. DoneInv'
    BY <2>1, <2>2, DoneStays
  <2>6. TruthInv'
    BY <2>1, <2>2 DEF TruthInv, Returned
  <2>7. LoopsInv'
    BY <2>1, LoopsStay
  <2> QED  BY <2>3, <2>4, <2>5, <2>6, <2>7
<1> QED  BY <1>1, <1>2, <1>3 DEF Next

LEMMA Invariance == Spec => [](TypeOK /\ PlaceInv /\ ValidateInv)
BY TypeInit, TypeNext, ValidateInit, ValidateNext, PTL DEF Spec

-----------------------------------------------------------------------------
(* What follows when the call has returned                                 *)

LEMMA AllRowsDone ==
  ASSUME TypeOK, ValidateInv, Returned, Defined, NEW c \in Sources
  PROVE  /\ Drains(ldd, c) \/ valid = FALSE
         /\ callbacks => FaultOf(ldd, c) \subseteq Reported
<1> USE DEF ValidateInv
<1>1. c \in Cell /\ c[1] \in 0 .. Rows - 1
  BY SourceIsCell DEF Cell
<1>2. PICK t \in Threads : c[1] \in rowsOf[t]
  BY <1>1 DEF TruthInv
<1>3. PastEnd(cursor[t])
  BY DEF TruthInv, WalkInv
<1>4. Before(c, cursor[t])
  BY <1>1, <1>3, GridAssumption DEF PastEnd, Before
<1> QED  BY <1>2, <1>4 DEF DoneInv

(* validate_ldd returns true for the maps whose flows all drain or run in  *)
(* closed loops, and for no other, however the rows are scheduled and the  *)
(* unlocked writes to valid interleave (accuflux.h:376-432).               *)
THEOREM VerdictsAreExact == Spec => []VerdictsExact
<1>1. TypeOK /\ ValidateInv => VerdictsExact
  <2> SUFFICES ASSUME TypeOK, ValidateInv PROVE VerdictExact /\ OnlyClosedLoopsPass
    BY DEF VerdictsExact
  <2>1. VerdictExact
    <3> SUFFICES ASSUME Returned, Defined PROVE valid <=> \A c \in Sources : Drains(ldd, c)
      BY DEF VerdictExact
    <3>1. valid \in BOOLEAN
      BY DEF TypeOK
    <3>2. valid = FALSE => \E c \in Sources : ~Drains(ldd, c)
      BY DEF ValidateInv, TruthInv
    <3>3. valid = FALSE \/ \A c \in Sources : Drains(ldd, c)
      BY AllRowsDone
    <3> QED  BY <3>1, <3>2, <3>3
  <2>2. ASSUME Returned, valid, Defined, ldd.nodata \notin 1 .. 9 \ {Pit},
               NEW c \in DataCells(ldd), ~Drains(ldd, c)
        PROVE  \E n \in 1 .. Rows * Cols : c \in Course(ldd, c)[n]
    <3>1. \A s \in Sources : Drains(ldd, s)
      BY <2>1, <2>2 DEF VerdictExact
    <3>2. \A s \in Cell : ~is_nodata(ldd, s) /\ ~has_upstream_cells(ldd, s) => Drains(ldd, s)
      BY <3>1 DEF Sources, DataCells
    <3>3. c \in Cell /\ ~is_nodata(ldd, c)
      BY DEF DataCells
    <3> QED  BY <2>2, <3>2, <3>3, BadFlowHasSource
  <2>3. OnlyClosedLoopsPass
    BY <2>2 DEF OnlyClosedLoopsPass
  <2> QED  BY <2>1, <2>3
<1> QED  BY <1>1, Invariance, PTL

(* The callbacks of validate_ldd are made for every fault at the end of a  *)
(* flow and for nothing else, and for a loop once, by one thread at a time *)
(* (accuflux.h:390-420).                                                   *)
THEOREM ReportsAreExact == Spec => []ReportsExact
<1>1. TypeOK /\ ValidateInv => ReportsExact
  <2> SUFFICES ASSUME TypeOK, ValidateInv PROVE ReportsComplete /\ LoopReportedOnce
    BY DEF ReportsExact
  <2> USE DEF ValidateInv
  <2>1. ReportsComplete
    <3> SUFFICES ASSUME Returned, Defined
                 PROVE  BagToSet(reports) =
                          IF callbacks THEN UNION {FaultOf(ldd, c) : c \in Sources} ELSE {}
      BY DEF ReportsComplete
    <3>1. \A d \in loops : <<"loop", d>> \in BagToSet(reports)
      BY DEF LoopsInv, TruthInv, TypeOK
    <3>2. Reported = BagToSet(reports)
      BY <3>1 DEF Reported
    <3>3. callbacks => \A c \in Sources : FaultOf(ldd, c) \subseteq BagToSet(reports)
      BY <3>2, AllRowsDone
    <3>4. /\ BagToSet(reports) \subseteq UNION {FaultOf(ldd, c) : c \in Sources}
          /\ ~callbacks => BagToSet(reports) = {}
      BY DEF TruthInv
    <3> QED  BY <3>3, <3>4
  <2>2. LoopReportedOnce
    <3>1. \A c \in Cell : BagIn(<<"loop", c>>, reports) => reports[<<"loop", c>>] = 1
      BY DEF LoopsInv
    <3>2. \A t \in Threads : pc[t] = "callback" /\ fault[t][1] = "loop" => mutex = t
      BY DEF FaultInv
    <3> QED  BY <3>1, <3>2 DEF LoopReportedOnce
  <2> QED  BY <2>1, <2>2
<1> QED  BY <1>1, Invariance, PTL

-----------------------------------------------------------------------------
(* The iterator over a window                                              *)

\* Products with the number of columns: a row more is Cols elements more.
LEMMA NextRow ==
    ASSUME NEW a \in Int, NEW n \in Int
    PROVE  (a + 1) * n = a * n + n
BY SMT

\* Rows in order have their elements in order.
LEMMA RowsInOrder ==
    ASSUME NEW n \in Nat, NEW a \in Int, NEW b \in Int, a <= b
    PROVE  a * n <= b * n
<1>1. PICK d \in Nat : b = a + d
  <2>1. b - a \in Nat /\ b = a + (b - a)
    BY SMT
  <2> QED BY <2>1
<1>2. b * n = a * n + d * n
  BY <1>1, SMT
<1>3. d * n \in Nat
  BY <1>1, SMT
<1> QED BY <1>2, <1>3, SMT

\* The window w lies inside the raster.
Inside(w) == /\ w.top >= 0 /\ w.top + w.rows <= Rows
             /\ w.left >= 0 /\ w.left + w.cols <= Cols

WindowType == [top : Nat, left : Nat, rows : Int, cols : Int]

\* clip_area_to_raster leaves a window inside the raster or nothing.
LEMMA ClippedInside ==
    ASSUME NEW c \in Calls
    PROVE  /\ Window(c) \in WindowType
           /\ Window(c).rows > 0 /\ Window(c).cols > 0 => Inside(Window(c))
<1> USE AreaAssumption, GridAssumption
<1>1. CASE c \in [op : AroundCell, center : Cell, radius : Nat, missing : SUBSET Cell]
  <2>1. /\ Window(c) = ClipAround(c.center, c.radius)
        /\ c.center[1] \in 0 .. Rows - 1 /\ c.center[2] \in 0 .. Cols - 1 /\ c.radius \in Nat
    <3>1. c.op \in AroundCell /\ c.center \in Cell /\ c.radius \in Nat
      BY <1>1
    <3>2. c.center[1] \in 0 .. Rows - 1 /\ c.center[2] \in 0 .. Cols - 1
      BY <3>1 DEF Cell
    <3>3. Window(c) = ClipAround(c.center, c.radius)
      BY <3>1 DEF Window, AroundCell, Rectangles
    <3> QED BY <3>1, <3>2, <3>3
  <2>2. DEFINE w == ClipAround(c.center, c.radius)
  <2>3. /\ w.top \in Nat /\ w.left \in Nat /\ w.rows \in Int /\ w.cols \in Int
        /\ w = [top |-> w.top, left |-> w.left, rows |-> w.rows, cols |-> w.cols]
    BY <2>1 DEF ClipAround, ClippedSide, Most
  <2>4. Inside(w)
    BY <2>1 DEF ClipAround, ClippedSide, Most, Inside
  <2> QED BY <2>1, <2>3, <2>4 DEF WindowType
<1>2. CASE c \in [op : Rectangles, topLeft : Int \X Int, rows : Nat, cols : Nat, missing : SUBSET Cell]
  <2>1. /\ Window(c) = ClipRectangle(c.topLeft, c.rows, c.cols)
        /\ c.topLeft[1] \in Int /\ c.topLeft[2] \in Int /\ c.rows \in Nat /\ c.cols \in Nat
    BY <1>2 DEF Window, AroundCell, Rectangles
  <2>2. DEFINE w == ClipRectangle(c.topLeft, c.rows, c.cols)
  <2>3. /\ w.top \in Nat /\ w.left \in Nat /\ w.rows \in Int /\ w.cols \in Int
        /\ w = [top |-> w.top, left |-> w.left, rows |-> w.rows, cols |-> w.cols]
    BY <2>1 DEF ClipRectangle, ClipExtent, Most, Least
  <2>4. Inside(w)
    BY <2>1 DEF ClipRectangle, ClipExtent, Most, Least, Inside
  <2> QED BY <2>1, <2>3, <2>4 DEF WindowType
<1>3. CASE c \in [op : {"value_begin"}, missing : SUBSET Cell]
  BY <1>3 DEF Window, AroundCell, Rectangles, WindowType, Inside
<1> QED BY <1>1, <1>2, <1>3, CallsAssumption DEF CallType

\* The pointer p is at row and col of window w, and col is what was counted.
At(p, row, col, w, counted) ==
    /\ p = (w.top + row) * Cols + w.left + col
    /\ w.cols # Cols => col = counted

\* The inductive invariant.
IInv ==
    /\ request \in Calls
    /\ current # Null =>
          /\ Window(request).rows > 0 /\ Window(request).cols > 0
          /\ \E row \in 0 .. Window(request).rows - 1, col \in 0 .. Window(request).cols - 1 :
                At(current, row, col, Window(request), currentColOffset)

LEMMA InitInv == AreaInit => IInv
<1> USE AreaAssumption, GridAssumption
<1> SUFFICES ASSUME AreaInit, current # Null PROVE IInv
  BY DEF AreaInit, IInv
<1>1. request \in Calls /\ current = Begin(Window(request)) /\ currentColOffset = 0
  BY DEF AreaInit
<1> DEFINE w == Window(request)
<1>2. w \in WindowType
  BY <1>1, ClippedInside
<1>3. w.rows > 0 /\ w.cols > 0 /\ current = w.top * Cols + w.left
  BY <1>1 DEF Begin
<1>4. At(current, 0, 0, w, currentColOffset)
  BY <1>1, <1>2, <1>3 DEF At, WindowType
<1>5. 0 \in 0 .. w.rows - 1 /\ 0 \in 0 .. w.cols - 1
  BY <1>2, <1>3 DEF WindowType
<1> QED BY <1>1, <1>3, <1>4, <1>5 DEF IInv

\* An increment goes to the next column or to the first one of the next row, or
\* to the end if that row is none of the window.
LEMMA IncrementInv ==
    ASSUME IInv, current # Null, Increment, UNCHANGED request
    PROVE  IInv'
<1> USE AreaAssumption, GridAssumption
<1> DEFINE w == Window(request)
           narrow == w.cols # Cols
           endOfRow == narrow /\ currentColOffset + 1 >= w.cols
           next == current + (IF endOfRow THEN Cols - w.cols ELSE 0) + 1
           end == Begin(w) + (w.rows - 1) * Cols + w.cols
<1>1. /\ request \in Calls /\ w.rows > 0 /\ w.cols > 0
      /\ w \in WindowType /\ Inside(w)
  BY ClippedInside DEF IInv
<1>2. w.top \in Nat /\ w.left \in Nat /\ w.rows \in Nat /\ w.cols \in Nat
  BY <1>1 DEF WindowType
<1>3. PICK row \in 0 .. w.rows - 1, col \in 0 .. w.cols - 1 :
         At(current, row, col, w, currentColOffset)
  BY DEF IInv
<1>4. Window(request)' = w /\ request' \in Calls
  BY <1>1 DEF Window, ClipAround, ClipRectangle, ClippedSide, ClipExtent, Most, Least
<1>5. SUFFICES ASSUME current' # Null
               PROVE  \E row2 \in 0 .. w.rows - 1, col2 \in 0 .. w.cols - 1 :
                         At(current', row2, col2, w, currentColOffset')
  BY <1>1, <1>4 DEF IInv
<1>6. current' = next /\ ~(next >= end)
  BY <1>5 DEF Increment
<1>7. currentColOffset' = CASE ~narrow -> currentColOffset
                            [] endOfRow -> 0
                            [] OTHER -> currentColOffset + 1
  BY DEF Increment
<1>8. current = (w.top + row) * Cols + w.left + col /\ (narrow => col = currentColOffset)
  BY <1>3 DEF At
<1>9. (w.top + row) * Cols \in Int /\ w.top * Cols \in Int /\ (w.rows - 1) * Cols \in Int
  BY <1>2, <1>3, SMT
<1>10. CASE col + 1 < w.cols
  <2>1. current' = (w.top + row) * Cols + w.left + (col + 1)
    <3>1. ~endOfRow
      BY <1>2, <1>3, <1>8, <1>10
    <3>2. next = current + 1
      BY <1>8, <1>9, <1>2, <1>3, <3>1
    <3> HIDE DEF next, endOfRow
    <3> QED BY <1>2, <1>3, <1>6, <1>8, <1>9, <3>2
  <2>2. narrow => currentColOffset' = col + 1
    BY <1>2, <1>3, <1>7, <1>8, <1>10
  <2>3. At(current', row, col + 1, w, currentColOffset') /\ col + 1 \in 0 .. w.cols - 1
    BY <1>2, <1>3, <1>10, <2>1, <2>2 DEF At
  <2> QED BY <1>3, <2>3
<1>11. CASE col + 1 >= w.cols
  <2>1. col + 1 = w.cols
    BY <1>2, <1>3, <1>11
  <2>2. current' = (w.top + row) * Cols + w.left + Cols
    <3>1. next = current + (Cols - w.cols) + 1
      BY <1>2, <1>3, <1>8, <1>9, <2>1
    <3>2. col = w.cols - 1
      BY <1>2, <1>3, <2>1
    <3> DEFINE first == (w.top + row) * Cols + w.left
    <3>3. first \in Int
      BY <1>2, <1>9
    <3>4. current = first + w.cols - 1
      BY <1>2, <1>8, <3>2, <3>3
    <3> HIDE DEF next, endOfRow, first
    <3>5. next = first + Cols
      BY <1>2, <3>1, <3>3, <3>4
    <3> QED BY <1>6, <3>5 DEF first
  <2>3. (w.top + row + 1) * Cols = (w.top + row) * Cols + Cols
    <3>1. w.top + row \in Int
      BY <1>2, <1>3
    <3> QED BY <3>1, NextRow
  <2>4. row + 1 \in 0 .. w.rows - 1
    <3>1. SUFFICES ASSUME ~(row + 1 \in 0 .. w.rows - 1) PROVE FALSE
      OBVIOUS
    <3>2. row + 1 = w.rows
      BY <1>2, <1>3, <3>1
    <3>3. end = w.top * Cols + w.left + (w.rows - 1) * Cols + w.cols
      BY <1>1 DEF Begin
    <3>4. (w.top + row) * Cols = w.top * Cols + row * Cols
      BY <1>2, <1>3, SMT
    <3>5. end = (w.top + row) * Cols + w.left + w.cols /\ w.cols <= Cols
      <4>1. w.rows - 1 = row
        BY <1>2, <1>3, <3>2
      <4>2. end = w.top * Cols + w.left + row * Cols + w.cols
        BY <3>3, <4>1
      <4>3. row * Cols \in Int
        BY <1>3, SMT
      <4> HIDE DEF end
      <4> QED BY <1>1, <1>2, <1>9, <3>4, <4>2, <4>3 DEF Inside
    <3> QED BY <1>2, <1>6, <1>9, <2>2, <3>5
  <2>5. narrow => currentColOffset' = 0
    BY <1>2, <1>3, <1>7, <1>8, <2>1
  <2>6. At(current', row + 1, 0, w, currentColOffset')
    <3>1. w.top + (row + 1) = w.top + row + 1
      BY <1>2, <1>3
    <3>2. current' = (w.top + (row + 1)) * Cols + w.left + 0
      BY <1>2, <1>9, <2>2, <2>3, <3>1
    <3> QED BY <2>5, <3>2 DEF At
  <2> QED BY <1>2, <1>1, <2>4, <2>6
<1> QED BY <1>2, <1>3, <1>10, <1>11

LEMMA NextInv == IInv /\ [AreaNext]_areaVars => IInv'
<1> SUFFICES ASSUME IInv, [AreaNext]_areaVars PROVE IInv'
  OBVIOUS
<1>1. CASE Skip
  BY <1>1, IncrementInv DEF Skip
<1>2. CASE Advance
  BY <1>2, IncrementInv DEF Advance
<1>3. CASE Stop
  <2>1. UNCHANGED <<request, current, currentColOffset>>
    BY <1>3 DEF Stop
  <2> QED BY <2>1 DEF IInv, At, Window, ClipAround, ClipRectangle, ClippedSide, ClipExtent, Most, Least
<1>4. CASE UNCHANGED areaVars
  BY <1>4 DEF areaVars, IInv, At, Window, ClipAround, ClipRectangle, ClippedSide, ClipExtent, Most, Least
<1> QED BY <1>1, <1>2, <1>3, <1>4 DEF AreaNext

\* The pointer is inside its window whenever it is looked at, on every raster,
\* for every window that can be asked for and whatever is nodata.
THEOREM StaysInside == AreaSpec => []InsideWindow
<1>1. IInv => InsideWindow
  <2> SUFFICES ASSUME IInv, current # Null PROVE InsideWindow
    BY DEF InsideWindow
  <2> DEFINE w == Window(request)
  <2>1. w \in WindowType /\ Inside(w)
    BY ClippedInside DEF IInv
  <2>2. PICK row \in 0 .. w.rows - 1, col \in 0 .. w.cols - 1 :
           current = (w.top + row) * Cols + w.left + col
    BY DEF IInv, At
  <2>3. w.top + row \in 0 .. Rows - 1 /\ w.left + col \in 0 .. Cols - 1
    BY <2>1, AreaAssumption, GridAssumption DEF Inside, WindowType
  <2>4. <<w.top + row, w.left + col>> \in Cell
    BY <2>3 DEF Cell
  <2> QED BY <2>2, <2>4 DEF InsideWindow
<1> QED BY <1>1, InitInv, NextInv, PTL DEF AreaSpec

\* No element outside of the raster is ever read: the offset is that of a cell.
THEOREM ReadsTheRaster == AreaSpec => [](current # Null => current \in 0 .. Rows * Cols - 1)
<1> DEFINE Read == current # Null => current \in 0 .. Rows * Cols - 1
<1>1. IInv => Read
  <2> USE AreaAssumption, GridAssumption
  <2> SUFFICES ASSUME IInv, current # Null PROVE current \in 0 .. Rows * Cols - 1
    OBVIOUS
  <2> DEFINE w == Window(request)
  <2>1. w \in WindowType /\ Inside(w)
    BY ClippedInside DEF IInv
  <2>2. PICK row \in 0 .. w.rows - 1, col \in 0 .. w.cols - 1 :
           current = (w.top + row) * Cols + w.left + col
    BY DEF IInv, At
  <2>3. w.top \in Nat /\ w.left \in Nat /\ w.rows \in Int /\ w.cols \in Int
    BY <2>1 DEF WindowType
  <2>4. /\ w.top + row \in Nat /\ w.top + row + 1 \in Int /\ w.top + row + 1 <= Rows
        /\ w.left + col \in 0 .. Cols - 1
    BY <2>1, <2>2, <2>3 DEF Inside
  <2>5. (w.top + row + 1) * Cols <= Rows * Cols
    BY <2>4, RowsInOrder
  <2>6. (w.top + row + 1) * Cols = (w.top + row) * Cols + Cols
    BY <2>4, NextRow
  <2>7. (w.top + row) * Cols \in Nat /\ Rows * Cols \in Nat
    BY <2>4, SMT
  <2> QED BY <2>2, <2>3, <2>4, <2>5, <2>6, <2>7
<1> QED BY <1>1, InitInv, NextInv, PTL DEF AreaSpec

-----------------------------------------------------------------------------
(* Every cell that is promised is visited, once and in order *)

\* The pointer p is in window w.
InWindow(p, w) ==
    \E row \in 0 .. w.rows - 1, col \in 0 .. w.cols - 1 :
        p = (w.top + row) * Cols + w.left + col

\* The element at p is one that call c asks for.
Wanted(c, p) == InWindow(p, Window(c)) /\ ~Excludes(c, CellAt(p))

Visited == {visited[k] : k \in DOMAIN visited}

\* The iterator has gone past p.
HasPassed(p) == current = Null \/ p < current \/ (p = current /\ stage = "rest")

\* The inductive invariant: what has been visited is what is wanted and passed.
VisitInv ==
    /\ stage \in {"skip", "rest"}
    /\ visited \in Seq(Int)
    /\ \A k \in DOMAIN visited \ {1} : visited[k - 1] < visited[k]
    /\ \A p \in Int : p \in Visited <=> Wanted(request, p) /\ HasPassed(p)

\* A window starts at its first element and ends before the offset that the
\* iterator compares with.
LEMMA WindowBounds ==
    ASSUME NEW w \in WindowType, NEW p, InWindow(p, w)
    PROVE  /\ p \in Int /\ w.rows > 0 /\ w.cols > 0
           /\ Begin(w) = w.top * Cols + w.left /\ Begin(w) \in Int
           /\ p >= Begin(w) /\ p < Begin(w) + (w.rows - 1) * Cols + w.cols
<1> USE AreaAssumption, GridAssumption
<1>1. PICK row \in 0 .. w.rows - 1, col \in 0 .. w.cols - 1 :
         p = (w.top + row) * Cols + w.left + col
  BY DEF InWindow
<1>2. w.top \in Nat /\ w.left \in Nat /\ w.rows \in Int /\ w.cols \in Int
  BY DEF WindowType
<1>3. w.rows > 0 /\ w.cols > 0 /\ row \in Nat /\ col \in Nat /\ row <= w.rows - 1 /\ col <= w.cols - 1
  BY <1>1, <1>2
<1>4. (w.top + row) * Cols = w.top * Cols + row * Cols
  BY <1>2, <1>3, SMT
<1>5. /\ w.top * Cols \in Int /\ row * Cols \in Int /\ (w.rows - 1) * Cols \in Int
      /\ 0 * Cols = 0
  BY <1>2, <1>3, SMT
<1>6. 0 * Cols <= row * Cols /\ row * Cols <= (w.rows - 1) * Cols
  BY <1>2, <1>3, RowsInOrder
<1>7. Begin(w) = w.top * Cols + w.left
  BY <1>3 DEF Begin
<1> DEFINE a == w.top * Cols
           b == row * Cols
           e == (w.rows - 1) * Cols
<1>8. p = a + b + w.left + col /\ Begin(w) = a + w.left
  BY <1>1, <1>4, <1>7
<1>9. a \in Int /\ b \in Int /\ e \in Int /\ 0 <= b /\ b <= e
  BY <1>5, <1>6
<1> HIDE DEF a, b, e
<1>10. p \in Int /\ p >= Begin(w) /\ p < Begin(w) + e + w.cols /\ Begin(w) \in Int
  BY <1>2, <1>3, <1>8, <1>9
<1> QED BY <1>3, <1>7, <1>10 DEF e

LEMMA CurrentIsInt ==
    ASSUME IInv, current # Null
    PROVE  current \in Int /\ InWindow(current, Window(request))
<1>1. Window(request) \in WindowType /\ InWindow(current, Window(request))
  BY ClippedInside DEF IInv, At, InWindow
<1> QED BY <1>1, WindowBounds

\* An increment passes over no element of the window.
LEMMA IncrementOrder ==
    ASSUME IInv, current # Null, Increment, UNCHANGED request
    PROVE  /\ current' # Null => current \in Int /\ current' \in Int /\ current < current'
           /\ \A p : InWindow(p, Window(request)) /\ p > current
                       => current' # Null /\ current' <= p
<1> USE AreaAssumption, GridAssumption
<1> DEFINE w == Window(request)
           narrow == w.cols # Cols
           endOfRow == narrow /\ currentColOffset + 1 >= w.cols
           next == current + (IF endOfRow THEN Cols - w.cols ELSE 0) + 1
           end == Begin(w) + (w.rows - 1) * Cols + w.cols
<1>1. /\ request \in Calls /\ w.rows > 0 /\ w.cols > 0
      /\ w \in WindowType /\ Inside(w)
  BY ClippedInside DEF IInv
<1>2. w.top \in Nat /\ w.left \in Nat /\ w.rows \in Nat /\ w.cols \in Nat /\ w.cols <= Cols
  BY <1>1 DEF WindowType, Inside
<1>3. PICK row \in 0 .. w.rows - 1, col \in 0 .. w.cols - 1 :
         At(current, row, col, w, currentColOffset)
  BY DEF IInv
<1>4. current' = IF next >= end THEN Null ELSE next
  BY DEF Increment
<1>5. current = (w.top + row) * Cols + w.left + col /\ (narrow => col = currentColOffset)
  BY <1>3 DEF At
<1>6. /\ (w.top + row) * Cols \in Int /\ w.top + row \in Int /\ row \in Int /\ col \in Int
      /\ col <= w.cols - 1
  BY <1>2, <1>3, SMT
<1>7. current \in Int
  BY <1>2, <1>5, <1>6
<1>8. next \in Int /\ next > current /\ (col + 1 < w.cols => next = current + 1)
  BY <1>2, <1>5, <1>6, <1>7
<1>9. ASSUME NEW p, InWindow(p, w), p > current PROVE next <= p /\ p < end
  <2>1. p \in Int /\ p < end
    BY <1>1, <1>9, WindowBounds
  <2>2. CASE col + 1 < w.cols
    BY <1>7, <1>8, <1>9, <2>1, <2>2
  <2>3. CASE ~(col + 1 < w.cols)
    <3>1. col = w.cols - 1
      <4>1. col \in Int /\ w.cols \in Int /\ col <= w.cols - 1 /\ ~(col + 1 < w.cols)
        BY <1>2, <1>6, <2>3
      <4> HIDE DEF w
      <4> QED BY <4>1
    <3>2. next = (w.top + row) * Cols + w.left + Cols
      <4> DEFINE first == (w.top + row) * Cols + w.left
      <4>1. first \in Int /\ current = first + w.cols - 1
        BY <1>2, <1>5, <1>6, <3>1
      <4>2. next = current + (Cols - w.cols) + 1
        BY <1>2, <1>5, <1>7, <3>1
      <4> HIDE DEF next, endOfRow, first
      <4>3. next = first + Cols
        BY <1>2, <4>1, <4>2
      <4> QED BY <4>3 DEF first
    <3>3. PICK r \in 0 .. w.rows - 1, k \in 0 .. w.cols - 1 : p = (w.top + r) * Cols + w.left + k
      BY <1>9 DEF InWindow
    <3>4. /\ w.top + r \in Int /\ (w.top + r) * Cols \in Int /\ r \in Int /\ k \in Int
          /\ 0 <= k /\ k <= w.cols - 1
      BY <1>2, <3>3, SMT
    <3>5. r > row
      <4>1. SUFFICES ASSUME ~(r > row) PROVE FALSE
        OBVIOUS
      <4>2. w.top + r <= w.top + row
        BY <1>2, <1>6, <3>4, <4>1
      <4>3. (w.top + r) * Cols <= (w.top + row) * Cols
        BY <1>6, <3>4, <4>2, RowsInOrder
      <4> DEFINE x == (w.top + r) * Cols
                 y == (w.top + row) * Cols
      <4>4. x \in Int /\ y \in Int /\ x <= y
        BY <1>6, <3>4, <4>3
      <4>5. p = x + w.left + k /\ current = y + w.left + w.cols - 1
        BY <1>5, <1>2, <1>6, <3>1, <3>3
      <4> HIDE DEF x, y
      <4> QED BY <1>2, <1>9, <3>4, <4>4, <4>5
    <3>6. (w.top + row + 1) * Cols <= (w.top + r) * Cols
      <4>1. w.top + row + 1 <= w.top + r /\ w.top + row + 1 \in Int
        BY <1>2, <1>6, <3>4, <3>5
      <4> QED BY <3>4, <4>1, RowsInOrder
    <3>7. (w.top + row + 1) * Cols = (w.top + row) * Cols + Cols
      BY <1>6, NextRow
    <3> DEFINE x == (w.top + r) * Cols
               y == (w.top + row) * Cols
    <3>8. x \in Int /\ y \in Int /\ y + Cols <= x
      BY <1>6, <3>4, <3>6, <3>7
    <3>9. p = x + w.left + k /\ next = y + w.left + Cols
      BY <3>2, <3>3
    <3> HIDE DEF x, y, next
    <3>10. next <= p
      BY <1>2, <3>4, <3>8, <3>9
    <3> QED BY <2>1, <3>10
  <2> QED BY <2>2, <2>3
<1>10. end \in Int
  BY <1>1, <1>2, SMT DEF Begin
<1> HIDE DEF next, end
<1>11. ASSUME NEW p, InWindow(p, w), p > current PROVE current' # Null /\ current' <= p
  <2>1. next <= p /\ p < end /\ p \in Int
    BY <1>1, <1>9, <1>11, WindowBounds
  <2>2. ~(next >= end)
    BY <1>8, <1>10, <2>1
  <2> QED BY <1>4, <1>8, <2>1, <2>2
<1> QED BY <1>4, <1>7, <1>8, <1>11

\* What is wanted does not change when the request does not.
LEMMA WantedStable ==
    ASSUME UNCHANGED request
    PROVE  \A p : Wanted(request, p)' <=> Wanted(request, p)
BY DEF Wanted, InWindow, Window, ClipAround, ClipRectangle, ClippedSide, ClipExtent, Most, Least,
       Excludes, ExcludesValue, ExcludesLocation, Outside, Squared, CellAt

LEMMA VisitInit == AreaInit => VisitInv
<1> SUFFICES ASSUME AreaInit PROVE VisitInv
  OBVIOUS
<1>1. /\ request \in Calls /\ current = Begin(Window(request)) /\ stage = "skip" /\ visited = <<>>
  BY DEF AreaInit
<1>2. Window(request) \in WindowType
  BY <1>1, ClippedInside
<1>3. ASSUME NEW p \in Int, Wanted(request, p) PROVE ~HasPassed(p)
  <2>1. InWindow(p, Window(request))
    BY <1>3 DEF Wanted
  <2>2. current \in Int /\ p >= current
    BY <1>1, <1>2, <2>1, WindowBounds
  <2> QED BY <1>1, <2>2, AreaAssumption, GridAssumption DEF HasPassed
<1>4. Visited = {}
  BY <1>1 DEF Visited
<1> QED BY <1>1, <1>3, <1>4 DEF VisitInv

LEMMA SkipVisit ==
    ASSUME IInv, VisitInv, Skip
    PROVE  VisitInv'
<1>1. /\ stage = "skip" /\ current # Null /\ Excludes(request, CellAt(current)) /\ Increment
      /\ UNCHANGED <<request, stage, visited>>
  BY DEF Skip
<1>2. /\ current' # Null => current \in Int /\ current' \in Int /\ current < current'
      /\ \A p : InWindow(p, Window(request)) /\ p > current => current' # Null /\ current' <= p
  BY <1>1, IncrementOrder
<1>3. current \in Int
  BY <1>1, CurrentIsInt
<1>4. ASSUME NEW p \in Int, Wanted(request, p) PROVE HasPassed(p)' <=> HasPassed(p)
  <2>1. p # current /\ InWindow(p, Window(request))
    BY <1>1, <1>4 DEF Wanted
  <2>2. CASE p < current
    BY <1>1, <1>2, <1>3, <2>2 DEF HasPassed
  <2>3. CASE p > current
    BY <1>1, <1>2, <1>3, <2>1, <2>3 DEF HasPassed
  <2> QED BY <1>3, <2>1, <2>2, <2>3
<1>5. \A p \in Int : p \in Visited' <=> Wanted(request, p)' /\ HasPassed(p)'
  <2>1. Visited' = Visited
    BY <1>1 DEF Visited
  <2> QED BY <1>1, <1>4, <2>1, WantedStable DEF VisitInv
<1> QED BY <1>1, <1>5 DEF VisitInv

LEMMA AdvanceVisit ==
    ASSUME IInv, VisitInv, Advance
    PROVE  VisitInv'
<1>1. /\ stage = "rest" /\ current # Null /\ Increment /\ stage' = "skip"
      /\ UNCHANGED <<request, visited>>
  BY DEF Advance
<1>2. /\ current' # Null => current \in Int /\ current' \in Int /\ current < current'
      /\ \A p : InWindow(p, Window(request)) /\ p > current => current' # Null /\ current' <= p
  BY <1>1, IncrementOrder
<1>3. current \in Int
  BY <1>1, CurrentIsInt
<1>4. ASSUME NEW p \in Int, Wanted(request, p) PROVE HasPassed(p)' <=> HasPassed(p)
  <2>1. InWindow(p, Window(request))
    BY <1>4 DEF Wanted
  <2>2. CASE p <= current
    BY <1>1, <1>2, <1>3, <2>2 DEF HasPassed
  <2>3. CASE p > current
    BY <1>1, <1>2, <1>3, <2>1, <2>3 DEF HasPassed
  <2> QED BY <1>3, <2>2, <2>3
<1>5. \A p \in Int : p \in Visited' <=> Wanted(request, p)' /\ HasPassed(p)'
  <2>1. Visited' = Visited
    BY <1>1 DEF Visited
  <2> QED BY <1>1, <1>4, <2>1, WantedStable DEF VisitInv
<1> QED BY <1>1, <1>5 DEF VisitInv

LEMMA StopVisit ==
    ASSUME IInv, VisitInv, Stop
    PROVE  VisitInv'
<1>1. /\ stage = "skip" /\ stage' = "rest"
      /\ current # Null => ~Excludes(request, CellAt(current))
      /\ visited' = IF current = Null THEN visited ELSE Append(visited, current)
      /\ UNCHANGED <<request, current>>
  BY DEF Stop
<1>2. CASE current = Null
  <2>1. Visited' = Visited /\ \A p : HasPassed(p)' <=> HasPassed(p)
    BY <1>1, <1>2 DEF Visited, HasPassed
  <2> QED BY <1>1, <1>2, <2>1, WantedStable DEF VisitInv
<1>3. CASE current # Null
  <2>1. current \in Int /\ InWindow(current, Window(request)) /\ Wanted(request, current)
    BY <1>1, <1>3, CurrentIsInt DEF Wanted
  <2>2. /\ visited \in Seq(Int) /\ Len(visited) \in Nat /\ DOMAIN visited = 1 .. Len(visited)
        /\ visited' = Append(visited, current)
    BY <1>1, <1>3 DEF VisitInv
  <2>3. /\ visited' \in Seq(Int) /\ DOMAIN visited' = 1 .. Len(visited) + 1
        /\ \A k \in 1 .. Len(visited) : visited'[k] = visited[k]
        /\ visited'[Len(visited) + 1] = current
    BY <2>1, <2>2
  <2>4. Visited' = Visited \cup {current}
    BY <2>2, <2>3 DEF Visited
  <2>5. ASSUME NEW k \in 1 .. Len(visited) PROVE visited[k] \in Int /\ visited[k] < current
    <3>1. visited[k] \in Int /\ visited[k] \in Visited
      BY <2>2 DEF Visited
    <3>2. HasPassed(visited[k])
      BY <3>1 DEF VisitInv
    <3> QED BY <1>1, <1>3, <3>1, <3>2 DEF HasPassed
  <2>6. ASSUME NEW k \in DOMAIN visited' \ {1} PROVE visited'[k - 1] < visited'[k]
    <3>1. CASE k = Len(visited) + 1
      <4>1. k - 1 \in 1 .. Len(visited)
        BY <2>2, <2>3, <3>1
      <4> QED BY <2>3, <2>5, <3>1, <4>1
    <3>2. CASE k # Len(visited) + 1
      <4>1. k \in DOMAIN visited \ {1} /\ k - 1 \in 1 .. Len(visited) /\ k \in 1 .. Len(visited)
        BY <2>2, <2>3, <3>2
      <4> QED BY <2>3, <4>1 DEF VisitInv
    <3> QED BY <3>1, <3>2
  <2>7. \A p \in Int : p \in Visited' <=> Wanted(request, p)' /\ HasPassed(p)'
    <3>1. \A p \in Int : HasPassed(p)' <=> HasPassed(p) \/ p = current
      BY <1>1, <1>3, <2>1 DEF HasPassed
    <3>2. ~HasPassed(current)
      BY <1>1, <1>3, <2>1 DEF HasPassed
    <3> QED BY <2>1, <2>4, <3>1, <3>2, WantedStable, <1>1 DEF VisitInv
  <2> QED BY <1>1, <2>3, <2>6, <2>7 DEF VisitInv
<1> QED BY <1>2, <1>3

LEMMA VisitNext == IInv /\ VisitInv /\ [AreaNext]_areaVars => VisitInv'
<1> SUFFICES ASSUME IInv, VisitInv, [AreaNext]_areaVars PROVE VisitInv'
  OBVIOUS
<1>1. CASE UNCHANGED areaVars
  <2>1. UNCHANGED request /\ Visited' = Visited /\ \A p : HasPassed(p)' <=> HasPassed(p)
    BY <1>1 DEF areaVars, Visited, HasPassed
  <2> QED BY <1>1, <2>1, WantedStable DEF VisitInv, areaVars
<1> QED BY <1>1, SkipVisit, StopVisit, AdvanceVisit DEF AreaNext

\* The offset of an element gives back its row and column.
LEMMA CellOfOffset ==
    ASSUME NEW r \in Nat, NEW k \in 0 .. Cols - 1
    PROVE  CellAt(r * Cols + k) = <<r, k>>
<1> USE AreaAssumption, GridAssumption
<1>1. r * Cols \in Nat /\ Cols \in Nat /\ Cols > 0
  BY SMT
<1>2. (r * Cols + k) \div Cols = r
  BY SMT
<1>3. (r * Cols + k) % Cols = k
  BY SMT
<1> QED BY <1>2, <1>3 DEF CellAt

\* Whoever is in a circle is in the square around it.
LEMMA CircleInSquare ==
    ASSUME NEW a \in Int, NEW b \in Int, NEW r \in Nat, a * a + b * b <= r * r
    PROVE  a \in -r .. r /\ b \in -r .. r
<1>1. ASSUME NEW x \in Int, NEW y \in Nat, x * x <= y * y PROVE x \in -y .. y
  <2>1. ASSUME NEW z \in Nat, z > y PROVE z * z > y * y
    <3>1. PICK d \in Nat \ {0} : z = y + d
      <4>1. z - y \in Nat \ {0} /\ z = y + (z - y)
        BY <2>1
      <4> QED BY <4>1
    <3>2. z * z = y * y + 2 * (y * d) + d * d
      BY <3>1, SMT
    <3>3. y * d \in Nat /\ d * d \in Nat \ {0} /\ y * y \in Nat
      BY <3>1, SMT
    <3> QED BY <3>2, <3>3
  <2>2. x * x = (-x) * (-x) /\ x * x \in Int /\ y * y \in Int
    BY SMT
  <2>3. ~(x > y)
    <3>1. SUFFICES ASSUME x > y PROVE FALSE
      OBVIOUS
    <3>2. x \in Nat
      BY <3>1
    <3> QED BY <1>1, <2>1, <2>2, <3>1, <3>2
  <2>4. ~(-x > y)
    <3>1. SUFFICES ASSUME -x > y PROVE FALSE
      OBVIOUS
    <3>2. -x \in Nat
      BY <3>1
    <3> QED BY <1>1, <2>1, <2>2, <3>1, <3>2
  <2> QED BY <2>3, <2>4
<1>2. a * a \in Nat /\ b * b \in Nat /\ r * r \in Nat
  <2>1. \A x \in Int : x * x \in Nat
    BY SMT
  <2> QED BY <2>1
<1>3. a * a <= r * r /\ b * b <= r * r
  BY <1>2
<1> QED BY <1>1, <1>3

\* A cell of window w by its row and column.
CellInWindow(cell, w) ==
    /\ cell[1] \in w.top .. w.top + w.rows - 1
    /\ cell[2] \in w.left .. w.left + w.cols - 1

LEMMA OffsetsOfWindow ==
    ASSUME NEW w \in WindowType, w.rows > 0 /\ w.cols > 0 => Inside(w)
    PROVE  /\ \A p : InWindow(p, w) => CellAt(p) \in Cell /\ CellInWindow(CellAt(p), w)
           /\ \A cell \in Cell : CellInWindow(cell, w)
                => \E p \in Int : InWindow(p, w) /\ CellAt(p) = cell
<1> USE AreaAssumption, GridAssumption
<1>1. w.top \in Nat /\ w.left \in Nat /\ w.rows \in Int /\ w.cols \in Int
  BY DEF WindowType
<1>2. ASSUME NEW p, InWindow(p, w) PROVE CellAt(p) \in Cell /\ CellInWindow(CellAt(p), w)
  <2>1. PICK row \in 0 .. w.rows - 1, col \in 0 .. w.cols - 1 :
           p = (w.top + row) * Cols + w.left + col
    BY <1>2 DEF InWindow
  <2>2. Inside(w)
    BY <1>1, <2>1
  <2>3. w.top + row \in 0 .. Rows - 1 /\ w.left + col \in 0 .. Cols - 1
    BY <1>1, <2>1, <2>2 DEF Inside
  <2>4. p = (w.top + row) * Cols + (w.left + col)
    <3>1. (w.top + row) * Cols \in Int
      BY <2>3, SMT
    <3> QED BY <1>1, <2>1, <3>1
  <2>5. CellAt(p) = <<w.top + row, w.left + col>>
    BY <2>3, <2>4, CellOfOffset
  <2>6. w.top + row \in w.top .. w.top + w.rows - 1 /\ w.left + col \in w.left .. w.left + w.cols - 1
    BY <1>1, <2>1
  <2> QED BY <2>3, <2>5, <2>6 DEF Cell, CellInWindow
<1>3. ASSUME NEW cell \in Cell, CellInWindow(cell, w)
      PROVE  \E p \in Int : InWindow(p, w) /\ CellAt(p) = cell
  <2>1. cell = <<cell[1], cell[2]>> /\ cell[1] \in 0 .. Rows - 1 /\ cell[2] \in 0 .. Cols - 1
    BY DEF Cell
  <2> DEFINE p == cell[1] * Cols + cell[2]
             row == cell[1] - w.top
             col == cell[2] - w.left
  <2>2. p \in Int /\ CellAt(p) = cell
    <3>1. CellAt(p) = <<cell[1], cell[2]>>
      BY <2>1, CellOfOffset
    <3>2. cell[1] * Cols \in Int
      BY <2>1, SMT
    <3> QED BY <2>1, <3>1, <3>2
  <2>3. row \in 0 .. w.rows - 1 /\ col \in 0 .. w.cols - 1
    BY <1>1, <1>3, <2>1 DEF CellInWindow
  <2>4. p = (w.top + row) * Cols + w.left + col
    <3>1. w.top + row = cell[1] /\ w.left + col = cell[2]
      BY <1>1, <2>1
    <3>2. (w.top + row) * Cols = cell[1] * Cols /\ cell[1] * Cols \in Int
      BY <2>1, <3>1, SMT
    <3> HIDE DEF row
    <3> QED BY <1>1, <2>1, <3>1, <3>2
  <2>5. InWindow(p, w)
    <3> HIDE DEF p, row, col
    <3> QED BY <2>3, <2>4 DEF InWindow
  <2> QED BY <2>2, <2>5
<1> QED BY <1>2, <1>3

\* What a call promises by its name is what its window and its filters leave.
LEMMA PromisedByWindow ==
    ASSUME NEW c \in Calls, NEW cell \in Cell
    PROVE  Promises(c, cell) <=> CellInWindow(cell, Window(c)) /\ ~Excludes(c, cell)
<1> USE AreaAssumption, GridAssumption
<1>0. cell[1] \in 0 .. Rows - 1 /\ cell[2] \in 0 .. Cols - 1
  BY DEF Cell
<1>1. CASE c \in [op : AroundCell, center : Cell, radius : Nat, missing : SUBSET Cell]
  <2>1. /\ c.op \in AroundCell /\ c.op \notin Rectangles /\ c.op # "sub_area" /\ c.radius \in Nat
        /\ c.center[1] \in 0 .. Rows - 1 /\ c.center[2] \in 0 .. Cols - 1
    <3>1. c.op \in AroundCell /\ c.center \in Cell /\ c.radius \in Nat
      BY <1>1
    <3> QED BY <3>1 DEF Cell, AroundCell, Rectangles
  <2> DEFINE dr == cell[1] - c.center[1]
             dc == cell[2] - c.center[2]
             square == dr \in -c.radius .. c.radius /\ dc \in -c.radius .. c.radius
  <2>2. Window(c) = ClipAround(c.center, c.radius)
    BY <2>1 DEF Window
  <2>3. CellInWindow(cell, Window(c)) <=> square
    BY <1>0, <2>1, <2>2 DEF CellInWindow, ClipAround, ClippedSide, Most
  <2>4. dr \in Int /\ dc \in Int
    BY <1>0, <2>1
  <2>5. Outside(cell, c.center, c.radius) <=> dr * dr + dc * dc > c.radius * c.radius
    BY DEF Outside, Squared
  <2>6. dr * dr + dc * dc \in Int /\ c.radius * c.radius \in Int
    BY <2>1, <2>4, SMT
  <2>7. dr * dr + dc * dc <= c.radius * c.radius => square
    BY <2>1, <2>4, CircleInSquare
  <2>8. ~Outside(cell, c.center, c.radius) <=> dr * dr + dc * dc <= c.radius * c.radius
    BY <2>5, <2>6
  <2>9. CASE c.op \in {"cells_square", "neighbouring_cells_square"}
    <3>1. Promises(c, cell) <=> /\ square
                                /\ c.op = "cells_square" \/ cell # c.center
                                /\ cell \notin c.missing
      BY <2>9 DEF Promises, Rectangles
    <3>2. Excludes(c, cell) <=> \/ cell \in c.missing
                                \/ c.op = "neighbouring_cells_square" /\ cell = c.center
      BY <2>1, <2>9 DEF Excludes, ExcludesValue, ExcludesLocation
    <3> QED BY <2>3, <2>9, <3>1, <3>2
  <2>10. CASE c.op \in {"cells_circular", "neighbouring_cells_circular"}
    <3>1. Promises(c, cell) <=> /\ dr * dr + dc * dc <= c.radius * c.radius
                                /\ c.op = "cells_circular" \/ cell # c.center
                                /\ cell \notin c.missing
      BY <2>10 DEF Promises, Rectangles
    <3>2. Excludes(c, cell) <=> \/ cell \in c.missing
                                \/ Outside(cell, c.center, c.radius)
                                \/ c.op = "neighbouring_cells_circular" /\ cell = c.center
      BY <2>1, <2>10 DEF Excludes, ExcludesValue, ExcludesLocation
    <3> HIDE DEF square
    <3> QED BY <2>3, <2>7, <2>8, <2>10, <3>1, <3>2
  <2> QED BY <2>1, <2>9, <2>10 DEF AroundCell
<1>2. CASE c \in [op : Rectangles, topLeft : Int \X Int, rows : Nat, cols : Nat, missing : SUBSET Cell]
  <2>1. /\ c.op \in Rectangles /\ c.op \notin AroundCell /\ c.rows \in Nat /\ c.cols \in Nat
        /\ c.topLeft[1] \in Int /\ c.topLeft[2] \in Int
    BY <1>2 DEF AroundCell, Rectangles
  <2>2. Window(c) = ClipRectangle(c.topLeft, c.rows, c.cols)
    BY <2>1 DEF Window
  <2> DEFINE rectangle == /\ cell[1] \in c.topLeft[1] .. c.topLeft[1] + c.rows - 1
                          /\ cell[2] \in c.topLeft[2] .. c.topLeft[2] + c.cols - 1
  <2>3. CellInWindow(cell, Window(c)) <=> rectangle
    BY <1>0, <2>1, <2>2 DEF CellInWindow, ClipRectangle, ClipExtent, Most, Least
  <2>4. Promises(c, cell) <=> rectangle /\ (c.op = "sub_area" \/ cell \notin c.missing)
    BY <2>1 DEF Promises, AroundCell, Rectangles
  <2>5. Excludes(c, cell) <=> c.op # "sub_area" /\ cell \in c.missing
    BY <2>1 DEF Excludes, ExcludesValue, ExcludesLocation, AroundCell, Rectangles
  <2> QED BY <2>3, <2>4, <2>5
<1>3. CASE c \in [op : {"value_begin"}, missing : SUBSET Cell]
  <2>1. c.op = "value_begin"
    BY <1>3
  <2>2. Window(c) = [top |-> 0, left |-> 0, rows |-> Rows, cols |-> Cols]
    BY <2>1 DEF Window, AroundCell, Rectangles
  <2>3. CellInWindow(cell, Window(c))
    BY <1>0, <2>2 DEF CellInWindow
  <2>4. Promises(c, cell) <=> cell \notin c.missing
    BY <2>1 DEF Promises, Rectangles
  <2>5. Excludes(c, cell) <=> cell \in c.missing
    BY <2>1 DEF Excludes, ExcludesValue, ExcludesLocation
  <2> QED BY <2>3, <2>4, <2>5
<1> QED BY <1>1, <1>2, <1>3, CallsAssumption DEF CallType

\* At the end of a walk every cell that the name of the call promises has been
\* visited, once and row by row, and no other cell: whatever the sizes of the
\* raster and of the window, wherever it is cut off, and whatever is nodata.
THEOREM VisitsArePromised == AreaSpec => []VisitsExactly
<1>1. IInv /\ VisitInv => VisitsExactly
  <2> SUFFICES ASSUME IInv, VisitInv, current = Null
               PROVE  /\ {CellAt(visited[k]) : k \in DOMAIN visited} = Promised(request)
                      /\ \A k \in DOMAIN visited \ {1} : visited[k - 1] < visited[k]
    BY DEF VisitsExactly
  <2> DEFINE w == Window(request)
  <2>1. request \in Calls /\ w \in WindowType /\ (w.rows > 0 /\ w.cols > 0 => Inside(w))
    BY ClippedInside DEF IInv
  <2>2. \A p \in Int : p \in Visited <=> Wanted(request, p)
    BY DEF VisitInv, HasPassed
  <2>3. ASSUME NEW k \in DOMAIN visited PROVE CellAt(visited[k]) \in Promised(request)
    <3>1. visited[k] \in Int /\ visited[k] \in Visited
      BY DEF VisitInv, Visited
    <3>2. InWindow(visited[k], w) /\ ~Excludes(request, CellAt(visited[k]))
      BY <2>2, <3>1 DEF Wanted
    <3>3. CellAt(visited[k]) \in Cell /\ CellInWindow(CellAt(visited[k]), w)
      BY <2>1, <3>2, OffsetsOfWindow
    <3> QED BY <2>1, <3>2, <3>3, PromisedByWindow DEF Promised
  <2>4. ASSUME NEW cell \in Promised(request)
        PROVE  \E k \in DOMAIN visited : cell = CellAt(visited[k])
    <3>1. cell \in Cell /\ Promises(request, cell)
      BY DEF Promised
    <3>2. CellInWindow(cell, w) /\ ~Excludes(request, cell)
      BY <2>1, <3>1, PromisedByWindow
    <3>3. PICK p \in Int : InWindow(p, w) /\ CellAt(p) = cell
      BY <2>1, <3>1, <3>2, OffsetsOfWindow
    <3>4. p \in Visited
      BY <2>2, <3>2, <3>3 DEF Wanted
    <3> QED BY <3>3, <3>4 DEF Visited
  <2>5. {CellAt(visited[k]) : k \in DOMAIN visited} = Promised(request)
    BY <2>3, <2>4
  <2> QED BY <2>5 DEF VisitInv
<1> QED BY <1>1, InitInv, NextInv, VisitInit, VisitNext, PTL DEF AreaSpec

-----------------------------------------------------------------------------
(* Filters over windows *)

\* What the algorithms over windows are called with.
ImageOK(r) ==
    /\ r.rows \in Nat \ {0} /\ r.cols \in Nat \ {0}
    /\ r.data \in [Cells(r) -> Int] /\ r.missing \in SUBSET Cells(r)

\* A raster has finitely many cells.
LEMMA ImageFinite ==
    ASSUME NEW r, ImageOK(r)
    PROVE  IsFiniteSet(Cells(r)) /\ \A S \in SUBSET Cells(r) : IsFiniteSet(S)
<1>1. IsFiniteSet(0 .. r.rows - 1) /\ IsFiniteSet(0 .. r.cols - 1)
  <2>1. 0 \in Int /\ r.rows - 1 \in Int /\ r.cols - 1 \in Int
    BY DEF ImageOK
  <2> QED BY <2>1, FS_Interval
<1>2. IsFiniteSet(Cells(r))
  BY <1>1, FS_Product DEF Cells
<1> QED BY <1>2, FS_Subset

\* The sum over a set of cells, one cell after the other.
LEMMA SumOfIs ==
    ASSUME NEW S, NEW f
    PROVE  SumOf(f, S) = SumFunctionOnSet(f, S)
BY DEF SumOf, MapThenSumSet, SumFunctionOnSet, FoldFunctionOnSet, MapThenFoldSet

\* A sum is an integer, zero over nothing, and takes one cell after the other.
LEMMA SumOfLaws ==
    ASSUME NEW S, IsFiniteSet(S), NEW f, \A x \in S : f[x] \in Int
    PROVE  /\ SumOf(f, S) \in Int
           /\ SumOf(f, {}) = 0
           /\ \A x \in S : SumOf(f, S) = f[x] + SumOf(f, S \ {x})
<1>1. SumOf(f, S) \in Int
  BY SumOfIs, SumType
<1>2. SumOf(f, {}) = 0
  BY SumOfIs, SumEmpty
<1>3. ASSUME NEW x \in S PROVE SumOf(f, S) = f[x] + SumOf(f, S \ {x})
  <2>1. SumFunctionOnSet(f, S) = f[x] + SumFunctionOnSet(f, S \ {x})
    BY SumRemove
  <2> QED BY <2>1, SumOfIs
<1> QED BY <1>1, <1>2, <1>3

\* Only the elements that are summed matter.
LEMMA SumOfSame ==
    ASSUME NEW S, IsFiniteSet(S), NEW f, NEW h, \A x \in S : f[x] \in Int /\ h[x] = f[x]
    PROVE  SumOf(h, S) = SumOf(f, S)
<1>1. SumFunctionOnSet(h, S) = SumFunctionOnSet(f, S)
  BY SumSame
<1> QED BY <1>1, SumOfIs

\* The sum over two sets without a cell in common.
LEMMA SumOfBoth ==
    ASSUME NEW S, NEW T, IsFiniteSet(S), IsFiniteSet(T), S \cap T = {},
           NEW f, \A x \in S \cup T : f[x] \in Int
    PROVE  SumOf(f, S \cup T) = SumOf(f, S) + SumOf(f, T)
<1> DEFINE Off == {part \in SUBSET T : SumOf(f, S \cup part) # SumOf(f, S) + SumOf(f, part)}
<1>1. Off = {}
  <2> SUFFICES ASSUME Off # {} PROVE FALSE
    OBVIOUS
  <2>1. PICK part \in Off : \A x \in part : part \ {x} \notin Off
    <3>1. Off \in SUBSET (SUBSET T)
      OBVIOUS
    <3> HIDE DEF Off
    <3> QED BY <3>1, MinimalSet
  <2>2. part \in SUBSET T /\ SumOf(f, S \cup part) # SumOf(f, S) + SumOf(f, part)
    OBVIOUS
  <2>3. IsFiniteSet(part) /\ IsFiniteSet(S \cup part)
    BY <2>2, FS_Subset, FS_Union
  <2>4. SumOf(f, S) \in Int /\ SumOf(f, {}) = 0
    BY SumOfLaws
  <2>5. part # {}
    <3> SUFFICES ASSUME part = {} PROVE FALSE
      OBVIOUS
    <3>1. S \cup part = S
      OBVIOUS
    <3> QED BY <2>2, <2>4, <3>1
  <2>6. PICK x \in part : TRUE
    BY <2>5
  <2> DEFINE rest == part \ {x}
  <2>7. rest \in SUBSET T /\ SumOf(f, S \cup rest) = SumOf(f, S) + SumOf(f, rest)
    BY <2>1, <2>2, <2>6
  <2>8. SumOf(f, part) = f[x] + SumOf(f, rest)
    BY <2>2, <2>3, <2>6, SumOfLaws
  <2>9. SumOf(f, S \cup part) = f[x] + SumOf(f, S \cup rest)
    <3>1. (S \cup part) \ {x} = S \cup rest /\ x \in S \cup part
      BY <2>2, <2>6
    <3>2. \A y \in S \cup part : f[y] \in Int
      BY <2>2
    <3> HIDE DEF rest
    <3>3. SumOf(f, S \cup part) = f[x] + SumOf(f, (S \cup part) \ {x})
      BY <2>3, <3>1, <3>2, SumOfLaws
    <3> QED BY <3>1, <3>3
  <2>10. SumOf(f, rest) \in Int /\ f[x] \in Int
    BY <2>2, <2>3, <2>6, FS_Subset, SumOfLaws
  <2> HIDE DEF rest
  <2> QED BY <2>2, <2>4, <2>7, <2>8, <2>9, <2>10
<1> QED BY <1>1

\* What is zero adds nothing.
LEMMA SumOfZeros ==
    ASSUME NEW S, IsFiniteSet(S), NEW f, \A x \in S : f[x] = 0
    PROVE  SumOf(f, S) = 0
<1> DEFINE Off == {part \in SUBSET S : SumOf(f, part) # 0}
<1>1. Off = {}
  <2> SUFFICES ASSUME Off # {} PROVE FALSE
    OBVIOUS
  <2>1. PICK part \in Off : \A x \in part : part \ {x} \notin Off
    <3>1. Off \in SUBSET (SUBSET S)
      OBVIOUS
    <3> HIDE DEF Off
    <3> QED BY <3>1, MinimalSet
  <2>2. part \in SUBSET S /\ SumOf(f, part) # 0 /\ IsFiniteSet(part)
    BY FS_Subset
  <2>3. part # {}
    BY <2>2, SumOfLaws
  <2>4. PICK x \in part : SumOf(f, part \ {x}) = 0 /\ f[x] = 0
    BY <2>1, <2>2, <2>3
  <2>5. SumOf(f, part) = f[x] + SumOf(f, part \ {x})
    BY <2>2, <2>4, SumOfLaws
  <2> QED BY <2>2, <2>4, <2>5
<1> QED BY <1>1

\* Zeros can be left out of a sum.
LEMMA SumOfRest ==
    ASSUME NEW S, IsFiniteSet(S), NEW part \in SUBSET S, NEW f,
           \A x \in S : f[x] \in Int, \A x \in S \ part : f[x] = 0
    PROVE  SumOf(f, S) = SumOf(f, part)
<1>1. IsFiniteSet(part) /\ IsFiniteSet(S \ part) /\ S = part \cup (S \ part)
  BY FS_Subset
<1>2. SumOf(f, part \cup (S \ part)) = SumOf(f, part) + SumOf(f, S \ part)
  BY <1>1, SumOfBoth
<1>3. SumOf(f, S \ part) = 0 /\ SumOf(f, part) \in Int
  BY <1>1, SumOfZeros, SumOfLaws
<1>4. SumOf(f, S) = SumOf(f, part \cup (S \ part))
  BY <1>1, Zenon
<1> QED BY <1>2, <1>3, <1>4

\* Reading nodata as zero makes no difference to a sum.
LEMMA SourceIs ==
    ASSUME NEW r, ImageOK(r)
    PROVE  /\ Source(r) \in [Cells(r) -> Int]
           /\ \A X : SumOf(r.data, DataIn(r, X)) = SumOf(Source(r), X \cap Cells(r))
<1>1. Source(r) \in [Cells(r) -> Int]
  BY DEF Source, ImageOK
<1>2. ASSUME NEW X
      PROVE  SumOf(r.data, DataIn(r, X)) = SumOf(Source(r), X \cap Cells(r))
  <2> DEFINE S == X \cap Cells(r)
             part == DataIn(r, X)
  <2>1. part \in SUBSET S /\ IsFiniteSet(S) /\ IsFiniteSet(part)
    BY ImageFinite DEF DataIn
  <2>2. \A x \in S \ part : Source(r)[x] = 0
    BY DEF DataIn, Source
  <2>3. \A x \in part : Source(r)[x] \in Int /\ r.data[x] = Source(r)[x]
    BY <1>1 DEF DataIn, Source
  <2>4. \A x \in S : Source(r)[x] \in Int
    BY <1>1
  <2> HIDE DEF S, part
  <2>5. SumOf(r.data, part) = SumOf(Source(r), part)
    BY <2>1, <2>3, SumOfSame
  <2>6. SumOf(Source(r), S) = SumOf(Source(r), part)
    BY <2>1, <2>2, <2>4, SumOfRest
  <2> QED BY <2>5, <2>6 DEF S, part
<1> QED BY <1>1, <1>2

\* The cells of a row, and of the rows above, up to a column.
RowTo(r, c) == {d \in Cells(r) : d[1] = c[1] /\ d[2] <= c[2]}
AreaTo(r, row, col) == {d \in Cells(r) : d[1] <= row /\ d[2] <= col}

\* The row and the column of a cell are numbers.
LEMMA CellParts ==
    ASSUME NEW r, ImageOK(r)
    PROVE  /\ \A c \in Cells(r) : /\ c = <<c[1], c[2]>>
                                  /\ c[1] \in Nat /\ c[2] \in Nat /\ c[1] < r.rows /\ c[2] < r.cols
           /\ \A a, b \in Nat : a < r.rows /\ b < r.cols => <<a, b>> \in Cells(r)
BY DEF Cells, ImageOK

\* A row up to a column is the row up to the one before and one cell more.
LEMMA RowToSteps ==
    ASSUME NEW r, ImageOK(r), NEW c \in Cells(r)
    PROVE  SumOf(Source(r), RowTo(r, c)) =
               Source(r)[c] + (IF c[2] = 0 THEN 0 ELSE SumOf(Source(r), RowTo(r, <<c[1], c[2] - 1>>)))
<1>1. /\ c = <<c[1], c[2]>> /\ c[1] \in Nat /\ c[2] \in Nat
      /\ \A d \in Cells(r) : d = <<d[1], d[2]>> /\ d[1] \in Nat /\ d[2] \in Nat
  BY CellParts
<1>2. RowTo(r, c) \in SUBSET Cells(r) /\ IsFiniteSet(RowTo(r, c)) /\ c \in RowTo(r, c)
  BY <1>1, ImageFinite DEF RowTo
<1>3. \A x \in RowTo(r, c) : Source(r)[x] \in Int
  BY <1>2, SourceIs
<1>4. SumOf(Source(r), RowTo(r, c)) = Source(r)[c] + SumOf(Source(r), RowTo(r, c) \ {c})
  BY <1>2, <1>3, SumOfLaws
<1>5. CASE c[2] = 0
  <2>1. RowTo(r, c) \ {c} = {}
    BY <1>1, <1>5 DEF RowTo
  <2>2. SumOf(Source(r), {}) = 0
    BY <1>2, <1>3, SumOfLaws
  <2>3. SumOf(Source(r), RowTo(r, c) \ {c}) = 0
    BY <2>1, <2>2, Zenon
  <2> QED BY <1>4, <1>5, <2>3
<1>6. CASE c[2] # 0
  <2> DEFINE left == <<c[1], c[2] - 1>>
  <2>1. RowTo(r, c) \ {c} = RowTo(r, left)
    BY <1>1, <1>6 DEF RowTo
  <2> QED BY <1>4, <1>6, <2>1
<1> QED BY <1>5, <1>6

\* A rectangle from the origin is the one without its last row and that row.
LEMMA AreaToSteps ==
    ASSUME NEW r, ImageOK(r), NEW c \in Cells(r)
    PROVE  SumOf(Source(r), AreaTo(r, c[1], c[2])) =
               SumOf(Source(r), RowTo(r, c))
               + (IF c[1] = 0 THEN 0 ELSE SumOf(Source(r), AreaTo(r, c[1] - 1, c[2])))
<1> DEFINE above == AreaTo(r, c[1] - 1, c[2])
<1>1. /\ c[1] \in Nat /\ c[2] \in Nat
      /\ \A d \in Cells(r) : d[1] \in Nat /\ d[2] \in Nat
  BY CellParts
<1>2. /\ RowTo(r, c) \in SUBSET Cells(r) /\ above \in SUBSET Cells(r)
      /\ IsFiniteSet(RowTo(r, c)) /\ IsFiniteSet(above)
  BY ImageFinite DEF RowTo, AreaTo
<1>3. AreaTo(r, c[1], c[2]) = RowTo(r, c) \cup above /\ RowTo(r, c) \cap above = {}
  BY <1>1 DEF RowTo, AreaTo
<1>4. \A x \in RowTo(r, c) \cup above : Source(r)[x] \in Int
  BY <1>2, SourceIs
<1>5. c[1] = 0 => above = {}
  BY <1>1 DEF AreaTo
<1> HIDE DEF above
<1>6. SumOf(Source(r), RowTo(r, c) \cup above) = SumOf(Source(r), RowTo(r, c)) + SumOf(Source(r), above)
  BY <1>2, <1>3, <1>4, SumOfBoth
<1>7. SumOf(Source(r), AreaTo(r, c[1], c[2])) = SumOf(Source(r), RowTo(r, c)) + SumOf(Source(r), above)
  BY <1>3, <1>6, Zenon
<1>8. SumOf(Source(r), {}) = 0 /\ SumOf(Source(r), RowTo(r, c)) \in Int
  BY <1>2, <1>4, SumOfLaws
<1>9. CASE c[1] = 0
  <2>1. SumOf(Source(r), above) = 0
    BY <1>5, <1>8, <1>9, Zenon
  <2> QED BY <1>7, <1>8, <1>9, <2>1
<1>10. CASE c[1] # 0
  BY <1>7, <1>10 DEF above
<1> QED BY <1>9, <1>10

\* The two passes of compute_integral_image, by rows and then by columns.
LEMMA IntegralImageIs ==
    ASSUME NEW r, ImageOK(r)
    PROVE  /\ compute_integral_image(r) \in [Cells(r) -> Int]
           /\ \A c \in Cells(r) :
                 compute_integral_image(r)[c] = SumOf(Source(r), AreaTo(r, c[1], c[2]))
<1> DEFINE image == Source(r)
           InRow(h) == h = [c \in Cells(r) |-> image[c] + IF c[2] = 0 THEN 0 ELSE h[<<c[1], c[2] - 1>>]]
           rowSum == CHOOSE h : InRow(h)
           InArea(h) == h = [c \in Cells(r) |-> rowSum[c] + IF c[1] = 0 THEN 0 ELSE h[<<c[1] - 1, c[2]>>]]
           area == CHOOSE h : InArea(h)
           rows == [c \in Cells(r) |-> SumOf(image, RowTo(r, c))]
           areas == [c \in Cells(r) |-> SumOf(image, AreaTo(r, c[1], c[2]))]
<1>1. compute_integral_image(r) = area
  BY DEF compute_integral_image
<1>2. \A c \in Cells(r) : image[c] \in Int
  BY SourceIs
<1>3. \A c \in Cells(r) : /\ c = <<c[1], c[2]>> /\ c[1] \in Nat /\ c[2] \in Nat
                          /\ c[1] < r.rows /\ c[2] < r.cols
  BY CellParts
<1>4. /\ \A c \in Cells(r) : c[2] # 0 => <<c[1], c[2] - 1>> \in Cells(r)
      /\ \A c \in Cells(r) : c[1] # 0 => <<c[1] - 1, c[2]>> \in Cells(r)
  <2>1. \A a, b \in Nat : a < r.rows /\ b < r.cols => <<a, b>> \in Cells(r)
    BY CellParts
  <2>2. r.rows \in Nat /\ r.cols \in Nat
    BY DEF ImageOK
  <2>3. ASSUME NEW c \in Cells(r), c[2] # 0 PROVE <<c[1], c[2] - 1>> \in Cells(r)
    BY <1>3, <2>1, <2>2, <2>3
  <2>4. ASSUME NEW c \in Cells(r), c[1] # 0 PROVE <<c[1] - 1, c[2]>> \in Cells(r)
    BY <1>3, <2>1, <2>2, <2>4
  <2> QED BY <2>3, <2>4
<1>5. /\ \A c \in Cells(r) : rows[c] \in Int /\ areas[c] \in Int
      /\ \A c \in Cells(r) : rows[c] = image[c] + IF c[2] = 0 THEN 0 ELSE rows[<<c[1], c[2] - 1>>]
      /\ \A c \in Cells(r) : areas[c] = rows[c] + IF c[1] = 0 THEN 0 ELSE areas[<<c[1] - 1, c[2]>>]
  <2>1. ASSUME NEW S \in SUBSET Cells(r) PROVE SumOf(image, S) \in Int
    <3>1. IsFiniteSet(S) /\ \A x \in S : image[x] \in Int
      BY <1>2, ImageFinite
    <3> QED BY <3>1, SumOfLaws
  <2>2. \A c \in Cells(r) : RowTo(r, c) \in SUBSET Cells(r) /\ AreaTo(r, c[1], c[2]) \in SUBSET Cells(r)
    BY DEF RowTo, AreaTo
  <2> HIDE DEF image
  <2>3. \A c \in Cells(r) : rows[c] \in Int /\ areas[c] \in Int
    BY <2>1, <2>2
  <2>4. ASSUME NEW c \in Cells(r)
        PROVE  /\ rows[c] = image[c] + IF c[2] = 0 THEN 0 ELSE rows[<<c[1], c[2] - 1>>]
               /\ areas[c] = rows[c] + IF c[1] = 0 THEN 0 ELSE areas[<<c[1] - 1, c[2]>>]
    <3>1. c[1] # 0 => areas[<<c[1] - 1, c[2]>>] = SumOf(image, AreaTo(r, c[1] - 1, c[2]))
      BY <1>4
    <3>2. c[2] # 0 => rows[<<c[1], c[2] - 1>>] = SumOf(image, RowTo(r, <<c[1], c[2] - 1>>))
      BY <1>4
    <3>3. rows[c] = SumOf(image, RowTo(r, c)) /\ areas[c] = SumOf(image, AreaTo(r, c[1], c[2]))
      OBVIOUS
    <3> HIDE DEF rows, areas
    <3>4. SumOf(image, RowTo(r, c)) =
               image[c] + (IF c[2] = 0 THEN 0 ELSE SumOf(image, RowTo(r, <<c[1], c[2] - 1>>)))
      BY RowToSteps DEF image
    <3>5. SumOf(image, AreaTo(r, c[1], c[2])) =
               SumOf(image, RowTo(r, c))
               + (IF c[1] = 0 THEN 0 ELSE SumOf(image, AreaTo(r, c[1] - 1, c[2])))
      BY AreaToSteps DEF image
    <3> QED BY <3>1, <3>2, <3>3, <3>4, <3>5
  <2> HIDE DEF rows, areas
  <2> QED BY <2>3, <2>4
<1>6. DOMAIN rows = Cells(r) /\ DOMAIN areas = Cells(r) /\ \A c \in Cells(r) : areas[c] = SumOf(image, AreaTo(r, c[1], c[2]))
  OBVIOUS
<1>7. rows = [c \in Cells(r) |-> rows[c]] /\ areas = [c \in Cells(r) |-> areas[c]]
  OBVIOUS
<1> HIDE DEF rows, areas, image
<1>8. InRow(rowSum)
  <2>1. rows = [c \in Cells(r) |-> image[c] + IF c[2] = 0 THEN 0 ELSE rows[<<c[1], c[2] - 1>>]]
    BY <1>5, <1>7
  <2>2. InRow(rows)
    BY <2>1, Zenon
  <2> HIDE DEF InRow
  <2> QED BY <2>2
<1> HIDE DEF rowSum
<1>9. \A c \in Cells(r) : rowSum[c] = image[c] + IF c[2] = 0 THEN 0 ELSE rowSum[<<c[1], c[2] - 1>>]
  BY <1>8, Zenon
<1>10. \A c \in Cells(r) : rowSum[c] = rows[c]
  <2> DEFINE Off == {k \in Nat : \E c \in Cells(r) : c[2] = k /\ rowSum[c] # rows[c]}
  <2>1. Off = {}
    <3> SUFFICES ASSUME Off # {} PROVE FALSE
      OBVIOUS
    <3>1. PICK k \in Off : \A m \in Off : k <= m
      <4>1. Off \in SUBSET Nat
        OBVIOUS
      <4> HIDE DEF Off
      <4> QED BY <4>1, LeastNatural
    <3>2. PICK c \in Cells(r) : c[2] = k /\ rowSum[c] # rows[c]
      OBVIOUS
    <3>3. c[2] # 0
      <4> SUFFICES ASSUME c[2] = 0 PROVE FALSE
        OBVIOUS
      <4> QED BY <1>5, <1>9, <3>2
    <3> DEFINE left == <<c[1], c[2] - 1>>
    <3>4. left \in Cells(r) /\ left[2] = k - 1 /\ k - 1 \in Nat /\ ~(k <= k - 1)
      BY <1>3, <1>4, <3>2, <3>3
    <3>5. rowSum[left] = rows[left]
      BY <3>1, <3>4
    <3> QED BY <1>5, <1>9, <3>2, <3>3, <3>5
  <2> QED BY <1>3, <2>1
<1>11. InArea(area)
  <2>1. areas = [c \in Cells(r) |-> rowSum[c] + IF c[1] = 0 THEN 0 ELSE areas[<<c[1] - 1, c[2]>>]]
    BY <1>5, <1>7, <1>10
  <2>2. InArea(areas)
    BY <2>1, Zenon
  <2> HIDE DEF InArea
  <2> QED BY <2>2
<1> HIDE DEF area
<1>12. \A c \in Cells(r) : area[c] = rowSum[c] + IF c[1] = 0 THEN 0 ELSE area[<<c[1] - 1, c[2]>>]
  BY <1>11, Zenon
<1>13. DOMAIN area = Cells(r) /\ area = [c \in Cells(r) |-> area[c]]
  <2>1. area = [c \in Cells(r) |-> rowSum[c] + IF c[1] = 0 THEN 0 ELSE area[<<c[1] - 1, c[2]>>]]
    BY <1>11, Zenon
  <2>2. DOMAIN area = Cells(r)
    BY <2>1
  <2> QED BY <2>1, <2>2
<1> HIDE DEF InArea, InRow
<1>14. \A c \in Cells(r) : area[c] = areas[c]
  <2> DEFINE Off == {k \in Nat : \E c \in Cells(r) : c[1] = k /\ area[c] # areas[c]}
  <2>1. Off = {}
    <3> SUFFICES ASSUME Off # {} PROVE FALSE
      OBVIOUS
    <3>1. PICK k \in Off : \A m \in Off : k <= m
      <4>1. Off \in SUBSET Nat
        OBVIOUS
      <4> HIDE DEF Off
      <4> QED BY <4>1, LeastNatural
    <3>2. PICK c \in Cells(r) : c[1] = k /\ area[c] # areas[c]
      OBVIOUS
    <3>3. c[1] # 0
      <4> SUFFICES ASSUME c[1] = 0 PROVE FALSE
        OBVIOUS
      <4> QED BY <1>5, <1>10, <1>12, <3>2
    <3> DEFINE up == <<c[1] - 1, c[2]>>
    <3>4. up \in Cells(r) /\ up[1] = k - 1 /\ k - 1 \in Nat /\ ~(k <= k - 1)
      BY <1>3, <1>4, <3>2, <3>3
    <3>5. area[up] = areas[up]
      BY <3>1, <3>4
    <3> QED BY <1>5, <1>10, <1>12, <3>2, <3>3, <3>5
  <2> QED BY <1>3, <2>1
<1>15. area \in [Cells(r) -> Int]
  BY <1>5, <1>13, <1>14
<1> QED BY <1>1, <1>6, <1>14, <1>15 DEF image

\* What the integral image holds for a corner, which may be outside.
Corner(r, row, col) ==
    IF row < 0 \/ col < 0 THEN 0
    ELSE compute_integral_image(r)[<<Least(row, r.rows - 1), Least(col, r.cols - 1)>>]

\* At a corner of a rectangle, be it cut off, the integral image holds the sum
\* of what is left and above.
LEMMA CornerIs ==
    ASSUME NEW r, ImageOK(r), NEW row \in Int, NEW col \in Int
    PROVE  Corner(r, row, col) = SumOf(Source(r), AreaTo(r, row, col))
<1>1. \A d \in Cells(r) : d[1] \in Nat /\ d[2] \in Nat /\ d[1] < r.rows /\ d[2] < r.cols
  BY CellParts
<1>2. r.rows \in Nat \ {0} /\ r.cols \in Nat \ {0}
  BY DEF ImageOK
<1>3. CASE row < 0 \/ col < 0
  <2>1. AreaTo(r, row, col) = {}
    BY <1>1, <1>3 DEF AreaTo
  <2>2. SumOf(Source(r), {}) = 0
    BY SumOfIs, SumEmpty
  <2>3. SumOf(Source(r), AreaTo(r, row, col)) = 0
    BY <2>1, <2>2, Zenon
  <2> QED BY <1>3, <2>3 DEF Corner
<1>4. CASE ~(row < 0 \/ col < 0)
  <2> DEFINE a == Least(row, r.rows - 1)
             b == Least(col, r.cols - 1)
  <2>1. a \in Nat /\ b \in Nat /\ a < r.rows /\ b < r.cols
    BY <1>2, <1>4 DEF Least
  <2>2. AreaTo(r, row, col) = AreaTo(r, a, b)
    <3>1. \A x \in Nat : x < r.rows => (x <= row <=> x <= a)
      BY <1>2 DEF Least
    <3>2. \A x \in Nat : x < r.cols => (x <= col <=> x <= b)
      BY <1>2 DEF Least
    <3> HIDE DEF a, b
    <3> QED BY <1>1, <3>1, <3>2 DEF AreaTo
  <2>3. Corner(r, row, col) = compute_integral_image(r)[<<a, b>>]
    BY <1>4 DEF Corner
  <2> HIDE DEF a, b
  <2>4. <<a, b>> \in Cells(r)
    BY <2>1, CellParts
  <2>5. compute_integral_image(r)[<<a, b>>] = SumOf(Source(r), AreaTo(r, a, b))
    BY <2>4, IntegralImageIs
  <2> QED BY <2>2, <2>3, <2>5
<1> QED BY <1>3, <1>4

\* The four corners leave the cells of the rectangle between them.
LEMMA RectangleIs ==
    ASSUME NEW r, ImageOK(r), NEW first \in Int \X Int, NEW last \in Int \X Int,
           first[1] <= last[1], first[2] <= last[2]
    PROVE  compute_sum_within_rectangle(r, compute_integral_image(r), first, last) =
               SumOf(Source(r), {d \in Cells(r) : /\ first[1] < d[1] /\ d[1] <= last[1]
                                                  /\ first[2] < d[2] /\ d[2] <= last[2]})
<1> DEFINE A == AreaTo(r, first[1], first[2])
           B == AreaTo(r, first[1], last[2])
           C == AreaTo(r, last[1], first[2])
           E == AreaTo(r, last[1], last[2])
           R == {d \in Cells(r) : /\ first[1] < d[1] /\ d[1] <= last[1]
                                  /\ first[2] < d[2] /\ d[2] <= last[2]}
           total(S) == SumOf(Source(r), S)
<1>1. first[1] \in Int /\ first[2] \in Int /\ last[1] \in Int /\ last[2] \in Int
  OBVIOUS
<1>2. compute_sum_within_rectangle(r, compute_integral_image(r), first, last) =
          Corner(r, last[1], last[2]) + Corner(r, first[1], first[2])
          - Corner(r, first[1], last[2]) - Corner(r, last[1], first[2])
  BY DEF compute_sum_within_rectangle, Corner
<1>3. /\ Corner(r, last[1], last[2]) = total(E) /\ Corner(r, first[1], first[2]) = total(A)
      /\ Corner(r, first[1], last[2]) = total(B) /\ Corner(r, last[1], first[2]) = total(C)
  BY <1>1, CornerIs
<1>4. \A d \in Cells(r) : d[1] \in Nat /\ d[2] \in Nat
  BY CellParts
<1>5. /\ A \in SUBSET Cells(r) /\ B \in SUBSET Cells(r) /\ C \in SUBSET Cells(r)
      /\ E \in SUBSET Cells(r) /\ R \in SUBSET Cells(r)
  BY DEF AreaTo
<1>6. B = A \cup (B \ A) /\ C = A \cup (C \ A) /\ E = (B \cup (C \ A)) \cup R
  BY <1>1, <1>4 DEF AreaTo
<1>7. B \cap (C \ A) = {} /\ (B \cup (C \ A)) \cap R = {}
  BY <1>1, <1>4 DEF AreaTo
<1> HIDE DEF A, B, C, E, R
<1>8. ASSUME NEW S \in SUBSET Cells(r), NEW T \in SUBSET Cells(r), S \cap T = {}
      PROVE  total(S \cup T) = total(S) + total(T)
  <2>1. IsFiniteSet(S) /\ IsFiniteSet(T) /\ \A x \in S \cup T : Source(r)[x] \in Int
    BY ImageFinite, SourceIs
  <2> QED BY <1>8, <2>1, SumOfBoth
<1>9. \A S \in SUBSET Cells(r) : total(S) \in Int
  <2> SUFFICES ASSUME NEW S \in SUBSET Cells(r) PROVE total(S) \in Int
    OBVIOUS
  <2>1. IsFiniteSet(S) /\ \A x \in S : Source(r)[x] \in Int
    BY ImageFinite, SourceIs
  <2> QED BY <2>1, SumOfLaws
<1> HIDE DEF total
<1>10. total(C) = total(A) + total(C \ A)
  <2>1. total(A \cup (C \ A)) = total(A) + total(C \ A)
    BY <1>5, <1>8
  <2>2. total(A \cup (C \ A)) = total(C)
    BY <1>6, Zenon
  <2> QED BY <2>1, <2>2
<1>11. total(E) = total(B) + total(C \ A) + total(R)
  <2>1. total(B \cup (C \ A)) = total(B) + total(C \ A)
    BY <1>5, <1>7, <1>8
  <2>2. total((B \cup (C \ A)) \cup R) = total(B \cup (C \ A)) + total(R)
    <3>1. B \cup (C \ A) \in SUBSET Cells(r)
      BY <1>5
    <3> QED BY <1>5, <1>7, <1>8, <3>1
  <2>3. total((B \cup (C \ A)) \cup R) = total(E)
    BY <1>6, Zenon
  <2> QED BY <2>1, <2>2, <2>3
<1>12. total(A) \in Int /\ total(B) \in Int /\ total(C \ A) \in Int /\ total(R) \in Int
  BY <1>5, <1>9
<1>13. total(E) + total(A) - total(B) - total(C) = total(R)
  BY <1>10, <1>11, <1>12
<1> QED BY <1>2, <1>3, <1>13 DEF total, R

\* Four corners of the integral image give the sum of a square.
LEMMA SquareSumIs ==
    ASSUME NEW r, ImageOK(r), NEW cell \in Cells(r), NEW radius \in Nat
    PROVE  compute_sum_within_rectangle_around(r, compute_integral_image(r), cell, radius) =
               SumOf(Source(r), SquareAround(r, cell, radius))
<1> DEFINE first == <<cell[1] - radius - 1, cell[2] - radius - 1>>
           last == <<cell[1] + radius, cell[2] + radius>>
           R == {d \in Cells(r) : /\ first[1] < d[1] /\ d[1] <= last[1]
                                  /\ first[2] < d[2] /\ d[2] <= last[2]}
<1>1. /\ cell[1] \in Nat /\ cell[2] \in Nat
      /\ \A d \in Cells(r) : d[1] \in Nat /\ d[2] \in Nat
  BY CellParts
<1>2. /\ first \in Int \X Int /\ last \in Int \X Int
      /\ first[1] <= last[1] /\ first[2] <= last[2]
  BY <1>1
<1>3. compute_sum_within_rectangle_around(r, compute_integral_image(r), cell, radius) =
          compute_sum_within_rectangle(r, compute_integral_image(r), first, last)
  BY DEF compute_sum_within_rectangle_around
<1>4. R = SquareAround(r, cell, radius)
  BY <1>1 DEF SquareAround
<1> HIDE DEF first, last
<1>5. compute_sum_within_rectangle(r, compute_integral_image(r), first, last) = SumOf(Source(r), R)
  BY <1>2, RectangleIs
<1> QED BY <1>3, <1>4, <1>5

\* A product with itself is no smaller than the factor.
LEMMA SquareGrows ==
    ASSUME NEW a \in Int, NEW n \in Nat, a * a <= n * n
    PROVE  a \in -n .. n
<1>1. SUFFICES ASSUME a > n \/ a < -n PROVE FALSE
  OBVIOUS
<1>2. PICK b \in Nat : b > n /\ b * b = a * a
  <2>1. CASE a > n
    BY <2>1
  <2>2. CASE a < -n
    <3>1. (-a) * (-a) = a * a
      OBVIOUS
    <3> QED BY <2>2, <3>1
  <2> QED BY <1>1, <2>1, <2>2
<1>3. PICK d \in Nat \ {0} : b = n + d
  <2>1. b - n \in Nat \ {0} /\ b = n + (b - n)
    BY <1>2
  <2> QED BY <2>1
<1>4. b * b = n * n + 2 * (n * d) + d * d
  BY <1>3
<1>5. n * d \in Nat /\ d * d \in Nat \ {0}
  BY <1>3
<1> QED BY <1>2, <1>4, <1>5

\* The places that are at some offsets from a cell.
PlacesAt(cell, offsets) == {<<cell[1] + d[1], cell[2] + d[2]>> : d \in offsets}

\* A place is at one of the offsets if its offset from the cell is one of them.
LEMMA PlacesAtIs ==
    ASSUME NEW cell \in Int \X Int, NEW offsets \in SUBSET (Int \X Int), NEW x \in Int \X Int
    PROVE  x \in PlacesAt(cell, offsets) <=> <<x[1] - cell[1], x[2] - cell[2]>> \in offsets
<1>1. ASSUME NEW d \in offsets, x = <<cell[1] + d[1], cell[2] + d[2]>>
      PROVE  <<x[1] - cell[1], x[2] - cell[2]>> \in offsets
  <2>1. d = <<d[1], d[2]>> /\ d[1] \in Int /\ d[2] \in Int
    OBVIOUS
  <2>2. x[1] - cell[1] = d[1] /\ x[2] - cell[2] = d[2]
    BY <1>1, <2>1
  <2> QED BY <2>1, <2>2
<1>2. ASSUME <<x[1] - cell[1], x[2] - cell[2]>> \in offsets
      PROVE  x \in PlacesAt(cell, offsets)
  <2> DEFINE d == <<x[1] - cell[1], x[2] - cell[2]>>
  <2>1. x = <<cell[1] + d[1], cell[2] + d[2]>>
    OBVIOUS
  <2> QED BY <1>2, <2>1 DEF PlacesAt
<1> QED BY <1>1, <1>2 DEF PlacesAt

\* A circle is what is within its radius.
LEMMA CircleIs ==
    ASSUME NEW r, ImageOK(r), NEW cell \in Cells(r), NEW radius \in Nat
    PROVE  /\ PlacesAt(cell, Circle(radius)) \cap Cells(r) = Within(r, cell, Squared(radius))
           /\ Within(r, cell, Squared(radius)) \in SUBSET SquareAround(r, cell, radius)
<1>1. /\ cell \in Int \X Int /\ cell[1] \in Int /\ cell[2] \in Int
      /\ \A x \in Cells(r) : x \in Int \X Int /\ x[1] \in Int /\ x[2] \in Int
  BY CellParts
<1>2. Circle(radius) \in SUBSET (Int \X Int)
  BY DEF Circle
<1>3. ASSUME NEW x \in Cells(r)
      PROVE  /\ x \in PlacesAt(cell, Circle(radius)) <=> x \in Within(r, cell, Squared(radius))
             /\ x \in Within(r, cell, Squared(radius)) => x \in SquareAround(r, cell, radius)
  <2> DEFINE a == x[1] - cell[1]
             b == x[2] - cell[2]
             n2 == radius * radius
  <2>1. a \in Int /\ b \in Int /\ n2 \in Int
    BY <1>1
  <2>2. x \in PlacesAt(cell, Circle(radius)) <=> <<a, b>> \in Circle(radius)
    BY <1>1, <1>2, PlacesAtIs
  <2>3. x \in Within(r, cell, Squared(radius)) <=> a * a + b * b <= n2
    BY DEF Within, D2, Squared
  <2>4. x \in SquareAround(r, cell, radius) <=> a \in -radius .. radius /\ b \in -radius .. radius
    BY DEF SquareAround
  <2> HIDE DEF a, b
  <2>5. <<a, b>> \in Circle(radius) <=>
            a \in -radius .. radius /\ b \in -radius .. radius /\ a * a + b * b <= n2
    BY DEF Circle, Squared
  <2>6. ASSUME a * a + b * b <= n2 PROVE a \in -radius .. radius /\ b \in -radius .. radius
    <3>1. a * a \in Nat /\ b * b \in Nat
      BY <2>1
    <3>2. a * a <= n2 /\ b * b <= n2
      BY <2>1, <2>6, <3>1
    <3> QED BY <2>1, <3>2, SquareGrows
  <2> HIDE DEF n2
  <2> QED BY <2>2, <2>3, <2>4, <2>5, <2>6
<1> QED BY <1>3 DEF Within

\* Moved by one cell, a set of places gains and loses those at two borders.
Gained(offsets, step) == {d \in offsets : <<d[1] + step[1], d[2] + step[2]>> \notin offsets}
Lost(offsets, step) == {<<d[1] - step[1], d[2] - step[2]>> : d \in offsets} \ offsets

PlacesSum(r, cell, offsets) == SumOf(Source(r), PlacesAt(cell, offsets) \cap Cells(r))

\* A circle that moves gains the border on one side and loses that on the other.
LEMMA MovedPlaces ==
    ASSUME NEW r, ImageOK(r), NEW cell \in Cells(r), NEW offsets \in SUBSET (Int \X Int),
           NEW step \in Int \X Int
    PROVE  PlacesSum(r, cell, offsets) =
               PlacesSum(r, <<cell[1] - step[1], cell[2] - step[2]>>, offsets)
               + PlacesSum(r, cell, Gained(offsets, step)) - PlacesSum(r, cell, Lost(offsets, step))
<1> DEFINE before == <<cell[1] - step[1], cell[2] - step[2]>>
           plus == Gained(offsets, step)
           shifted == {<<d[1] - step[1], d[2] - step[2]>> : d \in offsets}
           min == Lost(offsets, step)
           K == PlacesAt(cell, offsets) \cap Cells(r)
           P == PlacesAt(before, offsets) \cap Cells(r)
           G == PlacesAt(cell, plus) \cap Cells(r)
           L == PlacesAt(cell, min) \cap Cells(r)
           total(S) == SumOf(Source(r), S)
<1>1. /\ cell \in Int \X Int /\ cell[1] \in Int /\ cell[2] \in Int
      /\ step[1] \in Int /\ step[2] \in Int
      /\ \A x \in Cells(r) : x \in Int \X Int /\ x[1] \in Int /\ x[2] \in Int
  BY CellParts
<1>2. /\ before \in Int \X Int /\ before[1] = cell[1] - step[1] /\ before[2] = cell[2] - step[2]
      /\ plus \in SUBSET (Int \X Int) /\ min \in SUBSET (Int \X Int)
  BY <1>1 DEF Gained, Lost
<1>3. ASSUME NEW x \in Cells(r)
      PROVE  /\ x \in G <=> x \in K /\ x \notin P
             /\ x \in L <=> x \in P /\ x \notin K
  <2> DEFINE d == <<x[1] - cell[1], x[2] - cell[2]>>
             e == <<d[1] + step[1], d[2] + step[2]>>
  <2>1. d \in Int \X Int /\ e \in Int \X Int /\ e = <<x[1] - before[1], x[2] - before[2]>>
    BY <1>1, <1>2
  <2>2. d = <<e[1] - step[1], e[2] - step[2]>>
    BY <1>1
  <2>3. x \in K <=> d \in offsets
    BY <1>1, PlacesAtIs
  <2>4. x \in P <=> e \in offsets
    BY <1>1, <1>2, <2>1, PlacesAtIs
  <2>5. x \in G <=> d \in plus
    BY <1>1, <1>2, PlacesAtIs
  <2>6. x \in L <=> d \in min
    BY <1>1, <1>2, PlacesAtIs
  <2>7. d \in shifted <=> e \in offsets
    <3>1. ASSUME NEW o \in offsets, d = <<o[1] - step[1], o[2] - step[2]>> PROVE e = o
      <4>1. o = <<o[1], o[2]>> /\ o[1] \in Int /\ o[2] \in Int
        OBVIOUS
      <4>2. d[1] = o[1] - step[1] /\ d[2] = o[2] - step[2]
        BY <3>1, Zenon
      <4>3. d[1] + step[1] = o[1] /\ d[2] + step[2] = o[2]
        BY <1>1, <4>1, <4>2
      <4> QED BY <4>1, <4>3
    <3> HIDE DEF d, e
    <3>2. e \in offsets => d \in shifted
      BY <2>2
    <3> QED BY <3>1, <3>2
  <2> HIDE DEF shifted, d, e, K, P, G, L
  <2>8. d \in plus <=> d \in offsets /\ e \notin offsets
    BY DEF e, Gained
  <2>9. d \in min <=> d \in shifted /\ d \notin offsets
    BY DEF Lost, shifted
  <2> QED BY <2>3, <2>4, <2>5, <2>6, <2>7, <2>8, <2>9
<1>4. /\ K \in SUBSET Cells(r) /\ P \in SUBSET Cells(r) /\ G \in SUBSET Cells(r) /\ L \in SUBSET Cells(r)
  OBVIOUS
<1> HIDE DEF K, P, G, L
<1>5. G = K \ P /\ L = P \ K
  BY <1>3, <1>4
<1>6. K = (K \cap P) \cup G /\ P = (K \cap P) \cup L /\ (K \cap P) \cap G = {} /\ (K \cap P) \cap L = {}
  BY <1>5
<1>7. ASSUME NEW S \in SUBSET Cells(r), NEW T \in SUBSET Cells(r), S \cap T = {}
      PROVE  total(S \cup T) = total(S) + total(T) /\ total(S) \in Int /\ total(T) \in Int
  <2>1. IsFiniteSet(S) /\ IsFiniteSet(T) /\ \A x \in S \cup T : Source(r)[x] \in Int
    BY ImageFinite, SourceIs
  <2> QED BY <1>7, <2>1, SumOfBoth, SumOfLaws
<1>8. K \cap P \in SUBSET Cells(r)
  BY <1>4
<1> HIDE DEF total
<1>9. total((K \cap P) \cup G) = total(K \cap P) + total(G) /\ total(K \cap P) \in Int /\ total(G) \in Int
  BY <1>4, <1>6, <1>7, <1>8
<1>10. total((K \cap P) \cup L) = total(K \cap P) + total(L) /\ total(L) \in Int
  BY <1>4, <1>6, <1>7, <1>8
<1>11. total(K) = total((K \cap P) \cup G) /\ total(P) = total((K \cap P) \cup L)
  BY <1>6, Zenon
<1>12. total(K) = total(P) + total(G) - total(L)
  BY <1>9, <1>10, <1>11
<1> QED BY <1>12 DEF PlacesSum, total, K, P, G, L, before, plus, min

\* The row and the column of the k-th cell.
LEMMA RowAndColumn ==
    ASSUME NEW m \in Nat \ {0}, NEW n \in Nat \ {0}
    PROVE  /\ \A k \in 1 .. m * n : (k - 1) \div n \in 0 .. m - 1 /\ (k - 1) % n \in 0 .. n - 1
           /\ \A row \in 0 .. m - 1, col \in 0 .. n - 1 :
                 \E k \in 1 .. m * n : (k - 1) \div n = row /\ (k - 1) % n = col
           /\ \A k, l \in 1 .. m * n :
                 (k - 1) \div n = (l - 1) \div n /\ (k - 1) % n = (l - 1) % n => k = l
<1>1. ASSUME NEW k \in 1 .. m * n
      PROVE  (k - 1) \div n \in 0 .. m - 1 /\ (k - 1) % n \in 0 .. n - 1
  <2>1. k - 1 \in Nat /\ k - 1 < m * n
    OBVIOUS
  <2> QED BY <2>1
<1>2. ASSUME NEW row \in 0 .. m - 1, NEW col \in 0 .. n - 1
      PROVE  \E k \in 1 .. m * n : (k - 1) \div n = row /\ (k - 1) % n = col
  <2> DEFINE k == row * n + col
  <2>1. k \in Nat /\ k < m * n
    <3>1. row * n + n <= m * n
      OBVIOUS
    <3>2. row * n \in Nat
      OBVIOUS
    <3> QED BY <3>1, <3>2
  <2>2. k \div n = row /\ k % n = col
    OBVIOUS
  <2> HIDE DEF k
  <2>3. k + 1 \in 1 .. m * n /\ (k + 1) - 1 = k
    BY <2>1
  <2> QED BY <2>2, <2>3
<1>3. ASSUME NEW k \in 1 .. m * n, NEW l \in 1 .. m * n,
             (k - 1) \div n = (l - 1) \div n, (k - 1) % n = (l - 1) % n
      PROVE  k = l
  <2>1. \A a \in Int : a = n * (a \div n) + (a % n)
    OBVIOUS
  <2>2. k - 1 = n * ((k - 1) \div n) + ((k - 1) % n) /\ l - 1 = n * ((l - 1) \div n) + ((l - 1) % n)
    BY <2>1
  <2>3. k - 1 = l - 1
    BY <1>3, <2>2
  <2> QED BY <2>3
<1> QED BY <1>1, <1>2, <1>3

\* The cells in the order of the loops.
LEMMA ScanIs ==
    ASSUME NEW r, ImageOK(r)
    PROVE  /\ Scan(r) \in Seq(Cells(r)) /\ Len(Scan(r)) = r.rows * r.cols
           /\ DOMAIN Scan(r) = 1 .. r.rows * r.cols /\ r.rows * r.cols \in Nat \ {0}
           /\ \A c \in Cells(r) : \E k \in 1 .. r.rows * r.cols : Scan(r)[k] = c
           /\ \A k, l \in 1 .. r.rows * r.cols : Scan(r)[k] = Scan(r)[l] => k = l
<1> DEFINE n == r.rows * r.cols
<1>1. r.rows \in Nat \ {0} /\ r.cols \in Nat \ {0} /\ n \in Nat \ {0}
  BY DEF ImageOK
<1>2. Scan(r) = [k \in 1 .. n |-> <<(k - 1) \div r.cols, (k - 1) % r.cols>>]
  BY DEF Scan
<1>4. \A k \in 1 .. n : <<(k - 1) \div r.cols, (k - 1) % r.cols>> \in Cells(r)
  BY <1>1, RowAndColumn DEF Cells
<1>3. \A row \in 0 .. r.rows - 1, col \in 0 .. r.cols - 1 :
          \E k \in 1 .. n : (k - 1) \div r.cols = row /\ (k - 1) % r.cols = col
  BY <1>1, RowAndColumn
<1>5. ASSUME NEW row \in 0 .. r.rows - 1, NEW col \in 0 .. r.cols - 1
      PROVE  \E k \in 1 .. n : Scan(r)[k] = <<row, col>>
  <2>1. PICK k \in 1 .. n : (k - 1) \div r.cols = row /\ (k - 1) % r.cols = col
    BY <1>3
  <2> QED BY <1>2, <2>1
<1>6. ASSUME NEW k \in 1 .. n, NEW l \in 1 .. n, Scan(r)[k] = Scan(r)[l] PROVE k = l
  <2>1. (k - 1) \div r.cols = (l - 1) \div r.cols /\ (k - 1) % r.cols = (l - 1) % r.cols
    BY <1>2, <1>6
  <2> QED BY <1>1, <2>1, RowAndColumn
<1>7. Scan(r) \in [1 .. n -> Cells(r)]
  BY <1>2, <1>4
<1>8. ASSUME NEW c \in Cells(r) PROVE \E k \in 1 .. n : Scan(r)[k] = c
  <2>1. PICK row \in 0 .. r.rows - 1, col \in 0 .. r.cols - 1 : c = <<row, col>>
    BY DEF Cells
  <2>2. \E k \in 1 .. n : Scan(r)[k] = <<row, col>>
    BY <1>5
  <2> QED BY <2>1, <2>2
<1> HIDE DEF n
<1>9. Scan(r) \in Seq(Cells(r)) /\ Len(Scan(r)) = n /\ DOMAIN Scan(r) = 1 .. n
  BY <1>1, <1>7
<1> QED BY <1>1, <1>6, <1>8, <1>9 DEF n

\* What a circle sums to.
CircleSum(r, cell, radius) == SumOf(Source(r), Within(r, cell, Squared(radius)))

\* A square sums to zero although not all of its elements are zero.
Misled(r, radius) ==
    \E cell \in Cells(r) :
        /\ ~(\A c \in DataIn(r, SquareAround(r, cell, radius)) : r.data[c] = 0)
        /\ SumOf(r.data, DataIn(r, SquareAround(r, cell, radius))) = 0

\* A sum at some offsets is an integer.
LEMMA CellsSumType ==
    ASSUME NEW r, ImageOK(r), NEW X
    PROVE  SumOf(Source(r), X \cap Cells(r)) \in Int
<1>1. IsFiniteSet(X \cap Cells(r)) /\ \A x \in X \cap Cells(r) : Source(r)[x] \in Int
  BY ImageFinite, SourceIs
<1> QED BY <1>1, SumOfLaws

\* The sum of a circle is an integer, from whatever circle it is computed.
LEMMA CircleStepType ==
    ASSUME NEW r, ImageOK(r), NEW cell \in Cells(r), NEW radius \in Nat, NEW prev, prev.sum \in Int
    PROVE  compute_sum_within_circle(r, compute_integral_image(r), cell, radius, prev) \in Int
<1> DEFINE area == compute_integral_image(r)
           none == compute_sum_within_rectangle_around(r, area, cell, radius) = 0
           b == circle_border_offsets(radius)
           in(o) == compute_sum_in_cells(r, cell, o)
<1>1. \A o : in(o) \in Int
  BY CellsSumType DEF compute_sum_in_cells
<1>2. compute_sum_within_circle(r, area, cell, radius, prev) =
         CASE none -> 0
           [] ~none /\ prev.at = <<cell[1], cell[2] - 1>> -> prev.sum + in(b.plusRight) - in(b.minLeft)
           [] ~none /\ prev.at = <<cell[1] - 1, cell[2]>> -> prev.sum + in(b.plusDown) - in(b.minTop)
           [] OTHER -> in(Circle(radius))
  BY DEF compute_sum_within_circle
<1> HIDE DEF area, none, b, in
<1>3. /\ prev.sum + in(b.plusRight) - in(b.minLeft) \in Int
      /\ prev.sum + in(b.plusDown) - in(b.minTop) \in Int
  BY <1>1
<1>4. compute_sum_within_circle(r, area, cell, radius, prev) \in Int
  BY <1>1, <1>2, <1>3
<1> QED BY <1>4 DEF area

\* The sum of a circle from that of the one to the left or above.
LEMMA CircleStep ==
    ASSUME NEW r, ImageOK(r), NEW cell \in Cells(r), NEW radius \in Nat, ~Misled(r, radius),
           NEW prev,
           \/ prev.at \in Cells(r) /\ prev.sum = CircleSum(r, prev.at, radius)
           \/ prev.at \notin {<<cell[1], cell[2] - 1>>, <<cell[1] - 1, cell[2]>>}
    PROVE  compute_sum_within_circle(r, compute_integral_image(r), cell, radius, prev) =
               CircleSum(r, cell, radius)
<1> DEFINE area == compute_integral_image(r)
           none == compute_sum_within_rectangle_around(r, area, cell, radius) = 0
           b == circle_border_offsets(radius)
           in(o) == compute_sum_in_cells(r, cell, o)
           left == <<cell[1], cell[2] - 1>>
           up == <<cell[1] - 1, cell[2]>>
           K == Circle(radius)
           total(o, at) == PlacesSum(r, at, o)
<1>1. compute_sum_within_circle(r, area, cell, radius, prev) =
         CASE none -> 0
           [] ~none /\ prev.at = left -> prev.sum + in(b.plusRight) - in(b.minLeft)
           [] ~none /\ prev.at = up -> prev.sum + in(b.plusDown) - in(b.minTop)
           [] OTHER -> in(K)
  BY DEF compute_sum_within_circle
<1>2. \A o : in(o) = total(o, cell)
  BY DEF compute_sum_in_cells, PlacesAt, PlacesSum
<1>3. \A at \in Cells(r) : total(K, at) = CircleSum(r, at, radius)
  <2> SUFFICES ASSUME NEW at \in Cells(r) PROVE total(K, at) = CircleSum(r, at, radius)
    OBVIOUS
  <2>1. PlacesAt(at, K) \cap Cells(r) = Within(r, at, Squared(radius))
    BY CircleIs
  <2> QED BY <2>1, Zenon DEF CircleSum, PlacesSum
<1>4. left # up
  <2>1. cell[1] \in Nat
    BY CellParts
  <2> QED BY <2>1
<1>5. CASE none
  <2>1. SumOf(Source(r), SquareAround(r, cell, radius)) = 0
    BY <1>5, SquareSumIs
  <2>2. SquareAround(r, cell, radius) \cap Cells(r) = SquareAround(r, cell, radius)
    BY DEF SquareAround
  <2>3. SumOf(r.data, DataIn(r, SquareAround(r, cell, radius))) =
            SumOf(Source(r), SquareAround(r, cell, radius) \cap Cells(r))
    BY SourceIs
  <2>4. SumOf(r.data, DataIn(r, SquareAround(r, cell, radius))) = 0
    BY <2>1, <2>2, <2>3
  <2>5. \A c \in DataIn(r, SquareAround(r, cell, radius)) : r.data[c] = 0
    BY <2>4 DEF Misled
  <2>6. \A c \in SquareAround(r, cell, radius) : Source(r)[c] = 0
    BY <2>5 DEF Source, DataIn, SquareAround
  <2>7. \A c \in Within(r, cell, Squared(radius)) : Source(r)[c] = 0
    BY <2>6, CircleIs
  <2>8. IsFiniteSet(Within(r, cell, Squared(radius)))
    BY ImageFinite DEF Within
  <2>9. CircleSum(r, cell, radius) = 0
    BY <2>7, <2>8, SumOfZeros DEF CircleSum
  <2> QED BY <1>1, <1>5, <2>9
<1>6. CASE ~none /\ prev.at \notin {left, up}
  <2>1. compute_sum_within_circle(r, area, cell, radius, prev) = in(K)
    BY <1>1, <1>6
  <2> QED BY <1>2, <1>3, <2>1
<1>7. CASE ~none /\ prev.at = left
  <2>1. left \in Cells(r) /\ prev.sum = CircleSum(r, left, radius)
    BY <1>7
  <2>2. compute_sum_within_circle(r, area, cell, radius, prev) = prev.sum + in(b.plusRight) - in(b.minLeft)
    BY <1>1, <1>4, <1>7
  <2> DEFINE step == <<0, 1>>
             before == <<cell[1] - step[1], cell[2] - step[2]>>
             plus == Gained(K, step)
             min == Lost(K, step)
  <2>3. K \in SUBSET (Int \X Int) /\ step \in Int \X Int
    BY DEF Circle
  <2>4. total(K, cell) = total(K, before) + total(plus, cell) - total(min, cell)
    <3> HIDE DEF K, step
    <3> QED BY <2>3, MovedPlaces
  <2>5. \A d \in K : d[1] \in Int /\ d[2] \in Int
    BY <2>3
  <2>6. before = left
    <3>1. cell[1] \in Nat /\ cell[2] \in Nat
      BY CellParts
    <3> QED BY <3>1
  <2>7. plus = b.plusRight /\ min = b.minLeft
    <3>1. \A d \in K : <<d[1] + step[1], d[2] + step[2]>> = <<d[1], d[2] + 1>>
      BY <2>5
    <3>2. \A d \in K : <<d[1] - step[1], d[2] - step[2]>> = <<d[1], d[2] - 1>>
      BY <2>5
    <3> HIDE DEF step
    <3>3. plus = {d \in K : <<d[1], d[2] + 1>> \notin K}
      BY <3>1 DEF Gained
    <3>4. min = {<<d[1], d[2] - 1>> : d \in K} \ K
      BY <3>2 DEF Lost
    <3> QED BY <3>3, <3>4 DEF circle_border_offsets
  <2> HIDE DEF b, in, K, left, total, before, plus, min
  <2>8. total(K, cell) = total(K, left) + total(b.plusRight, cell) - total(b.minLeft, cell)
    BY <2>4, <2>6, <2>7, Zenon
  <2>9. total(K, cell) = CircleSum(r, cell, radius) /\ total(K, left) = CircleSum(r, left, radius)
    BY <1>3, <2>1
  <2> QED BY <1>2, <2>1, <2>2, <2>8, <2>9
<1>8. CASE ~none /\ prev.at = up
  <2>1. up \in Cells(r) /\ prev.sum = CircleSum(r, up, radius)
    BY <1>8
  <2>2. compute_sum_within_circle(r, area, cell, radius, prev) = prev.sum + in(b.plusDown) - in(b.minTop)
    BY <1>1, <1>4, <1>8
  <2> DEFINE step == <<1, 0>>
             before == <<cell[1] - step[1], cell[2] - step[2]>>
             plus == Gained(K, step)
             min == Lost(K, step)
  <2>3. K \in SUBSET (Int \X Int) /\ step \in Int \X Int
    BY DEF Circle
  <2>4. total(K, cell) = total(K, before) + total(plus, cell) - total(min, cell)
    <3> HIDE DEF K, step
    <3> QED BY <2>3, MovedPlaces
  <2>5. \A d \in K : d[1] \in Int /\ d[2] \in Int
    BY <2>3
  <2>6. before = up
    <3>1. cell[1] \in Nat /\ cell[2] \in Nat
      BY CellParts
    <3> QED BY <3>1
  <2>7. plus = b.plusDown /\ min = b.minTop
    <3>1. \A d \in K : <<d[1] + step[1], d[2] + step[2]>> = <<d[1] + 1, d[2]>>
      BY <2>5
    <3>2. \A d \in K : <<d[1] - step[1], d[2] - step[2]>> = <<d[1] - 1, d[2]>>
      BY <2>5
    <3> HIDE DEF step
    <3>3. plus = {d \in K : <<d[1] + 1, d[2]>> \notin K}
      BY <3>1 DEF Gained
    <3>4. min = {<<d[1] - 1, d[2]>> : d \in K} \ K
      BY <3>2 DEF Lost
    <3> QED BY <3>3, <3>4 DEF circle_border_offsets
  <2> HIDE DEF b, in, K, up, total, before, plus, min
  <2>8. total(K, cell) = total(K, up) + total(b.plusDown, cell) - total(b.minTop, cell)
    BY <2>4, <2>6, <2>7, Zenon
  <2>9. total(K, cell) = CircleSum(r, cell, radius) /\ total(K, up) = CircleSum(r, up, radius)
    BY <1>3, <2>1
  <2> QED BY <1>2, <2>1, <2>2, <2>8, <2>9
<1> QED BY <1>5, <1>6, <1>7, <1>8

\* The circle that the sums start from, and the next one.
CircleStart(r, radius) == [at |-> <<1 - radius, 1 - radius>>, sum |-> 0, result |-> Source(r)]
CircleNext(r, radius, prev, cell) ==
    [at |-> cell,
     sum |-> compute_sum_within_circle(r, compute_integral_image(r), cell, radius, prev),
     result |-> [prev.result EXCEPT ![cell] =
                    compute_sum_within_circle(r, compute_integral_image(r), cell, radius, prev)]]

CircleStates(r) == [at : Int \X Int, sum : Int, result : [Cells(r) -> Int]]

\* What each step of a fold keeps holds after all of them.
LEMMA StaysIn ==
    ASSUME NEW n \in Nat, NEW V, NEW g, g[1 .. 0] \in V,
           \A k \in 1 .. n : g[1 .. k - 1] \in V => g[1 .. k] \in V
    PROVE  \A k \in 0 .. n : g[1 .. k] \in V
<1> DEFINE Off == {k \in 0 .. n : g[1 .. k] \notin V}
<1>1. Off = {}
  <2> SUFFICES ASSUME Off # {} PROVE FALSE
    OBVIOUS
  <2>1. PICK k \in Off : \A m \in Off : k <= m
    <3>1. Off \in SUBSET Nat
      OBVIOUS
    <3> HIDE DEF Off
    <3> QED BY <3>1, LeastNatural
  <2>2. k \in 0 .. n /\ g[1 .. k] \notin V
    OBVIOUS
  <2>3. k # 0
    BY <2>2
  <2>4. k \in 1 .. n /\ k - 1 \in 0 .. n /\ ~(k <= k - 1)
    BY <2>2, <2>3
  <2>5. g[1 .. k - 1] \in V
    BY <2>1, <2>4
  <2> QED BY <2>2, <2>4, <2>5
<1> QED BY <1>1

\* The states of the loop of sum_in_buffer, one after the other.
LEMMA CircularAlong ==
    ASSUME NEW r, ImageOK(r), NEW radius \in Nat
    PROVE  \E g : /\ g[1 .. 0] = CircleStart(r, radius)
                  /\ \A k \in 1 .. r.rows * r.cols :
                        /\ g[1 .. k - 1] \in CircleStates(r)
                        /\ g[1 .. k] = CircleNext(r, radius, g[1 .. k - 1], Scan(r)[k])
                  /\ g[1 .. r.rows * r.cols] \in CircleStates(r)
                  /\ sum_in_buffer(r, radius, "Circular") = g[1 .. r.rows * r.cols].result
<1> DEFINE w == Scan(r)
           n == r.rows * r.cols
           V == CircleStates(r)
           base == CircleStart(r, radius)
           On(x, c) == CircleNext(r, radius, x, c)
           F == [p \in (1 .. n) \X V |-> On(p[2], w[p[1]])]
           Keeps(g) == g = [s \in SUBSET (1 .. n) |->
                              IF s = {} THEN base ELSE On(g[s \ {Max(s)}], w[Max(s)])]
           g == CHOOSE g : Keeps(g)
<1>1. n \in Nat /\ DOMAIN w = 1 .. n /\ \A i \in 1 .. n : w[i] \in Cells(r)
  BY ScanIs
<1>2. \A c \in Cells(r) : c \in Int \X Int
  BY CellParts
<1>3. \A i \in 1 .. n : \A x \in V : On(x, w[i]) \in V
  <2> SUFFICES ASSUME NEW i \in 1 .. n, NEW x \in V PROVE On(x, w[i]) \in V
    BY Zenon
  <2>1. w[i] \in Cells(r) /\ w[i] \in Int \X Int
    BY <1>1, <1>2
  <2> DEFINE c == w[i]
             next == compute_sum_within_circle(r, compute_integral_image(r), c, radius, x)
  <2>2. c \in Cells(r) /\ c \in Int \X Int
    BY <2>1
  <2>3. x.sum \in Int /\ x.result \in [Cells(r) -> Int]
    BY DEF CircleStates
  <2> HIDE DEF c
  <2>4. next \in Int
    BY <2>2, <2>3, CircleStepType
  <2>5. On(x, c) = [at |-> c, sum |-> next, result |-> [x.result EXCEPT ![c] = next]]
    BY DEF CircleNext
  <2> HIDE DEF next, On
  <2>6. [at |-> c, sum |-> next, result |-> [x.result EXCEPT ![c] = next]] \in V
    BY <2>2, <2>3, <2>4 DEF CircleStates
  <2> QED BY <2>5, <2>6 DEF c
<1>4. base \in V
  BY SourceIs DEF CircleStart, CircleStates
<1>5. F \in [(1 .. n) \X V -> V]
  <2> HIDE DEF n, V, On, w
  <2> QED BY <1>3
<1>6. \A i \in 1 .. n : \A x \in V : F[<<i, x>>] = On(x, w[i])
  <2> HIDE DEF On, V, w, n
  <2> QED OBVIOUS
<1>7. sum_in_buffer(r, radius, "Circular") = g[1 .. n].result
  <2>1. sum_in_buffer(r, radius, "Circular") =
            FoldLeft(LAMBDA prev, cell : CircleNext(r, radius, prev, cell), base, w).result
    BY Zenon DEF sum_in_buffer, CircleNext, CircleStart
  <2>2. FoldLeft(LAMBDA prev, cell : CircleNext(r, radius, prev, cell), base, w) = g[1 .. n]
    <3> HIDE DEF n, w, base
    <3> QED BY <1>1 DEF FoldLeft, MapThenFoldSet
  <2> QED BY <2>1, <2>2, Zenon
<1> HIDE DEF n, F, V, On, w, base
<1>8. PICK h \in [SUBSET (1 .. n) -> V] : Folds(h, 1 .. n, base, F, Latest(n))
  BY <1>1, <1>4, <1>5, LeftFoldExists
<1>9. Keeps(h)
  <2>1. ASSUME NEW s \in SUBSET (1 .. n)
        PROVE  h[s] = IF s = {} THEN base ELSE On(h[s \ {Max(s)}], w[Max(s)])
    <3>1. \A t \in SUBSET (1 .. n) :
            h[t] = IF t = {} THEN base
                   ELSE F[<<Latest(n)[t], h[t \ {Latest(n)[t]}]>>]
      <4>1. h = [t \in SUBSET (1 .. n) |->
                   IF t = {} THEN base
                   ELSE F[<<Latest(n)[t], h[t \ {Latest(n)[t]}]>>]]
        BY <1>8 DEF Folds
      <4> QED BY <4>1, Zenon
    <3>2. CASE s # {}
      <4>1. Latest(n)[s] = Max(s)
        BY DEF Latest
      <4>2. Max(s) \in 1 .. n /\ h[s \ {Max(s)}] \in V
        BY <1>1, <3>2, MaxIs
      <4> QED BY <1>6, <3>1, <3>2, <4>1, <4>2
    <3> QED BY <3>1, <3>2
  <2>2. h = [s \in SUBSET (1 .. n) |-> IF s = {} THEN base ELSE On(h[s \ {Max(s)}], w[Max(s)])]
    BY <1>8, <2>1
  <2> QED BY <2>2, Zenon DEF On
<1>10. Keeps(g)
  BY <1>9
<1> HIDE DEF g
<1>11. \A s \in SUBSET (1 .. n) : g[s] = IF s = {} THEN base ELSE On(g[s \ {Max(s)}], w[Max(s)])
  BY <1>10, Zenon
<1>12. g[1 .. 0] = base
  <2>1. 1 .. 0 = {} /\ {} \in SUBSET (1 .. n)
    OBVIOUS
  <2> QED BY <1>11, <2>1, Zenon
<1>13. ASSUME NEW k \in 1 .. n PROVE g[1 .. k] = On(g[1 .. k - 1], w[k])
  <2>1. /\ 1 .. k \in SUBSET (1 .. n) /\ 1 .. k # {}
        /\ (1 .. k) \ {k} = 1 .. k - 1
    BY <1>1, Segment
  <2>2. Max(1 .. k) = k
    BY <1>1, MaxIs
  <2> QED BY <1>11, <2>1, <2>2, Zenon
<1>14. \A k \in 0 .. n : g[1 .. k] \in V
  <2>1. \A k \in 1 .. n : g[1 .. k - 1] \in V => g[1 .. k] \in V
    BY <1>3, <1>13
  <2> QED BY <1>1, <1>4, <1>12, <2>1, StaysIn
<1>15. \A k \in 1 .. n : k - 1 \in 0 .. n
  BY <1>1
<1>16. n \in 0 .. n
  BY <1>1
<1> QED BY <1>7, <1>12, <1>13, <1>14, <1>15, <1>16 DEF n, w, base, V, On

\* Before the first cell a circle is at none of its neighbours.
LEMMA StartIsApart ==
    ASSUME NEW r, ImageOK(r), NEW radius \in Nat, NEW cell, cell = Scan(r)[1]
    PROVE  CircleStart(r, radius).at \notin {<<cell[1], cell[2] - 1>>, <<cell[1] - 1, cell[2]>>}
<1>1. cell = <<0, 0>>
  <2>1. r.cols \in Nat \ {0} /\ 1 \in 1 .. r.rows * r.cols
    BY ScanIs DEF ImageOK
  <2>2. Scan(r)[1] = <<(1 - 1) \div r.cols, (1 - 1) % r.cols>>
    BY <2>1 DEF Scan
  <2>3. (1 - 1) \div r.cols = 0 /\ (1 - 1) % r.cols = 0
    BY <2>1
  <2> QED BY <2>2, <2>3
<1>2. CircleStart(r, radius).at = <<1 - radius, 1 - radius>>
  BY DEF CircleStart
<1> QED BY <1>1, <1>2

\* Moved along the rows, a circle holds its sum at every cell.
LEMMA CircularIs ==
    ASSUME NEW r, ImageOK(r), NEW radius \in Nat, ~Misled(r, radius)
    PROVE  \A cell \in Cells(r) : sum_in_buffer(r, radius, "Circular")[cell] = CircleSum(r, cell, radius)
<1> DEFINE n == r.rows * r.cols
           w == Scan(r)
<1>1. n \in Nat \ {0} /\ \A i \in 1 .. n : w[i] \in Cells(r)
  BY ScanIs
<1>2. /\ \A c \in Cells(r) : \E k \in 1 .. n : w[k] = c
      /\ \A k, l \in 1 .. n : w[k] = w[l] => k = l
  BY ScanIs
<1>3. PICK g : /\ g[1 .. 0] = CircleStart(r, radius)
               /\ \A k \in 1 .. n : /\ g[1 .. k - 1] \in CircleStates(r)
                                    /\ g[1 .. k] = CircleNext(r, radius, g[1 .. k - 1], w[k])
               /\ g[1 .. n] \in CircleStates(r)
               /\ sum_in_buffer(r, radius, "Circular") = g[1 .. n].result
  BY CircularAlong
<1> HIDE DEF n, w
<1> DEFINE Sum(i) == CircleSum(r, w[i], radius)
           Right(k) == /\ k # 0 => g[1 .. k].at = w[k] /\ g[1 .. k].sum = Sum(k)
                       /\ \A i \in 1 .. k : g[1 .. k].result[w[i]] = Sum(i)
           Off == {k \in 0 .. n : ~Right(k)}
<1>4. Off = {}
  <2> SUFFICES ASSUME Off # {} PROVE FALSE
    OBVIOUS
  <2>1. PICK k \in Off : \A m \in Off : k <= m
    <3>1. Off \in SUBSET Nat
      BY <1>1
    <3> HIDE DEF Off
    <3> QED BY <3>1, LeastNatural
  <2>2. k \in 0 .. n /\ ~Right(k)
    OBVIOUS
  <2>3. k # 0
    <3> SUFFICES ASSUME k = 0 PROVE FALSE
      OBVIOUS
    <3>1. Right(0)
      OBVIOUS
    <3> HIDE DEF Right
    <3> QED BY <2>2, <3>1
  <2>4. k \in 1 .. n /\ k - 1 \in 0 .. n /\ ~(k <= k - 1)
    BY <1>1, <2>2, <2>3
  <2>5. Right(k - 1)
    BY <2>1, <2>4
  <2> DEFINE prev == g[1 .. k - 1]
             cell == w[k]
             added == compute_sum_within_circle(r, compute_integral_image(r), cell, radius, prev)
  <2>6. cell \in Cells(r)
    BY <1>1, <2>4
  <2>7. prev.result \in [Cells(r) -> Int]
    BY <1>3, <2>4 DEF CircleStates
  <2>8. \/ prev.at \in Cells(r) /\ prev.sum = CircleSum(r, prev.at, radius)
        \/ prev.at \notin {<<cell[1], cell[2] - 1>>, <<cell[1] - 1, cell[2]>>}
    <3>1. CASE k = 1
      <4>1. prev = CircleStart(r, radius)
        BY <1>3, <3>1
      <4>2. cell = Scan(r)[1]
        BY <3>1 DEF w
      <4> HIDE DEF cell, prev
      <4> QED BY <4>1, <4>2, StartIsApart
    <3>2. CASE k # 1
      <4>1. k - 1 # 0 /\ k - 1 \in 1 .. n
        BY <1>1, <2>4, <3>2
      <4>2. prev.at = w[k - 1] /\ prev.sum = Sum(k - 1)
        BY <2>5, <4>1
      <4> QED BY <1>1, <4>1, <4>2
    <3> QED BY <3>1, <3>2
  <2>9. added = CircleSum(r, cell, radius)
    <3> HIDE DEF prev, cell
    <3> QED BY <2>6, <2>8, CircleStep
  <2>10. g[1 .. k] = [at |-> cell, sum |-> added, result |-> [prev.result EXCEPT ![cell] = added]]
    BY <1>3, <2>4 DEF CircleNext
  <2> HIDE DEF added
  <2>11. g[1 .. k].at = w[k] /\ g[1 .. k].sum = Sum(k)
    BY <2>9, <2>10
  <2>12. ASSUME NEW i \in 1 .. k PROVE g[1 .. k].result[w[i]] = Sum(i)
    <3>1. g[1 .. k].result = [prev.result EXCEPT ![cell] = added]
      BY <2>10
    <3>2. CASE i = k
      BY <2>6, <2>7, <2>9, <3>1, <3>2
    <3>3. CASE i # k
      <4>1. i \in 1 .. k - 1 /\ i \in 1 .. n
        BY <1>1, <2>4, <3>3
      <4>2. w[i] # cell /\ w[i] \in Cells(r)
        BY <1>1, <1>2, <2>4, <3>3, <4>1
      <4>3. prev.result[w[i]] = Sum(i)
        BY <2>5, <4>1
      <4> HIDE DEF prev, cell, Sum
      <4> QED BY <2>6, <2>7, <3>1, <4>2, <4>3
    <3> QED BY <3>2, <3>3
  <2>13. Right(k)
    BY <2>11, <2>12
  <2> QED BY <2>2, <2>13
<1>5. n \in 0 .. n
  BY <1>1
<1>6. Right(n)
  BY <1>4, <1>5
<1> SUFFICES ASSUME NEW cell \in Cells(r)
             PROVE  sum_in_buffer(r, radius, "Circular")[cell] = CircleSum(r, cell, radius)
  OBVIOUS
<1>7. PICK k \in 1 .. n : w[k] = cell
  BY <1>2
<1>8. g[1 .. n].result[w[k]] = Sum(k)
  BY <1>6
<1> QED BY <1>3, <1>7, <1>8

\* A sum in a buffer is that of the data within the square or the circle.
LEMMA SumsAre ==
    ASSUME NEW r, ImageOK(r), NEW radius \in Nat
    PROVE  SumsExact(r, radius)
<1> DEFINE s == SquareRadius(radius)
           circular == sum_in_buffer(r, radius, "Circular")
           square == sum_in_buffer(r, radius, "Square")
           Total(X) == SumOf(r.data, DataIn(r, X))
<1>1. s \in Nat
  BY DEF SquareRadius
<1>2. \A X : X \in SUBSET Cells(r) => Total(X) = SumOf(Source(r), X)
  <2> SUFFICES ASSUME NEW X, X \in SUBSET Cells(r) PROVE Total(X) = SumOf(Source(r), X)
    BY Zenon
  <2>1. X \cap Cells(r) = X
    OBVIOUS
  <2>2. SumOf(r.data, DataIn(r, X)) = SumOf(Source(r), X \cap Cells(r))
    BY SourceIs
  <2> QED BY <2>1, <2>2
<1>3. ASSUME NEW cell \in Cells(r) PROVE square[cell] = Total(SquareAround(r, cell, s))
  <2>1. sum_in_buffer(r, radius, "Square") =
            [c \in Cells(r) |-> compute_sum_within_rectangle_around(r, compute_integral_image(r), c, s)]
    BY DEF sum_in_buffer
  <2>2. square[cell] = compute_sum_within_rectangle_around(r, compute_integral_image(r), cell, s)
    BY <2>1
  <2> HIDE DEF s
  <2>3. square[cell] = SumOf(Source(r), SquareAround(r, cell, s))
    BY <1>1, <2>2, SquareSumIs
  <2>4. SquareAround(r, cell, s) \in SUBSET Cells(r)
    BY DEF SquareAround
  <2>5. Total(SquareAround(r, cell, s)) = SumOf(Source(r), SquareAround(r, cell, s))
    BY <1>2, <2>4
  <2> QED BY <2>3, <2>5
<1>4. ASSUME NEW cell \in Cells(r), ~Misled(r, radius)
      PROVE  circular[cell] = Total(Within(r, cell, Squared(radius)))
  <2>1. circular[cell] = SumOf(Source(r), Within(r, cell, Squared(radius)))
    BY <1>4, CircularIs DEF CircleSum
  <2>2. Within(r, cell, Squared(radius)) \in SUBSET Cells(r)
    BY DEF Within
  <2>3. Total(Within(r, cell, Squared(radius))) = SumOf(Source(r), Within(r, cell, Squared(radius)))
    BY <1>2, <2>2
  <2> QED BY <2>1, <2>3
<1>5. \A cell \in Cells(r) :
          /\ square[cell] = Total(SquareAround(r, cell, s))
          /\ Misled(r, radius) \/ circular[cell] = Total(Within(r, cell, Squared(radius)))
  BY <1>3, <1>4
<1> HIDE DEF s, circular, square
<1> QED BY <1>5, Zenon DEF SumsExact, Misled, s, circular, square

\* How often an element occurs among some cells.
Count(r, cells, v) == Cardinality({c \in cells : r.data[c] = v})

\* A count is a number, and positive for a value that occurs.
LEMMA CountIs ==
    ASSUME NEW r, ImageOK(r), NEW cells \in SUBSET Cells(r), NEW v
    PROVE  /\ Count(r, cells, v) \in Nat
           /\ Count(r, cells, v) = 0 <=> \A c \in cells : r.data[c] # v
<1> DEFINE T == {c \in cells : r.data[c] = v}
<1>1. IsFiniteSet(T)
  <2>1. T \in SUBSET Cells(r)
    OBVIOUS
  <2> HIDE DEF T
  <2> QED BY <2>1, ImageFinite
<1>2. Cardinality(T) \in Nat /\ (Cardinality(T) = 0 <=> T = {})
  <2> HIDE DEF T
  <2> QED BY <1>1, FS_CardinalityType, FS_EmptySet
<1> QED BY <1>2 DEF Count

\* The most frequent elements, and how frequent they are.
MostFrequent(r, near) == Max({0} \cup {Count(r, near, r.data[c]) : c \in near})

\* The greatest count is that of an element.
LEMMA MostFrequentIs ==
    ASSUME NEW r, ImageOK(r), NEW near \in SUBSET Cells(r)
    PROVE  /\ MostFrequent(r, near) \in Nat
           /\ \A v : Count(r, near, v) <= MostFrequent(r, near)
           /\ near # {} => \E c \in near : Count(r, near, r.data[c]) = MostFrequent(r, near)
<1> DEFINE f == [c \in near |-> Count(r, near, r.data[c])]
           T == {f[c] : c \in near}
           S == {0} \cup T
           Counts == {Count(r, near, r.data[c]) : c \in near}
<1>1. S = {0} \cup Counts
  OBVIOUS
<1>2. S \in SUBSET Int /\ S # {}
  BY <1>1, CountIs
<1>3. IsFiniteSet(S)
  <2>1. IsFiniteSet(near)
    BY ImageFinite
  <2>2. IsFiniteSet(T)
    BY <2>1, FiniteImages
  <2> HIDE DEF T
  <2> QED BY <2>2, FS_Singleton, FS_Union
<1>4. MostFrequent(r, near) = Max(S)
  BY <1>1, Zenon DEF MostFrequent
<1> HIDE DEF S
<1>5. Max(S) \in S /\ \A y \in S : Max(S) >= y
  BY <1>2, <1>3, FiniteExtremes
<1> DEFINE m == Max(S)
<1> HIDE DEF m
<1>6. m \in {0} \cup Counts /\ \A y \in {0} \cup Counts : m >= y
  BY <1>1, <1>5, Zenon DEF m
<1>7. \A c \in near : Count(r, near, r.data[c]) \in Nat \ {0}
  BY CountIs
<1>8. m \in Nat
  BY <1>6, <1>7
<1>9. ASSUME NEW v PROVE Count(r, near, v) <= m
  <2>1. Count(r, near, v) \in Nat /\ (Count(r, near, v) = 0 <=> \A c \in near : r.data[c] # v)
    BY CountIs
  <2>2. CASE \E c \in near : r.data[c] = v
    <3>1. Count(r, near, v) \in Counts
      BY <2>2
    <3> HIDE DEF Counts
    <3> QED BY <1>6, <1>8, <2>1, <3>1
  <2>3. CASE ~\E c \in near : r.data[c] = v
    BY <1>8, <2>1, <2>3
  <2> QED BY <2>2, <2>3
<1>10. near # {} => \E c \in near : Count(r, near, r.data[c]) = m
  <2> SUFFICES ASSUME near # {} PROVE \E c \in near : Count(r, near, r.data[c]) = m
    OBVIOUS
  <2>1. PICK c \in near : TRUE
    OBVIOUS
  <2>2. m >= Count(r, near, r.data[c])
    BY <1>6
  <2>3. m # 0
    BY <1>7, <1>8, <2>1, <2>2
  <2> QED BY <1>6, <2>3
<1> QED BY <1>4, <1>8, <1>9, <1>10 DEF m

\* The majority is an element that is as frequent as all others, and nodata if
\* there is none.
LEMMA MajorityIs ==
    ASSUME NEW r, ImageOK(r), NEW cell \in Cells(r), NEW radius2, NEW near,
           near = DataIn(r, Within(r, cell, radius2))
    PROVE  /\ compute_majority(r, cell, radius2) = Null <=> near = {}
           /\ near # {} =>
                 /\ Count(r, near, compute_majority(r, cell, radius2)) = MostFrequent(r, near)
                 /\ cell \notin r.missing /\ r.data[cell] # compute_majority(r, cell, radius2) =>
                       Count(r, near, r.data[cell]) # MostFrequent(r, near)
<1> DEFINE m == MostFrequent(r, near)
           Tops == {v \in {r.data[c] : c \in near} : Count(r, near, v) = m}
           t == compute_majority(r, cell, radius2)
<1>1. near \in SUBSET Cells(r)
  BY DEF DataIn
<1>2. t = CASE near = {} -> Null
            [] near # {} /\ cell \notin r.missing /\ Count(r, near, r.data[cell]) = m -> r.data[cell]
            [] OTHER -> Min(Tops)
  BY DEF compute_majority, Quantify, Count, MostFrequent
<1>3. CASE near = {}
  BY <1>2, <1>3
<1>4. CASE near # {}
  <2>1. \A c \in Cells(r) : r.data[c] \in Int
    BY DEF ImageOK
  <2>2. Tops \in SUBSET Int /\ Tops # {}
    BY <1>1, <1>4, <2>1, MostFrequentIs
  <2>3. IsFiniteSet(Tops)
    <3>1. IsFiniteSet(near)
      BY <1>1, ImageFinite
    <3>2. IsFiniteSet({r.data[c] : c \in near})
      BY <3>1, FiniteImages
    <3>3. Tops \in SUBSET {r.data[c] : c \in near}
      OBVIOUS
    <3> HIDE DEF Tops
    <3> QED BY <3>2, <3>3, FS_Subset
  <2>4. Min(Tops) \in Tops
    <3> HIDE DEF Tops
    <3> QED BY <2>2, <2>3, FiniteExtremes
  <2>5. Min(Tops) \in Int /\ Count(r, near, Min(Tops)) = m
    BY <2>2, <2>4
  <2> HIDE DEF m, Tops, t
  <2>6. t \in Int /\ Count(r, near, t) = m
    BY <1>2, <1>4, <2>1, <2>5
  <2>7. cell \notin r.missing /\ r.data[cell] # t => Count(r, near, r.data[cell]) # m
    BY <1>2, <1>4
  <2>8. t # Null
    BY <2>6, AreaAssumption
  <2> QED BY <1>4, <2>6, <2>7, <2>8 DEF t, m
<1> QED BY <1>3, <1>4

\* majority_filter gives the most frequent elements.
LEMMA MajoritiesAre ==
    ASSUME NEW r, ImageOK(r), NEW radius2
    PROVE  MajoritiesExact(r, radius2)
<1> DEFINE t == majority_filter(r, radius2)
           Near(cell) == DataIn(r, Within(r, cell, radius2))
<1>1. ASSUME NEW cell \in Cells(r)
      PROVE  /\ t[cell] = Null <=> Near(cell) = {}
             /\ t[cell] # Null =>
                   /\ \A c \in DataIn(r, Cells(r)) :
                         Count(r, Near(cell), r.data[c]) <= Count(r, Near(cell), t[cell])
                   /\ cell \notin r.missing /\ r.data[cell] # t[cell] =>
                         Count(r, Near(cell), r.data[cell]) < Count(r, Near(cell), t[cell])
  <2> DEFINE near == Near(cell)
  <2>1. t[cell] = compute_majority(r, cell, radius2)
    BY DEF majority_filter
  <2>2. near \in SUBSET Cells(r)
    BY DEF DataIn
  <2>3. /\ MostFrequent(r, near) \in Nat
        /\ \A v : Count(r, near, v) <= MostFrequent(r, near)
    BY <2>2, MostFrequentIs
  <2>4. /\ t[cell] = Null <=> near = {}
        /\ near # {} =>
              /\ Count(r, near, t[cell]) = MostFrequent(r, near)
              /\ cell \notin r.missing /\ r.data[cell] # t[cell] =>
                    Count(r, near, r.data[cell]) # MostFrequent(r, near)
    BY <2>1, MajorityIs
  <2>5. \A v : Count(r, near, v) \in Nat
    BY <2>2, CountIs
  <2> HIDE DEF t, near
  <2>6. ASSUME near # {}
        PROVE  /\ \A c \in DataIn(r, Cells(r)) : Count(r, near, r.data[c]) <= Count(r, near, t[cell])
               /\ cell \notin r.missing /\ r.data[cell] # t[cell] =>
                     Count(r, near, r.data[cell]) < Count(r, near, t[cell])
    BY <2>3, <2>4, <2>5, <2>6
  <2> QED BY <2>4, <2>6 DEF near
<1> QED BY <1>1 DEF MajoritiesExact, Quantify, Count

\* category_sum_in_buffer adds up what is near to a zone.
LEMMA CategorySumsAre ==
    ASSUME NEW r, ImageOK(r), NEW radius2
    PROVE  CategorySumsExact(r, radius2)
<1> DEFINE z == [r EXCEPT !.data = [c \in DOMAIN @ |-> (c[1] + c[2]) % 3], !.missing = {c \in @ : c[2] = 0}]
           t == category_sum_in_buffer(z, r, radius2)
           near(c, id) == \E other \in DataIn(z, Within(z, c, radius2)) : z.data[other] = id
           reached(id) == {c \in DataIn(r, Cells(r)) : id \in get_clusters_around(z, c, radius2)}
<1>1. ASSUME NEW cell \in DataIn(r, Cells(r)) \ z.missing, z.data[cell] # 0
      PROVE  t[cell] = SumOf(r.data, {c \in DataIn(r, Cells(r)) : near(c, z.data[cell])})
  <2> HIDE DEF z
  <2>1. cell \in Cells(r) /\ cell \notin r.missing /\ cell \notin z.missing
    BY DEF DataIn
  <2>2. t[cell] = SumOf(r.data, reached(z.data[cell]))
    BY <1>1, <2>1 DEF category_sum_in_buffer
  <2>3. \A c : z.data[cell] \in get_clusters_around(z, c, radius2) <=> near(c, z.data[cell])
    BY <1>1 DEF get_clusters_around
  <2> HIDE DEF t, near
  <2>4. reached(z.data[cell]) = {c \in DataIn(r, Cells(r)) : near(c, z.data[cell])}
    BY <2>3
  <2> HIDE DEF reached
  <2> QED BY <2>2, <2>4, Zenon
<1>2. \A cell \in DataIn(r, Cells(r)) \ z.missing : z.data[cell] # 0 =>
            t[cell] = SumOf(r.data, {c \in DataIn(r, Cells(r)) : near(c, z.data[cell])})
  BY <1>1
<1> QED BY <1>2, Zenon DEF CategorySumsExact

\* The places in a sequence are distinct cells.
LocationsOK(r, locations) ==
    /\ locations \in Seq(Cells(r))
    /\ \A i, j \in DOMAIN locations : locations[i] = locations[j] => i = j

MissingNext(r, seen, c) == IF c \in r.missing THEN Append(seen, c) ELSE seen

\* The missing cells, as they are found one after the other.
LEMMA MissingAlong ==
    ASSUME NEW r, ImageOK(r)
    PROVE  \E g : /\ g[1 .. 0] = <<>>
                  /\ \A k \in 1 .. r.rows * r.cols :
                        g[1 .. k] = MissingNext(r, g[1 .. k - 1], Scan(r)[k])
                  /\ MissingCells(r) = g[1 .. r.rows * r.cols]
<1> DEFINE w == Scan(r)
           n == r.rows * r.cols
           V == Seq(Cells(r))
           On(x, c) == MissingNext(r, x, c)
           F == [p \in (1 .. n) \X V |-> On(p[2], w[p[1]])]
           Keeps(g) == g = [s \in SUBSET (1 .. n) |->
                              IF s = {} THEN <<>> ELSE On(g[s \ {Max(s)}], w[Max(s)])]
           g == CHOOSE g : Keeps(g)
<1>1. n \in Nat /\ DOMAIN w = 1 .. n /\ \A i \in 1 .. n : w[i] \in Cells(r)
  BY ScanIs
<1>2. \A i \in 1 .. n : \A x \in V : On(x, w[i]) \in V
  <2> HIDE DEF w, n
  <2> QED BY <1>1 DEF MissingNext
<1>3. F \in [(1 .. n) \X V -> V]
  <2> HIDE DEF n, V, On, w
  <2> QED BY <1>2
<1>4. \A i \in 1 .. n : \A x \in V : F[<<i, x>>] = On(x, w[i])
  <2> HIDE DEF On, V, w, n
  <2> QED OBVIOUS
<1>5. MissingCells(r) = g[1 .. n]
  <2>1. MissingCells(r) = FoldLeft(LAMBDA seen, c : MissingNext(r, seen, c), <<>>, w)
    BY Zenon DEF MissingCells, MissingNext
  <2>2. FoldLeft(LAMBDA seen, c : MissingNext(r, seen, c), <<>>, w) = g[1 .. n]
    <3> HIDE DEF n, w
    <3> QED BY <1>1 DEF FoldLeft, MapThenFoldSet
  <2> QED BY <2>1, <2>2, Zenon
<1>6. <<>> \in V
  OBVIOUS
<1> HIDE DEF n, F, V, On, w
<1>7. PICK h \in [SUBSET (1 .. n) -> V] : Folds(h, 1 .. n, <<>>, F, Latest(n))
  BY <1>1, <1>3, <1>6, LeftFoldExists
<1>8. Keeps(h)
  <2>1. ASSUME NEW s \in SUBSET (1 .. n)
        PROVE  h[s] = IF s = {} THEN <<>> ELSE On(h[s \ {Max(s)}], w[Max(s)])
    <3>1. \A t \in SUBSET (1 .. n) :
            h[t] = IF t = {} THEN <<>>
                   ELSE F[<<Latest(n)[t], h[t \ {Latest(n)[t]}]>>]
      <4>1. h = [t \in SUBSET (1 .. n) |->
                   IF t = {} THEN <<>>
                   ELSE F[<<Latest(n)[t], h[t \ {Latest(n)[t]}]>>]]
        BY <1>7 DEF Folds
      <4> QED BY <4>1, Zenon
    <3>2. CASE s # {}
      <4>1. Latest(n)[s] = Max(s)
        BY DEF Latest
      <4>2. Max(s) \in 1 .. n /\ h[s \ {Max(s)}] \in V
        BY <1>1, <3>2, MaxIs
      <4> QED BY <1>4, <3>1, <3>2, <4>1, <4>2
    <3> QED BY <3>1, <3>2
  <2>2. h = [s \in SUBSET (1 .. n) |-> IF s = {} THEN <<>> ELSE On(h[s \ {Max(s)}], w[Max(s)])]
    BY <1>7, <2>1
  <2> QED BY <2>2, Zenon DEF On
<1>9. Keeps(g)
  BY <1>8
<1> HIDE DEF g
<1>10. \A s \in SUBSET (1 .. n) : g[s] = IF s = {} THEN <<>> ELSE On(g[s \ {Max(s)}], w[Max(s)])
  BY <1>9, Zenon
<1>11. g[1 .. 0] = <<>>
  <2>1. 1 .. 0 = {} /\ {} \in SUBSET (1 .. n)
    OBVIOUS
  <2> QED BY <1>10, <2>1, Zenon
<1>12. ASSUME NEW k \in 1 .. n PROVE g[1 .. k] = On(g[1 .. k - 1], w[k])
  <2>1. /\ 1 .. k \in SUBSET (1 .. n) /\ 1 .. k # {}
        /\ (1 .. k) \ {k} = 1 .. k - 1
    BY <1>1, Segment
  <2>2. Max(1 .. k) = k
    BY <1>1, MaxIs
  <2> QED BY <1>10, <2>1, <2>2, Zenon
<1> QED BY <1>5, <1>11, <1>12 DEF n, w, On

\* The missing cells are locations without duplicates.
LEMMA MissingCellsAre ==
    ASSUME NEW r, ImageOK(r)
    PROVE  /\ LocationsOK(r, MissingCells(r))
           /\ r.missing # {} => MissingCells(r) # <<>>
<1> DEFINE n == r.rows * r.cols
           w == Scan(r)
<1>1. n \in Nat \ {0} /\ \A i \in 1 .. n : w[i] \in Cells(r)
  BY ScanIs
<1>2. /\ \A c \in Cells(r) : \E k \in 1 .. n : w[k] = c
      /\ \A k, l \in 1 .. n : w[k] = w[l] => k = l
  BY ScanIs
<1>3. PICK g : /\ g[1 .. 0] = <<>>
               /\ \A k \in 1 .. n : g[1 .. k] = MissingNext(r, g[1 .. k - 1], w[k])
               /\ MissingCells(r) = g[1 .. n]
  BY MissingAlong
<1> HIDE DEF n, w
<1> DEFINE Right(k) == /\ LocationsOK(r, g[1 .. k])
                       /\ \A i \in DOMAIN g[1 .. k] : \E j \in 1 .. k : g[1 .. k][i] = w[j]
                       /\ \A j \in 1 .. k : w[j] \in r.missing => g[1 .. k] # <<>>
           Off == {k \in 0 .. n : ~Right(k)}
<1>4. Off = {}
  <2> SUFFICES ASSUME Off # {} PROVE FALSE
    OBVIOUS
  <2>1. PICK k \in Off : \A m \in Off : k <= m
    <3>1. Off \in SUBSET Nat
      BY <1>1
    <3> HIDE DEF Off
    <3> QED BY <3>1, LeastNatural
  <2>2. k \in 0 .. n /\ ~Right(k)
    OBVIOUS
  <2>3. k # 0
    <3> SUFFICES ASSUME k = 0 PROVE FALSE
      OBVIOUS
    <3>1. <<>> \in Seq(Cells(r)) /\ DOMAIN <<>> = {} /\ 1 .. 0 = {}
      OBVIOUS
    <3>2. LocationsOK(r, <<>>)
      BY <3>1 DEF LocationsOK
    <3>3. Right(0)
      BY <1>3, <3>1, <3>2
    <3> HIDE DEF Right
    <3> QED BY <2>2, <3>3
  <2>4. k \in 1 .. n /\ k - 1 \in 0 .. n /\ ~(k <= k - 1)
    BY <1>1, <2>2, <2>3
  <2>5. Right(k - 1)
    BY <2>1, <2>4
  <2> DEFINE seen == g[1 .. k - 1]
             next == g[1 .. k]
             cell == w[k]
  <2>6. /\ next = MissingNext(r, seen, cell) /\ cell \in Cells(r)
        /\ seen \in Seq(Cells(r))
        /\ \A i, j \in DOMAIN seen : seen[i] = seen[j] => i = j
        /\ \A i \in DOMAIN seen : \E j \in 1 .. k - 1 : seen[i] = w[j]
        /\ \A j \in 1 .. k - 1 : w[j] \in r.missing => seen # <<>>
    BY <1>1, <1>3, <2>4, <2>5 DEF LocationsOK
  <2>7. /\ \A j \in 1 .. k - 1 : j \in 1 .. k /\ j \in 1 .. n /\ w[j] # cell
        /\ \A j \in 1 .. k : j = k \/ j \in 1 .. k - 1
        /\ k \in 1 .. k
    <3>1. \A j \in 1 .. k - 1 : j \in 1 .. k /\ j \in 1 .. n /\ j # k
      BY <1>1, <2>4
    <3> QED BY <1>1, <1>2, <2>4, <3>1
  <2> HIDE DEF seen, next, cell
  <2>8. CASE cell \notin r.missing
    <3>1. next = seen
      BY <2>6, <2>8 DEF MissingNext
    <3>2. LocationsOK(r, next) /\ \A i \in DOMAIN next : \E j \in 1 .. k : next[i] = w[j]
      BY <2>6, <2>7, <3>1 DEF LocationsOK
    <3>3. \A j \in 1 .. k : w[j] \in r.missing => next # <<>>
      BY <2>6, <2>7, <2>8, <3>1 DEF cell
    <3> QED BY <2>2, <3>2, <3>3 DEF next
  <2>9. CASE cell \in r.missing
    <3>1. next = Append(seen, cell)
      BY <2>6, <2>9 DEF MissingNext
    <3>2. /\ next \in Seq(Cells(r)) /\ Len(seen) \in Nat /\ Len(next) = Len(seen) + 1
          /\ DOMAIN next = 1 .. Len(seen) + 1 /\ DOMAIN seen = 1 .. Len(seen)
          /\ \A i \in 1 .. Len(seen) : next[i] = seen[i]
          /\ next[Len(seen) + 1] = cell
      BY <2>6, <3>1
    <3>3. \A i \in DOMAIN next : i = Len(seen) + 1 \/ i \in 1 .. Len(seen)
      BY <3>2
    <3>4. next # <<>>
      BY <3>2
    <3>5. \A i \in DOMAIN seen : seen[i] # cell
      BY <2>6, <2>7
    <3>6. \A i, j \in DOMAIN next : next[i] = next[j] => i = j
      BY <2>6, <3>2, <3>3, <3>5
    <3>7. \A i \in DOMAIN next : \E j \in 1 .. k : next[i] = w[j]
      BY <2>6, <2>7, <3>2, <3>3 DEF cell
    <3> QED BY <2>2, <3>2, <3>4, <3>6, <3>7 DEF next, LocationsOK
  <2> QED BY <2>8, <2>9
<1>5. n \in 0 .. n
  BY <1>1
<1>6. Right(n)
  BY <1>4, <1>5
<1>7. r.missing # {} => \E j \in 1 .. n : w[j] \in r.missing
  BY <1>2 DEF ImageOK
<1> QED BY <1>3, <1>6, <1>7

\* The location that is nearest so far, counted from zero.
Nearer(locations, cell, best, k) ==
    IF best = -1 \/ D2(locations[k], cell) < D2(locations[best + 1], cell) THEN k - 1 ELSE best

Nearest(locations, cell) ==
    FoldLeft(LAMBDA best, k : Nearer(locations, cell, best, k), -1, [k \in DOMAIN locations |-> k])

\* The states of the loop over the locations, one after the other.
LEMMA NearestAlong ==
    ASSUME NEW r, ImageOK(r), NEW locations, LocationsOK(r, locations), NEW cell \in Cells(r)
    PROVE  \E g : /\ g[1 .. 0] = -1
                  /\ \A k \in 1 .. Len(locations) :
                        g[1 .. k] = Nearer(locations, cell, g[1 .. k - 1], k)
                  /\ Nearest(locations, cell) = g[1 .. Len(locations)]
<1> DEFINE n == Len(locations)
           w == [k \in DOMAIN locations |-> k]
           V == -1 .. n - 1
           On(x, c) == Nearer(locations, cell, x, c)
           F == [p \in (1 .. n) \X V |-> On(p[2], w[p[1]])]
           Keeps(g) == g = [s \in SUBSET (1 .. n) |->
                              IF s = {} THEN -1 ELSE On(g[s \ {Max(s)}], w[Max(s)])]
           g == CHOOSE g : Keeps(g)
<1>1. n \in Nat /\ DOMAIN w = 1 .. n /\ \A i \in 1 .. n : w[i] = i
  BY DEF LocationsOK
<1>2. \A i \in 1 .. n : \A x \in V : On(x, w[i]) \in V
  <2> HIDE DEF w, n
  <2> QED BY <1>1 DEF Nearer
<1>3. F \in [(1 .. n) \X V -> V]
  <2> HIDE DEF n, V, On, w
  <2> QED BY <1>2
<1>4. \A i \in 1 .. n : \A x \in V : F[<<i, x>>] = On(x, w[i])
  <2> HIDE DEF On, V, w, n
  <2> QED OBVIOUS
<1>5. Nearest(locations, cell) = g[1 .. n]
  <2> HIDE DEF n, w
  <2>1. Nearest(locations, cell) = FoldLeft(LAMBDA x, c : Nearer(locations, cell, x, c), -1, w)
    BY DEF Nearest, w
  <2>2. FoldLeft(LAMBDA x, c : Nearer(locations, cell, x, c), -1, w) = g[1 .. n]
    BY <1>1 DEF FoldLeft, MapThenFoldSet
  <2> QED BY <2>1, <2>2, Zenon
<1>6. -1 \in V
  BY <1>1
<1> HIDE DEF n, F, V, On, w
<1>7. PICK h \in [SUBSET (1 .. n) -> V] : Folds(h, 1 .. n, -1, F, Latest(n))
  BY <1>1, <1>3, <1>6, LeftFoldExists
<1>8. Keeps(h)
  <2>1. ASSUME NEW s \in SUBSET (1 .. n)
        PROVE  h[s] = IF s = {} THEN -1 ELSE On(h[s \ {Max(s)}], w[Max(s)])
    <3>1. \A t \in SUBSET (1 .. n) :
            h[t] = IF t = {} THEN -1
                   ELSE F[<<Latest(n)[t], h[t \ {Latest(n)[t]}]>>]
      <4>1. h = [t \in SUBSET (1 .. n) |->
                   IF t = {} THEN -1
                   ELSE F[<<Latest(n)[t], h[t \ {Latest(n)[t]}]>>]]
        BY <1>7 DEF Folds
      <4> QED BY <4>1, Zenon
    <3>2. CASE s # {}
      <4>1. Latest(n)[s] = Max(s)
        BY DEF Latest
      <4>2. Max(s) \in 1 .. n /\ h[s \ {Max(s)}] \in V
        BY <1>1, <3>2, MaxIs
      <4> QED BY <1>4, <3>1, <3>2, <4>1, <4>2
    <3> QED BY <3>1, <3>2
  <2>2. h = [s \in SUBSET (1 .. n) |-> IF s = {} THEN -1 ELSE On(h[s \ {Max(s)}], w[Max(s)])]
    BY <1>7, <2>1
  <2> QED BY <2>2, Zenon DEF On
<1>9. Keeps(g)
  BY <1>8
<1> HIDE DEF g
<1>10. \A s \in SUBSET (1 .. n) : g[s] = IF s = {} THEN -1 ELSE On(g[s \ {Max(s)}], w[Max(s)])
  BY <1>9, Zenon
<1>11. g[1 .. 0] = -1
  <2>1. 1 .. 0 = {} /\ {} \in SUBSET (1 .. n)
    OBVIOUS
  <2> QED BY <1>10, <2>1, Zenon
<1>12. ASSUME NEW k \in 1 .. n PROVE g[1 .. k] = On(g[1 .. k - 1], k)
  <2>1. /\ 1 .. k \in SUBSET (1 .. n) /\ 1 .. k # {}
        /\ (1 .. k) \ {k} = 1 .. k - 1
    BY <1>1, Segment
  <2>2. Max(1 .. k) = k /\ w[k] = k
    BY <1>1, MaxIs
  <2> QED BY <1>10, <2>1, <2>2, Zenon
<1> QED BY <1>5, <1>11, <1>12 DEF n, On

\* The first of those that are nearest.
FirstNearest(locations, cell, last, best) ==
    /\ best \in 0 .. last - 1
    /\ \A k \in 1 .. last :
          /\ D2(locations[best + 1], cell) <= D2(locations[k], cell)
          /\ k < best + 1 => D2(locations[best + 1], cell) < D2(locations[k], cell)

\* Only the cell itself has the distance zero.
LEMMA DistancesAre ==
    ASSUME NEW r, ImageOK(r), NEW a \in Cells(r), NEW b \in Cells(r)
    PROVE  D2(a, b) \in Nat /\ (D2(a, b) = 0 <=> a = b)
<1>1. /\ a = <<a[1], a[2]>> /\ b = <<b[1], b[2]>>
      /\ a[1] \in Int /\ a[2] \in Int /\ b[1] \in Int /\ b[2] \in Int
  BY CellParts
<1> DEFINE x == a[1] - b[1]
           y == a[2] - b[2]
<1>2. x \in Int /\ y \in Int /\ (x = 0 /\ y = 0 <=> a = b)
  <2>1. x \in Int /\ y \in Int /\ (x = 0 <=> a[1] = b[1]) /\ (y = 0 <=> a[2] = b[2])
    BY <1>1
  <2>2. a[1] = b[1] /\ a[2] = b[2] <=> a = b
    BY <1>1, Zenon
  <2> QED BY <2>1, <2>2
<1>3. D2(a, b) = x * x + y * y
  BY DEF D2, Squared
<1> HIDE DEF x, y
<1>4. \A i \in Int : i * i \in Nat /\ (i * i = 0 <=> i = 0)
  OBVIOUS
<1> QED BY <1>2, <1>3, <1>4

\* The loop over the locations finds the first of the nearest.
LEMMA NearestIs ==
    ASSUME NEW r, ImageOK(r), NEW locations, LocationsOK(r, locations), locations # <<>>,
           NEW cell \in Cells(r)
    PROVE  FirstNearest(locations, cell, Len(locations), Nearest(locations, cell))
<1> DEFINE n == Len(locations)
           d(k) == D2(locations[k], cell)
<1>1. /\ n \in Nat \ {0}
      /\ \A k \in 1 .. n : locations[k] \in Cells(r)
  BY DEF LocationsOK
<1>2. \A k \in 1 .. n : d(k) \in Nat
  BY <1>1, DistancesAre
<1>3. PICK g : /\ g[1 .. 0] = -1
               /\ \A k \in 1 .. n : g[1 .. k] = Nearer(locations, cell, g[1 .. k - 1], k)
               /\ Nearest(locations, cell) = g[1 .. n]
  BY NearestAlong
<1> HIDE DEF n
<1> DEFINE Right(k) == FirstNearest(locations, cell, k, g[1 .. k])
           Off == {k \in 1 .. n : ~Right(k)}
<1>4. Off = {}
  <2> SUFFICES ASSUME Off # {} PROVE FALSE
    OBVIOUS
  <2>1. PICK k \in Off : \A m \in Off : k <= m
    <3>1. Off \in SUBSET Nat
      BY <1>1
    <3> HIDE DEF Off
    <3> QED BY <3>1, LeastNatural
  <2>2. k \in 1 .. n /\ ~Right(k)
    OBVIOUS
  <2>3. g[1 .. k] = Nearer(locations, cell, g[1 .. k - 1], k)
    BY <1>3, <2>2
  <2>4. CASE k = 1
    <3>1. g[1 .. 1] = Nearer(locations, cell, -1, 1)
      BY <1>3, <2>3, <2>4
    <3>2. g[1 .. 1] = 0
      BY <3>1 DEF Nearer
    <3>3. FirstNearest(locations, cell, 1, 0)
      <4>1. \A i \in 1 .. 1 : i = 1
        OBVIOUS
      <4>2. d(1) \in Nat
        BY <1>1, <1>2
      <4> QED BY <4>1, <4>2 DEF FirstNearest
    <3> QED BY <2>2, <2>4, <3>2, <3>3
  <2>5. CASE k # 1
    <3>1. k - 1 \in 1 .. n /\ ~(k <= k - 1)
      BY <1>1, <2>2, <2>5
    <3>2. Right(k - 1)
      BY <2>1, <3>1
    <3> DEFINE best == g[1 .. k - 1]
    <3>3. /\ best \in 0 .. k - 2
          /\ \A i \in 1 .. k - 1 : /\ d(best + 1) <= d(i)
                                   /\ i < best + 1 => d(best + 1) < d(i)
      BY <3>1, <3>2 DEF FirstNearest
    <3> HIDE DEF best
    <3>4. best # -1 /\ best + 1 \in 1 .. n /\ d(best + 1) \in Nat /\ d(k) \in Nat
      BY <1>1, <1>2, <2>2, <3>1, <3>3
    <3>5. \A i \in 1 .. k : (i = k \/ i \in 1 .. k - 1) /\ d(i) \in Nat
      BY <1>1, <1>2, <2>2
    <3>6. g[1 .. k] = IF d(k) < d(best + 1) THEN k - 1 ELSE best
      BY <2>3, <3>4 DEF Nearer, best
    <3> HIDE DEF d
    <3>7. CASE d(k) < d(best + 1)
      <4>1. g[1 .. k] = k - 1 /\ k - 1 \in 0 .. k - 1 /\ (k - 1) + 1 = k
        BY <1>1, <2>2, <3>6, <3>7
      <4>2. \A i \in 1 .. k : d(k) <= d(i) /\ (i < k => d(k) < d(i))
        BY <3>3, <3>4, <3>5, <3>7
      <4>3. FirstNearest(locations, cell, k, k - 1)
        BY <4>1, <4>2 DEF FirstNearest, d
      <4> QED BY <2>2, <4>1, <4>3
    <3>8. CASE ~(d(k) < d(best + 1))
      <4>1. g[1 .. k] = best /\ best \in 0 .. k - 1
        BY <1>1, <2>2, <3>3, <3>6, <3>8
      <4>2. \A i \in 1 .. k : d(best + 1) <= d(i) /\ (i < best + 1 => d(best + 1) < d(i))
        <5> SUFFICES ASSUME NEW i \in 1 .. k
                     PROVE  d(best + 1) <= d(i) /\ (i < best + 1 => d(best + 1) < d(i))
          OBVIOUS
        <5>1. CASE i = k
          BY <3>3, <3>4, <3>8, <5>1
        <5>2. CASE i \in 1 .. k - 1
          BY <3>3, <5>2
        <5> QED BY <3>5, <5>1, <5>2
      <4>3. FirstNearest(locations, cell, k, best)
        BY <4>1, <4>2 DEF FirstNearest, d
      <4> QED BY <2>2, <4>1, <4>3
    <3> QED BY <3>7, <3>8
  <2> QED BY <2>4, <2>5
<1>5. n \in 1 .. n
  BY <1>1
<1> QED BY <1>3, <1>4, <1>5 DEF n

\* A cell belongs to the first of the locations that are nearest.
LEMMA VoronoiIs ==
    ASSUME NEW r, ImageOK(r), NEW locations, LocationsOK(r, locations), locations # <<>>
    PROVE  VoronoiExact(r, locations)
<1> DEFINE n == Len(locations)
           t == voronoi(r, locations)
<1>1. /\ n \in Nat \ {0} /\ DOMAIN locations = 1 .. n
      /\ \A k \in 1 .. n : locations[k] \in Cells(r)
      /\ \A i, j \in 1 .. n : locations[i] = locations[j] => i = j
  BY DEF LocationsOK
<1>2. ASSUME NEW cell \in Cells(r)
      PROVE  \A k \in DOMAIN locations :
                /\ D2(locations[t[cell] + 1], cell) <= D2(locations[k], cell)
                /\ k < t[cell] + 1 => D2(locations[t[cell] + 1], cell) < D2(locations[k], cell)
  <2>1. t[cell] = IF \E k \in DOMAIN locations : locations[k] = cell
                  THEN (CHOOSE k \in DOMAIN locations : locations[k] = cell) - 1
                  ELSE Nearest(locations, cell)
    BY DEF voronoi, Nearest, Nearer
  <2> HIDE DEF n, t
  <2>2. CASE \E k \in DOMAIN locations : locations[k] = cell
    <3>1. PICK at \in 1 .. n : t[cell] = at - 1 /\ locations[at] = cell
      BY <1>1, <2>1, <2>2
    <3>2. t[cell] + 1 = at
      BY <1>1, <3>1
    <3>3. D2(locations[at], cell) = 0
      BY <3>1, DistancesAre
    <3>4. \A k \in 1 .. n : D2(locations[k], cell) \in Nat /\ (k # at => D2(locations[k], cell) # 0)
      BY <1>1, <3>1, DistancesAre
    <3>5. ASSUME NEW k \in 1 .. n
          PROVE  /\ D2(locations[at], cell) <= D2(locations[k], cell)
                 /\ k < at => D2(locations[at], cell) < D2(locations[k], cell)
      <4>1. k < at => k # at
        BY <1>1
      <4> QED BY <3>3, <3>4, <4>1
    <3> QED BY <1>1, <3>2, <3>5
  <2>3. CASE ~\E k \in DOMAIN locations : locations[k] = cell
    <3>1. FirstNearest(locations, cell, n, t[cell])
      BY <2>1, <2>3, NearestIs DEF n
    <3> QED BY <1>1, <3>1 DEF FirstNearest
  <2> QED BY <2>2, <2>3
<1> HIDE DEF t
<1> QED BY <1>2, Zenon DEF VoronoiExact, t

\* Sums can be added cell by cell.
LEMMA SumOfPlus ==
    ASSUME NEW S, IsFiniteSet(S), NEW f, NEW h, NEW e,
           \A x \in S : f[x] \in Int /\ h[x] \in Int /\ e[x] = f[x] + h[x]
    PROVE  SumOf(e, S) = SumOf(f, S) + SumOf(h, S)
<1> DEFINE Off == {part \in SUBSET S : SumOf(e, part) # SumOf(f, part) + SumOf(h, part)}
<1>1. Off = {}
  <2> SUFFICES ASSUME Off # {} PROVE FALSE
    OBVIOUS
  <2>1. PICK part \in Off : \A x \in part : part \ {x} \notin Off
    <3>1. Off \in SUBSET (SUBSET S)
      OBVIOUS
    <3> HIDE DEF Off
    <3> QED BY <3>1, MinimalSet
  <2>2. /\ part \in SUBSET S /\ SumOf(e, part) # SumOf(f, part) + SumOf(h, part)
        /\ IsFiniteSet(part)
    BY FS_Subset
  <2>3. \A x \in part : f[x] \in Int /\ h[x] \in Int /\ e[x] \in Int
    BY <2>2
  <2>4. part # {}
    <3> SUFFICES ASSUME part = {} PROVE FALSE
      OBVIOUS
    <3>1. SumOf(e, {}) = 0 /\ SumOf(f, {}) = 0 /\ SumOf(h, {}) = 0
      BY <2>2, <2>3, SumOfLaws
    <3> QED BY <2>2, <3>1
  <2>5. PICK x \in part : SumOf(e, part \ {x}) = SumOf(f, part \ {x}) + SumOf(h, part \ {x})
    BY <2>1, <2>2, <2>4
  <2>6. /\ SumOf(e, part) = e[x] + SumOf(e, part \ {x})
        /\ SumOf(f, part) = f[x] + SumOf(f, part \ {x})
        /\ SumOf(h, part) = h[x] + SumOf(h, part \ {x})
    BY <2>2, <2>3, SumOfLaws
  <2>7. SumOf(f, part \ {x}) \in Int /\ SumOf(h, part \ {x}) \in Int
    <3>1. IsFiniteSet(part \ {x}) /\ \A y \in part \ {x} : f[y] \in Int /\ h[y] \in Int
      BY <2>2, <2>3, FS_RemoveElement
    <3> QED BY <3>1, SumOfLaws
  <2>8. e[x] = f[x] + h[x] /\ f[x] \in Int /\ h[x] \in Int
    BY <2>2
  <2> HIDE DEF Off
  <2> QED BY <2>2, <2>5, <2>6, <2>7, <2>8
<1> QED BY <1>1

\* A factor can be taken out of a sum.
LEMMA SumOfTimes ==
    ASSUME NEW S, IsFiniteSet(S), NEW a \in Int, NEW f, NEW e,
           \A x \in S : f[x] \in Int /\ e[x] = a * f[x]
    PROVE  SumOf(e, S) = a * SumOf(f, S)
<1> DEFINE Off == {part \in SUBSET S : SumOf(e, part) # a * SumOf(f, part)}
<1>1. Off = {}
  <2> SUFFICES ASSUME Off # {} PROVE FALSE
    OBVIOUS
  <2>1. PICK part \in Off : \A x \in part : part \ {x} \notin Off
    <3>1. Off \in SUBSET (SUBSET S)
      OBVIOUS
    <3> HIDE DEF Off
    <3> QED BY <3>1, MinimalSet
  <2>2. part \in SUBSET S /\ SumOf(e, part) # a * SumOf(f, part) /\ IsFiniteSet(part)
    BY FS_Subset
  <2>3. \A x \in part : f[x] \in Int /\ e[x] = a * f[x] /\ e[x] \in Int
    BY <2>2
  <2>4. part # {}
    <3> SUFFICES ASSUME part = {} PROVE FALSE
      OBVIOUS
    <3>1. SumOf(e, {}) = 0 /\ SumOf(f, {}) = 0
      BY <2>2, <2>3, SumOfLaws
    <3>2. SumOf(e, part) = 0 /\ SumOf(f, part) = 0
      BY <3>1, Zenon
    <3> QED BY <2>2, <3>2
  <2>5. PICK x \in part : SumOf(e, part \ {x}) = a * SumOf(f, part \ {x})
    BY <2>1, <2>2, <2>4
  <2>6. /\ SumOf(e, part) = e[x] + SumOf(e, part \ {x})
        /\ SumOf(f, part) = f[x] + SumOf(f, part \ {x})
    BY <2>2, <2>3, SumOfLaws
  <2>7. SumOf(f, part \ {x}) \in Int
    <3>1. IsFiniteSet(part \ {x}) /\ \A y \in part \ {x} : f[y] \in Int
      BY <2>2, <2>3, FS_RemoveElement
    <3> QED BY <3>1, SumOfLaws
  <2>8. \A y, z \in Int : a * (y + z) = a * y + a * z
    OBVIOUS
  <2>9. SumOf(e, part) = a * SumOf(f, part)
    <3> DEFINE z == SumOf(f, part \ {x})
    <3>1. SumOf(e, part) = a * f[x] + a * z /\ SumOf(f, part) = f[x] + z /\ z \in Int
      BY <2>3, <2>5, <2>6, <2>7
    <3> HIDE DEF z
    <3> QED BY <2>3, <2>8, <3>1
  <2> QED BY <2>2, <2>9
<1> QED BY <1>1

\* Of at most four cells with the same factor some number is summed.
LEMMA SumOfFew ==
    ASSUME NEW S, NEW p1, NEW p2, NEW p3, NEW p4, S \in SUBSET {p1, p2, p3, p4},
           NEW a \in {1, 2}, NEW f, \A x \in S : f[x] = a
    PROVE  \E m \in 0 .. 4 : SumOf(f, S) = a * m
<1>1. IsFiniteSet({p1, p2, p3, p4})
  <2>1. IsFiniteSet({p1} \cup {p2} \cup {p3} \cup {p4})
    BY FS_Singleton, FS_Union
  <2>2. {p1} \cup {p2} \cup {p3} \cup {p4} = {p1, p2, p3, p4}
    OBVIOUS
  <2> QED BY <2>1, <2>2
<1>2. ASSUME NEW T \in SUBSET S, NEW x
      PROVE  /\ SumOf(f, T) \in Int
             /\ SumOf(f, T) = SumOf(f, T \ {x}) \/ SumOf(f, T) = a + SumOf(f, T \ {x})
  <2>1. IsFiniteSet(T) /\ \A y \in T : f[y] = a /\ f[y] \in Int
    BY <1>1, FS_Subset
  <2>2. SumOf(f, T) \in Int /\ \A y \in T : SumOf(f, T) = f[y] + SumOf(f, T \ {y})
    BY <2>1, SumOfLaws
  <2>3. x \notin T => T \ {x} = T
    OBVIOUS
  <2> QED BY <2>1, <2>2, <2>3
<1> DEFINE S1 == S \ {p1}
           S2 == S1 \ {p2}
           S3 == S2 \ {p3}
           S4 == S3 \ {p4}
<1>3. S1 \in SUBSET S /\ S2 \in SUBSET S /\ S3 \in SUBSET S /\ S4 = {}
  OBVIOUS
<1>4. SumOf(f, {}) = 0
  BY SumOfIs, SumEmpty
<1>5. SumOf(f, S4) = 0
  BY <1>3, <1>4, Zenon
<1>6. /\ SumOf(f, S) \in Int /\ SumOf(f, S1) \in Int /\ SumOf(f, S2) \in Int /\ SumOf(f, S3) \in Int
      /\ SumOf(f, S) = SumOf(f, S1) \/ SumOf(f, S) = a + SumOf(f, S1)
      /\ SumOf(f, S1) = SumOf(f, S2) \/ SumOf(f, S1) = a + SumOf(f, S2)
      /\ SumOf(f, S2) = SumOf(f, S3) \/ SumOf(f, S2) = a + SumOf(f, S3)
      /\ SumOf(f, S3) = SumOf(f, S4) \/ SumOf(f, S3) = a + SumOf(f, S4)
  BY <1>2, <1>3
<1> HIDE DEF S1, S2, S3, S4
<1>7. SumOf(f, S3) \in {0, a}
  BY <1>5, <1>6
<1>8. SumOf(f, S2) \in {0, a, 2 * a}
  BY <1>6, <1>7
<1>9. SumOf(f, S1) \in {0, a, 2 * a, 3 * a}
  BY <1>6, <1>8
<1>10. SumOf(f, S) \in {0, a, 2 * a, 3 * a, 4 * a}
  BY <1>6, <1>9
<1> QED BY <1>10

\* The cells that a value is handed out to, the sum of their factors, and what
\* each of them gets.
FilterAround(r, mode, radius, cell) == {c \in Cells(r) : Factor(mode, radius, D2(c, cell)) > 0}
FilterFactors(r, mode, radius, cell) ==
    [c \in FilterAround(r, mode, radius, cell) |-> Factor(mode, radius, D2(c, cell))]
FilterArea(r, mode, radius, cell) ==
    SumOf(FilterFactors(r, mode, radius, cell), FilterAround(r, mode, radius, cell))
FilterPart(r, mode, radius, cell, c) ==
    (r.data[cell] * Factor(mode, radius, D2(c, cell))) \div FilterArea(r, mode, radius, cell)

\* Next to a cell there are at most four others.
LEMMA NextToCell ==
    ASSUME NEW r, ImageOK(r), NEW cell \in Cells(r)
    PROVE  {c \in Cells(r) : D2(c, cell) = 1} \in
               SUBSET {<<cell[1] - 1, cell[2]>>, <<cell[1] + 1, cell[2]>>,
                       <<cell[1], cell[2] - 1>>, <<cell[1], cell[2] + 1>>}
<1> SUFFICES ASSUME NEW c \in Cells(r), D2(c, cell) = 1
             PROVE  c \in {<<cell[1] - 1, cell[2]>>, <<cell[1] + 1, cell[2]>>,
                           <<cell[1], cell[2] - 1>>, <<cell[1], cell[2] + 1>>}
  OBVIOUS
<1> DEFINE x == c[1] - cell[1]
           y == c[2] - cell[2]
<1>1. /\ c = <<c[1], c[2]>> /\ c[1] \in Int /\ c[2] \in Int
      /\ cell[1] \in Int /\ cell[2] \in Int
  BY CellParts
<1>2. x \in Int /\ y \in Int /\ c[1] = cell[1] + x /\ c[2] = cell[2] + y
  BY <1>1
<1>3. x * x + y * y = 1
  BY DEF D2, Squared
<1> HIDE DEF x, y
<1>4. x * x \in Nat /\ y * y \in Nat
  BY <1>2
<1>5. x \in -1 .. 1 /\ y \in -1 .. 1
  <2>1. x * x <= 1 * 1 /\ y * y <= 1 * 1
    BY <1>3, <1>4
  <2> QED BY <1>2, <2>1, SquareGrows
<1>6. \/ x = -1 /\ y = 0
      \/ x = 1 /\ y = 0
      \/ x = 0 /\ y = -1
      \/ x = 0 /\ y = 1
  BY <1>3, <1>5
<1> QED BY <1>1, <1>2, <1>6

\* The factors of a filter, and what they sum up to.
LEMMA FactorsAre ==
    ASSUME NEW r, ImageOK(r), NEW mode \in FilterModes, NEW radius \in {0, 1}, NEW cell \in Cells(r),
           NEW f, f = FilterFactors(r, mode, radius, cell),
           NEW around, around = FilterAround(r, mode, radius, cell),
           NEW area, area = FilterArea(r, mode, radius, cell)
    PROVE  /\ around \in SUBSET Cells(r) /\ IsFiniteSet(around) /\ cell \in around
           /\ \A c \in around : f[c] = Factor(mode, radius, D2(c, cell))
           /\ \/ area = 1 /\ \A c \in around : f[c] = 1
              \/ area \in 2 .. 6 /\ \A c \in around : f[c] \in {1, 2}
              \/ area \in {2, 4, 6, 8, 10} /\ \A c \in around : f[c] = 2
<1> DEFINE near == {c \in Cells(r) : D2(c, cell) = 1}
<1>1. \A c \in Cells(r) : D2(c, cell) \in Nat /\ (D2(c, cell) = 0 <=> c = cell)
  BY DistancesAre
<1>2. around \in SUBSET Cells(r) /\ f = [c \in around |-> Factor(mode, radius, D2(c, cell))]
  BY DEF FilterAround, FilterFactors
<1>3. IsFiniteSet(around) /\ area = SumOf(f, around)
  BY <1>2, ImageFinite DEF FilterArea
<1>4. \A c \in around : f[c] = Factor(mode, radius, D2(c, cell))
  BY <1>2
<1>5. \A c \in Cells(r) : c \in around <=> Factor(mode, radius, D2(c, cell)) > 0
  BY DEF FilterAround
<1>6. Squared(0) = 0 /\ Squared(1) = 1
  BY DEF Squared
<1>7. CASE radius = 0
  <2>1. \A d \in Nat : Factor(mode, 0, d) = IF d > 0 THEN 0 ELSE 1
    BY <1>6 DEF Factor, FilterModes
  <2>2. around = {cell}
    BY <1>1, <1>2, <1>5, <1>7, <2>1
  <2>3. \A c \in around : f[c] = 1
    BY <1>1, <1>2, <1>4, <1>7, <2>1, <2>2
  <2>4. SumOf(f, around) = f[cell] + SumOf(f, around \ {cell}) /\ around \ {cell} = {}
    BY <1>3, <2>2, <2>3, SumOfLaws
  <2>5. SumOf(f, {}) = 0
    BY SumOfIs, SumEmpty
  <2>6. area = 1
    BY <1>3, <2>2, <2>3, <2>4, <2>5
  <2> QED BY <1>2, <1>3, <1>4, <2>2, <2>3, <2>6
<1>8. CASE radius = 1
  <2> DEFINE a == IF mode = "Linear" THEN 1 ELSE 2
  <2>1. \A d \in Nat : Factor(mode, 1, d) = IF d > 1 THEN 0 ELSE IF mode = "Linear" THEN 2 - d ELSE 2
    BY <1>6 DEF Factor, FilterModes
  <2>2. cell \in around /\ f[cell] = 2
    BY <1>1, <1>4, <1>5, <1>8, <2>1
  <2>3. ASSUME NEW c \in around \ {cell} PROVE c \in near /\ f[c] = a
    <3>1. c \in Cells(r) /\ D2(c, cell) \in Nat /\ D2(c, cell) # 0
      BY <1>1, <1>2
    <3>2. Factor(mode, 1, D2(c, cell)) > 0
      BY <1>5, <1>8, <3>1
    <3>3. D2(c, cell) = 1
      BY <2>1, <3>1, <3>2
    <3>4. f[c] = Factor(mode, 1, 1)
      BY <1>4, <1>8, <3>3
    <3> QED BY <2>1, <3>1, <3>3, <3>4
  <2>4. a \in {1, 2} /\ (mode = "Linear" => a = 1) /\ (mode # "Linear" => a = 2)
    OBVIOUS
  <2> HIDE DEF a
  <2>5. PICK m \in 0 .. 4 : SumOf(f, around \ {cell}) = a * m
    <3> DEFINE S == around \ {cell}
    <3>1. near \in SUBSET {<<cell[1] - 1, cell[2]>>, <<cell[1] + 1, cell[2]>>,
                           <<cell[1], cell[2] - 1>>, <<cell[1], cell[2] + 1>>}
      BY NextToCell
    <3>2. S \in SUBSET {<<cell[1] - 1, cell[2]>>, <<cell[1] + 1, cell[2]>>,
                        <<cell[1], cell[2] - 1>>, <<cell[1], cell[2] + 1>>}
      BY <2>3, <3>1
    <3>3. \A c \in S : f[c] = a
      BY <2>3
    <3> HIDE DEF S
    <3>4. \E m \in 0 .. 4 : SumOf(f, S) = a * m
      BY <2>4, <3>2, <3>3, SumOfFew
    <3> QED BY <3>4 DEF S
  <2>6. \A c \in around : f[c] = IF c = cell THEN 2 ELSE a
    BY <2>2, <2>3
  <2>7. area = 2 + a * m
    <3>1. \A c \in around : f[c] \in Int
      BY <2>4, <2>6
    <3>2. SumOf(f, around) = f[cell] + SumOf(f, around \ {cell})
      BY <1>3, <2>2, <3>1, SumOfLaws
    <3> QED BY <1>3, <2>2, <2>5, <3>2
  <2>8. CASE a = 1
    <3>1. area \in 2 .. 6 /\ \A c \in around : f[c] \in {1, 2}
      BY <2>6, <2>7, <2>8
    <3> QED BY <1>2, <1>3, <1>4, <2>2, <3>1
  <2>9. CASE a = 2
    <3>1. area \in {2, 4, 6, 8, 10} /\ \A c \in around : f[c] = 2
      BY <2>6, <2>7, <2>9
    <3> QED BY <1>2, <1>3, <1>4, <2>2, <3>1
  <2> QED BY <2>4, <2>8, <2>9
<1> QED BY <1>7, <1>8

\* A product divided by one of its factors is the other.
LEMMA DivExact ==
    ASSUME NEW a \in Nat \ {0}, NEW z \in Int
    PROVE  (a * z) \div a = z
OBVIOUS

\* A multiple of 60 is handed out in whole parts that sum up to it.
LEMMA PartsAre ==
    ASSUME NEW r, ImageOK(r), NEW mode \in FilterModes, NEW radius \in {0, 1}, NEW cell \in Cells(r),
           NEW x \in Int, r.data[cell] = 60 * x,
           NEW around, around = FilterAround(r, mode, radius, cell),
           NEW part, part = [c \in around |-> FilterPart(r, mode, radius, cell, c)]
    PROVE  /\ \A c \in around : part[c] \in Int /\ (x >= 0 => part[c] >= 0)
           /\ SumOf(part, around) = r.data[cell]
<1> DEFINE f == FilterFactors(r, mode, radius, cell)
           area == FilterArea(r, mode, radius, cell)
           p == [c \in around |-> (60 * f[c]) \div area]
<1>1. /\ IsFiniteSet(around)
      /\ \A c \in around : f[c] = Factor(mode, radius, D2(c, cell))
      /\ \/ area = 1 /\ \A c \in around : f[c] = 1
         \/ area \in 2 .. 6 /\ \A c \in around : f[c] \in {1, 2}
         \/ area \in {2, 4, 6, 8, 10} /\ \A c \in around : f[c] = 2
  BY FactorsAre
<1>2. area = SumOf(f, around)
  BY DEF FilterArea
<1>3. \A c \in around : part[c] = (r.data[cell] * f[c]) \div area
  BY <1>1 DEF FilterPart
<1> HIDE DEF f, area
<1>4. area \in Nat \ {0} /\ \A c \in around : f[c] \in {1, 2}
  BY <1>1
<1>5. ASSUME NEW c \in around PROVE p[c] \in Nat /\ area * p[c] = 60 * f[c]
  <2>1. p[c] = (60 * f[c]) \div area
    OBVIOUS
  <2>2. CASE area \in 2 .. 6 /\ f[c] = 1
    <3>1. area \in {2, 3, 4, 5, 6}
      BY <2>2
    <3> QED BY <2>1, <2>2, <3>1
  <2>3. CASE area \in 2 .. 6 /\ f[c] = 2
    <3>1. area \in {2, 3, 4, 5, 6}
      BY <2>3
    <3> QED BY <2>1, <2>3, <3>1
  <2>4. CASE area \in {2, 4, 6, 8, 10} /\ f[c] = 2
    BY <2>1, <2>4
  <2>5. CASE area = 1
    BY <1>4, <2>1, <2>5
  <2> QED BY <1>1, <2>2, <2>3, <2>4, <2>5
<1>6. ASSUME NEW c \in around PROVE part[c] = x * p[c]
  <2>1. r.data[cell] * f[c] = area * (x * p[c])
    <3> DEFINE y == f[c]
               z == p[c]
    <3>1. y \in Int /\ z \in Int /\ area \in Int /\ area * z = 60 * y
      BY <1>4, <1>5
    <3> HIDE DEF y, z, p
    <3>2. (60 * x) * y = x * (60 * y) /\ area * (x * z) = x * (area * z)
      BY <3>1
    <3> QED BY <3>1, <3>2 DEF y, z
  <2> HIDE DEF p
  <2>2. x * p[c] \in Int
    BY <1>5
  <2> QED BY <1>3, <1>4, <2>1, <2>2, DivExact
<1> HIDE DEF p
<1>7. \A c \in around : part[c] \in Int /\ (x >= 0 => part[c] >= 0)
  <2>1. \A y, z \in Int : y >= 0 /\ z >= 0 => y * z \in Int /\ y * z >= 0
    OBVIOUS
  <2>2. \A c \in around : p[c] \in Int /\ p[c] >= 0
    BY <1>5
  <2>3. \A c \in around : x * p[c] \in Int
    BY <2>2
  <2> QED BY <1>6, <2>1, <2>2, <2>3
<1>8. SumOf(p, around) = 60
  <2> DEFINE e == [c \in around |-> 60 * f[c]]
             total == SumOf(p, around)
  <2>1. SumOf(e, around) = 60 * SumOf(f, around)
    <3>1. \A c \in around : f[c] \in Int /\ e[c] = 60 * f[c]
      BY <1>4
    <3> HIDE DEF e
    <3> QED BY <1>1, <3>1, SumOfTimes
  <2>2. SumOf(e, around) = area * SumOf(p, around)
    <3>1. \A c \in around : p[c] \in Int /\ e[c] = area * p[c]
      BY <1>5
    <3>2. area \in Int
      BY <1>4
    <3> HIDE DEF e
    <3> QED BY <1>1, <3>1, <3>2, SumOfTimes
  <2>3. total \in Int
    <3>1. \A c \in around : p[c] \in Int
      BY <1>5
    <3> QED BY <1>1, <3>1, SumOfLaws
  <2> HIDE DEF e, total
  <2>4. area * total = area * 60
    BY <1>2, <1>4, <2>1, <2>2 DEF total
  <2>5. (area * total) \div area = total /\ (area * 60) \div area = 60
    BY <1>4, <2>3, DivExact
  <2> QED BY <2>4, <2>5 DEF total
<1>9. SumOf(part, around) = x * SumOf(p, around)
  <2>1. \A c \in around : p[c] \in Int /\ part[c] = x * p[c]
    BY <1>5, <1>6
  <2> QED BY <1>1, <2>1, SumOfTimes
<1>10. SumOf(part, around) = r.data[cell]
  BY <1>8, <1>9
<1> QED BY <1>7, <1>10

\* What a cell gets, once or twice, and the raster after a value is handed out.
FilterShare(r, mode, radius, normalize, cell, c) ==
    LET product == r.data[cell] * Factor(mode, radius, D2(c, cell))
    IN  IF normalize THEN product \div FilterArea(r, mode, radius, cell) ELSE product
FilterTwice(mode, normalize, cell, ras) == normalize /\ mode = "Exponential" /\ ras[cell] # Null
FilterNext(r, mode, radius, normalize, ras, cell) ==
    IF cell \in r.missing THEN ras
    ELSE [c \in Cells(r) |->
             IF c \notin FilterAround(r, mode, radius, cell) THEN ras[c]
             ELSE increment_or_assign(ras, c,
                      IF c = cell /\ FilterTwice(mode, normalize, cell, ras)
                      THEN 2 * FilterShare(r, mode, radius, normalize, cell, c)
                      ELSE FilterShare(r, mode, radius, normalize, cell, c))[c]]

\* What a cell holds and what all of them hold.
HeldAt(r, ras) == [c \in Cells(r) |-> IF ras[c] = Null THEN 0 ELSE ras[c]]
Held(r, ras) == SumOf(HeldAt(r, ras), Cells(r))

FilterStates(r) == [Cells(r) -> Int \cup {Null}]

\* A number is added to a cell that may be nodata.
LEMMA AddedTo ==
    ASSUME NEW old \in Int \cup {Null}, NEW gain \in Int
    PROVE  /\ (IF old = Null THEN 0 ELSE old) \in Int
           /\ LET new == IF old = Null THEN gain ELSE old + gain
              IN  /\ new \in Int /\ new # Null
                  /\ new = (IF old = Null THEN 0 ELSE old) + gain
           /\ (IF old = Null THEN 0 ELSE old) = (IF old = Null THEN 0 ELSE old) + 0
<1>1. Null \notin Int
  BY AreaAssumption
<1>2. CASE old = Null
  BY <1>1, <1>2
<1>3. CASE old # Null
  BY <1>1, <1>3
<1> QED BY <1>2, <1>3

\* What a raster holds is the sum of what is not nodata.
LEMMA HeldIs ==
    ASSUME NEW r, ImageOK(r), NEW ras \in FilterStates(r)
    PROVE  /\ HeldAt(r, ras) \in [Cells(r) -> Int] /\ Held(r, ras) \in Int
           /\ SumOf(ras, {c \in Cells(r) : ras[c] # Null}) = Held(r, ras)
<1> DEFINE h == HeldAt(r, ras)
           part == {c \in Cells(r) : ras[c] # Null}
<1>1. h \in [Cells(r) -> Int]
  BY DEF HeldAt, FilterStates
<1>2. IsFiniteSet(Cells(r)) /\ part \in SUBSET Cells(r) /\ IsFiniteSet(part)
  BY ImageFinite
<1>3. /\ \A c \in part : h[c] = ras[c]
      /\ \A c \in Cells(r) \ part : h[c] = 0
  BY DEF HeldAt
<1> HIDE DEF h, part
<1>4. SumOf(h, Cells(r)) = SumOf(h, part)
  BY <1>1, <1>2, <1>3, SumOfRest
<1>5. SumOf(ras, part) = SumOf(h, part)
  <2>1. \A c \in part : h[c] \in Int /\ ras[c] = h[c]
    BY <1>1, <1>2, <1>3
  <2> QED BY <1>2, <2>1, SumOfSame
<1>6. SumOf(h, Cells(r)) \in Int
  BY <1>1, <1>2, SumOfLaws
<1> QED BY <1>1, <1>4, <1>5, <1>6 DEF h, part, Held

\* What a cell hands out when ras becomes next: nothing if it is nodata, and
\* otherwise its value, or more if the exponential filter adds to it.
HandsOut(r, mode, cell, ras, next) ==
    /\ next \in FilterStates(r)
    /\ cell \in r.missing => next = ras
    /\ cell \notin r.missing =>
          \/ Held(r, next) = Held(r, ras) + r.data[cell]
          \/ mode = "Exponential" /\ (r.data[cell] >= 0 => Held(r, next) >= Held(r, ras) + r.data[cell])

\* The cells around get parts of the value that sum up to it, the cell itself
\* twice its part if the filter is the exponential one.
LEMMA FilterStep ==
    ASSUME NEW r, ImageOK(r), NEW mode \in FilterModes, NEW radius \in {0, 1}, NEW cell \in Cells(r),
           NEW ras \in FilterStates(r), NEW x \in Int, r.data[cell] = 60 * x, cell \notin r.missing
    PROVE  HandsOut(r, mode, cell, ras, FilterNext(r, mode, radius, TRUE, ras, cell))
<1> DEFINE around == FilterAround(r, mode, radius, cell)
           part == [c \in around |-> FilterPart(r, mode, radius, cell, c)]
           next == FilterNext(r, mode, radius, TRUE, ras, cell)
<1>21. around = FilterAround(r, mode, radius, cell) /\ next = FilterNext(r, mode, radius, TRUE, ras, cell)
  OBVIOUS
<1> HIDE DEF around, next
<1>22. part = [c \in around |-> FilterPart(r, mode, radius, cell, c)]
  OBVIOUS
<1> HIDE DEF part
<1> DEFINE extra == IF FilterTwice(mode, TRUE, cell, ras) THEN part[cell] ELSE 0
           more == [c \in Cells(r) |-> IF c \in around THEN part[c] ELSE 0]
           less == [c \in Cells(r) |-> IF c = cell THEN extra ELSE 0]
           gain == [c \in Cells(r) |-> more[c] + less[c]]
           before == HeldAt(r, ras)
           after == HeldAt(r, next)
<1>1. /\ IsFiniteSet(Cells(r)) /\ IsFiniteSet(around)
      /\ around \in SUBSET Cells(r) /\ cell \in around
  BY <1>21, ImageFinite, FactorsAre
<1>2. /\ \A c \in around : part[c] \in Int /\ (x >= 0 => part[c] >= 0)
      /\ SumOf(part, around) = r.data[cell]
  BY <1>21, <1>22, PartsAre
<1>3. \A c \in around : FilterShare(r, mode, radius, TRUE, cell, c) = part[c]
  BY <1>22 DEF FilterShare, FilterPart
<1>4. /\ extra \in Int /\ (x >= 0 => extra >= 0)
      /\ mode # "Exponential" => extra = 0
  BY <1>1, <1>2 DEF FilterTwice
<1>5. \A c \in Cells(r) : ras[c] \in Int \cup {Null}
  BY DEF FilterStates
<1>17. \A c \in Cells(r) : /\ more[c] = IF c \in around THEN part[c] ELSE 0
                           /\ less[c] = IF c = cell THEN extra ELSE 0
                           /\ gain[c] = more[c] + less[c]
  <2>1. \A c \in Cells(r) : /\ more[c] = IF c \in around THEN part[c] ELSE 0
                            /\ less[c] = IF c = cell THEN extra ELSE 0
    <3> HIDE DEF extra
    <3> QED OBVIOUS
  <2> HIDE DEF more, less
  <2>2. \A c \in Cells(r) : gain[c] = more[c] + less[c]
    OBVIOUS
  <2> QED BY <2>1, <2>2
<1> HIDE DEF more, less, gain, before, after, extra
<1>6. ASSUME NEW c \in Cells(r)
      PROVE  next[c] = IF c \notin around THEN ras[c]
                       ELSE IF ras[c] = Null THEN gain[c] ELSE ras[c] + gain[c]
  <2>1. next[c] = IF c \notin around THEN ras[c]
                  ELSE increment_or_assign(ras, c,
                           IF c = cell /\ FilterTwice(mode, TRUE, cell, ras)
                           THEN 2 * FilterShare(r, mode, radius, TRUE, cell, c)
                           ELSE FilterShare(r, mode, radius, TRUE, cell, c))[c]
    BY <1>21 DEF FilterNext
  <2>2. \A v : increment_or_assign(ras, c, v)[c] = IF ras[c] = Null THEN v ELSE ras[c] + v
    BY DEF increment_or_assign, FilterStates
  <2>3. CASE c \notin around
    BY <2>1, <2>3
  <2>4. CASE c \in around
    <3> DEFINE share == IF c = cell /\ FilterTwice(mode, TRUE, cell, ras) THEN 2 * part[c] ELSE part[c]
    <3>1. next[c] = IF ras[c] = Null THEN share ELSE ras[c] + share
      BY <1>3, <2>1, <2>2, <2>4
    <3>2. share = gain[c]
      <4>1. gain[c] = part[c] + (IF c = cell THEN extra ELSE 0)
        BY <1>17, <2>4
      <4>2. part[c] \in Int
        BY <1>2, <2>4
      <4>3. extra = IF FilterTwice(mode, TRUE, cell, ras) THEN part[cell] ELSE 0
        BY DEF extra
      <4> DEFINE p == part[c]
      <4>4. CASE c = cell /\ FilterTwice(mode, TRUE, cell, ras)
        <5>1. gain[c] = p + p /\ share = 2 * p /\ p \in Int
          BY <4>1, <4>2, <4>3, <4>4
        <5> HIDE DEF p, share
        <5> QED BY <5>1
      <4>5. CASE ~(c = cell /\ FilterTwice(mode, TRUE, cell, ras))
        <5>1. (IF c = cell THEN extra ELSE 0) = 0
          BY <4>3, <4>5
        <5>2. gain[c] = p + 0 /\ p \in Int
          BY <4>1, <4>2, <5>1, Zenon
        <5>3. share = p
          BY <4>5
        <5> HIDE DEF p, share
        <5> QED BY <5>2, <5>3
      <4> QED BY <4>4, <4>5
    <3> HIDE DEF share
    <3> QED BY <2>4, <3>1, <3>2
  <2> QED BY <2>3, <2>4
<1>7. \A c \in Cells(r) : more[c] \in Int /\ less[c] \in Int /\ gain[c] = more[c] + less[c]
  <2> QED BY <1>2, <1>4, <1>17
<1>8. \A c \in Cells(r) \ around : gain[c] = 0
  <2> QED BY <1>1, <1>17
<1>9. ASSUME NEW c \in Cells(r)
      PROVE  /\ next[c] \in Int \cup {Null}
             /\ before[c] \in Int /\ gain[c] \in Int /\ after[c] = before[c] + gain[c]
  <2>1. before[c] = IF ras[c] = Null THEN 0 ELSE ras[c]
    BY DEF HeldAt, before
  <2>2. after[c] = IF next[c] = Null THEN 0 ELSE next[c]
    BY DEF HeldAt, after
  <2> DEFINE here == c \in around
             old == ras[c]
             new == next[c]
             v == gain[c]
  <2>3. here \/ v = 0
    BY <1>8
  <2>4. v \in Int /\ old \in Int \cup {Null} /\ here \in BOOLEAN
    BY <1>5, <1>7
  <2>5. new = IF ~here THEN old ELSE IF old = Null THEN v ELSE old + v
    BY <1>6
  <2> HIDE DEF here, old, new, v
  <2>6. /\ new \in Int \cup {Null}
        /\ (IF new = Null THEN 0 ELSE new) = (IF old = Null THEN 0 ELSE old) + v
        /\ (IF old = Null THEN 0 ELSE old) \in Int
    <3>1. CASE here
      BY <2>4, <2>5, <3>1, AddedTo
    <3>2. CASE ~here
      BY <2>3, <2>4, <2>5, <3>2, AddedTo
    <3> QED BY <3>1, <3>2
  <2> QED BY <2>1, <2>2, <2>4, <2>6, Zenon DEF old, new, v
<1>20. next \in FilterStates(r)
  <2>1. \A c \in Cells(r) : next[c] \in Int \cup {Null}
    BY <1>9, Zenon
  <2>2. next = [c \in Cells(r) |-> next[c]]
    BY <1>21 DEF FilterNext
  <2> QED BY <2>1, <2>2 DEF FilterStates
<1>10. \A c \in Cells(r) : /\ before[c] \in Int /\ gain[c] \in Int
                           /\ after[c] = before[c] + gain[c]
  BY <1>9, Zenon
<1>11. SumOf(more, Cells(r)) = r.data[cell]
  <2>1. \A c \in Cells(r) \ around : more[c] = 0
    BY <1>17
  <2>2. \A c \in around : part[c] \in Int /\ more[c] = part[c]
    BY <1>1, <1>2, <1>17
  <2>3. SumOf(more, Cells(r)) = SumOf(more, around)
    BY <1>1, <1>7, <2>1, SumOfRest
  <2>4. SumOf(more, around) = SumOf(part, around)
    BY <1>1, <2>2, SumOfSame
  <2> QED BY <1>2, <2>3, <2>4
<1>12. SumOf(less, Cells(r)) = extra
  <2>1. \A c \in Cells(r) \ {cell} : less[c] = 0
    BY <1>17
  <2>2. less[cell] = extra
    BY <1>17
  <2>3. IsFiniteSet(Cells(r) \ {cell})
    BY <1>1, FS_RemoveElement
  <2>4. SumOf(less, Cells(r) \ {cell}) = 0
    BY <2>1, <2>3, SumOfZeros
  <2>5. SumOf(less, Cells(r)) = less[cell] + SumOf(less, Cells(r) \ {cell})
    BY <1>1, <1>7, SumOfLaws
  <2> QED BY <1>4, <2>2, <2>4, <2>5
<1>13. SumOf(gain, Cells(r)) = r.data[cell] + extra
  BY <1>1, <1>7, <1>11, <1>12, SumOfPlus
<1>14. SumOf(after, Cells(r)) = SumOf(before, Cells(r)) + SumOf(gain, Cells(r))
  BY <1>1, <1>10, SumOfPlus
<1>15. Held(r, next) = Held(r, ras) + (r.data[cell] + extra) /\ Held(r, ras) \in Int
  BY <1>13, <1>14, HeldIs DEF Held, before, after
<1>16. r.data[cell] \in Int
  OBVIOUS
<1> DEFINE a == Held(r, ras)
           b == Held(r, next)
           d == r.data[cell]
<1>18. a \in Int /\ d \in Int /\ b = a + (d + extra)
  BY <1>15, <1>16, Zenon
<1> HIDE DEF a, b, d
<1>19. b = a + d \/ (mode = "Exponential" /\ (x >= 0 => b >= a + d))
  BY <1>4, <1>18
<1>23. d >= 0 => x >= 0
  <2>1. d = 60 * x
    BY DEF d
  <2> QED BY <2>1
<1>24. b = a + d \/ (mode = "Exponential" /\ (d >= 0 => b >= a + d))
  BY <1>19, <1>23, Zenon
<1>25. HandsOut(r, mode, cell, ras, next)
  BY <1>20, <1>24, Zenon DEF a, b, d, HandsOut
<1> QED BY <1>21, <1>25, Zenon

\* A raster whose elements can be shared by 1 to 6 cells
Shareable(r) == \A c \in Cells(r) : \E x \in Int : r.data[c] = 60 * x

\* Every turn of the loop of filter hands out the value of its cell.
LEMMA HandedOut ==
    ASSUME NEW r, ImageOK(r), Shareable(r), NEW mode \in FilterModes, NEW radius \in {0, 1}
    PROVE  \A cell \in Cells(r), ras \in FilterStates(r) :
               HandsOut(r, mode, cell, ras, FilterNext(r, mode, radius, TRUE, ras, cell))
<1> SUFFICES ASSUME NEW cell \in Cells(r), NEW ras \in FilterStates(r)
             PROVE  HandsOut(r, mode, cell, ras, FilterNext(r, mode, radius, TRUE, ras, cell))
  BY Zenon
<1>1. CASE cell \in r.missing
  BY <1>1 DEF FilterNext, HandsOut
<1>2. CASE cell \notin r.missing
  <2>1. PICK x \in Int : r.data[cell] = 60 * x
    BY DEF Shareable
  <2> QED BY <1>2, <2>1, FilterStep, Zenon
<1> QED BY <1>1, <1>2

\* The states of the loop of filter, one after the other.
LEMMA FilterAlong ==
    ASSUME NEW r, ImageOK(r), Shareable(r), NEW mode \in FilterModes, NEW radius \in {0, 1}
    PROVE  \E g : /\ g[1 .. 0] = [c \in Cells(r) |-> Null]
                  /\ \A k \in 1 .. r.rows * r.cols :
                        /\ g[1 .. k - 1] \in FilterStates(r)
                        /\ g[1 .. k] = FilterNext(r, mode, radius, TRUE, g[1 .. k - 1], Scan(r)[k])
                  /\ g[1 .. r.rows * r.cols] \in FilterStates(r)
                  /\ filter(r, mode, radius, TRUE) = g[1 .. r.rows * r.cols]
<1> DEFINE w == Scan(r)
           n == r.rows * r.cols
           V == FilterStates(r)
           base == [c \in Cells(r) |-> Null]
           On(x, c) == FilterNext(r, mode, radius, TRUE, x, c)
           F == [p \in (1 .. n) \X V |-> On(p[2], w[p[1]])]
           Keeps(g) == g = [s \in SUBSET (1 .. n) |->
                              IF s = {} THEN base ELSE On(g[s \ {Max(s)}], w[Max(s)])]
           g == CHOOSE g : Keeps(g)
<1>1. n \in Nat /\ DOMAIN w = 1 .. n /\ \A i \in 1 .. n : w[i] \in Cells(r)
  BY ScanIs
<1>2. \A i \in 1 .. n : \A x \in V : On(x, w[i]) \in V
  <2> SUFFICES ASSUME NEW i \in 1 .. n, NEW x \in V PROVE On(x, w[i]) \in V
    BY Zenon
  <2>1. w[i] \in Cells(r)
    BY <1>1
  <2>2. HandsOut(r, mode, w[i], x, FilterNext(r, mode, radius, TRUE, x, w[i]))
    <3>1. \A cell \in Cells(r), ras \in FilterStates(r) :
             HandsOut(r, mode, cell, ras, FilterNext(r, mode, radius, TRUE, ras, cell))
      BY HandedOut
    <3> HIDE DEF w
    <3> QED BY <2>1, <3>1, Zenon
  <2> HIDE DEF w
  <2> QED BY <2>2, Zenon DEF HandsOut
<1>3. F \in [(1 .. n) \X V -> V]
  <2> HIDE DEF n, V, On, w
  <2> QED BY <1>2
<1>4. \A i \in 1 .. n : \A x \in V : F[<<i, x>>] = On(x, w[i])
  <2> HIDE DEF On, V, w, n
  <2> QED OBVIOUS
<1>5. filter(r, mode, radius, TRUE) = g[1 .. n]
  <2>1. filter(r, mode, radius, TRUE) =
            FoldLeft(LAMBDA ras, cell : FilterNext(r, mode, radius, TRUE, ras, cell), base, w)
    BY Zenon DEF filter, FilterNext, FilterTwice, FilterShare, FilterArea, FilterFactors, FilterAround
  <2>2. FoldLeft(LAMBDA ras, cell : FilterNext(r, mode, radius, TRUE, ras, cell), base, w) = g[1 .. n]
    <3> HIDE DEF n, w, base
    <3> QED BY <1>1 DEF FoldLeft, MapThenFoldSet
  <2> QED BY <2>1, <2>2, Zenon
<1>6. base \in V
  BY DEF FilterStates
<1> HIDE DEF n, F, V, On, w, base
<1>7. PICK h \in [SUBSET (1 .. n) -> V] : Folds(h, 1 .. n, base, F, Latest(n))
  BY <1>1, <1>3, <1>6, LeftFoldExists
<1>8. Keeps(h)
  <2>1. ASSUME NEW s \in SUBSET (1 .. n)
        PROVE  h[s] = IF s = {} THEN base ELSE On(h[s \ {Max(s)}], w[Max(s)])
    <3>1. \A t \in SUBSET (1 .. n) :
            h[t] = IF t = {} THEN base
                   ELSE F[<<Latest(n)[t], h[t \ {Latest(n)[t]}]>>]
      <4>1. h = [t \in SUBSET (1 .. n) |->
                   IF t = {} THEN base
                   ELSE F[<<Latest(n)[t], h[t \ {Latest(n)[t]}]>>]]
        BY <1>7 DEF Folds
      <4> QED BY <4>1, Zenon
    <3>2. CASE s # {}
      <4>1. Latest(n)[s] = Max(s)
        BY DEF Latest
      <4>2. Max(s) \in 1 .. n /\ h[s \ {Max(s)}] \in V
        BY <1>1, <3>2, MaxIs
      <4> QED BY <1>4, <3>1, <3>2, <4>1, <4>2
    <3> QED BY <3>1, <3>2
  <2>2. h = [s \in SUBSET (1 .. n) |-> IF s = {} THEN base ELSE On(h[s \ {Max(s)}], w[Max(s)])]
    BY <1>7, <2>1
  <2> QED BY <2>2, Zenon DEF On
<1>9. Keeps(g)
  BY <1>8
<1> HIDE DEF g
<1>10. \A s \in SUBSET (1 .. n) : g[s] = IF s = {} THEN base ELSE On(g[s \ {Max(s)}], w[Max(s)])
  BY <1>9, Zenon
<1>11. g[1 .. 0] = base
  <2>1. 1 .. 0 = {} /\ {} \in SUBSET (1 .. n)
    OBVIOUS
  <2> QED BY <1>10, <2>1, Zenon
<1>12. ASSUME NEW k \in 1 .. n PROVE g[1 .. k] = On(g[1 .. k - 1], w[k])
  <2>1. /\ 1 .. k \in SUBSET (1 .. n) /\ 1 .. k # {}
        /\ (1 .. k) \ {k} = 1 .. k - 1
    BY <1>1, Segment
  <2>2. Max(1 .. k) = k
    BY <1>1, MaxIs
  <2> QED BY <1>10, <2>1, <2>2, Zenon
<1>13. \A k \in 0 .. n : g[1 .. k] \in V
  <2>1. \A k \in 1 .. n : g[1 .. k - 1] \in V => g[1 .. k] \in V
    BY <1>2, <1>12
  <2> QED BY <1>1, <1>6, <1>11, <2>1, StaysIn
<1>14. n \in 0 .. n /\ \A k \in 1 .. n : k - 1 \in 0 .. n
  BY <1>1
<1> QED BY <1>5, <1>11, <1>12, <1>13, <1>14 DEF n, w, base, V, On

TotalOf(r) == SumOf(r.data, DataIn(r, Cells(r)))
KeptBy(t, r) == SumOf(t, {c \in Cells(r) : t[c] # Null})
Conserves(r, mode, t) ==
    \/ KeptBy(t, r) = TotalOf(r)
    \/ mode = "Exponential" /\ ((\A c \in Cells(r) : r.data[c] >= 0) => KeptBy(t, r) >= TotalOf(r))

\* After the loop all values have been handed out.
LEMMA Conserved ==
    ASSUME NEW r, ImageOK(r), Shareable(r), NEW mode \in FilterModes, NEW radius \in {0, 1}
    PROVE  Conserves(r, mode, filter(r, mode, radius, TRUE))
<1> DEFINE t == filter(r, mode, radius, TRUE)
           total == SumOf(r.data, DataIn(r, Cells(r)))
           kept == SumOf(t, {c \in Cells(r) : t[c] # Null})
<1>13. /\ t = filter(r, mode, radius, TRUE)
       /\ total = SumOf(r.data, DataIn(r, Cells(r)))
       /\ kept = SumOf(t, {c \in Cells(r) : t[c] # Null})
  OBVIOUS
<1> HIDE DEF t, total, kept
<1> DEFINE n == r.rows * r.cols
           w == Scan(r)
           loss == \E c \in Cells(r) : ~(r.data[c] >= 0)
<1>1. n \in Nat \ {0} /\ \A i \in 1 .. n : w[i] \in Cells(r)
  BY ScanIs
<1>2. /\ \A c \in Cells(r) : \E k \in 1 .. n : w[k] = c
      /\ \A k, l \in 1 .. n : w[k] = w[l] => k = l
  BY ScanIs
<1>3. PICK g : /\ g[1 .. 0] = [c \in Cells(r) |-> Null]
               /\ \A k \in 1 .. n :
                     /\ g[1 .. k - 1] \in FilterStates(r)
                     /\ g[1 .. k] = FilterNext(r, mode, radius, TRUE, g[1 .. k - 1], w[k])
               /\ g[1 .. n] \in FilterStates(r)
               /\ filter(r, mode, radius, TRUE) = g[1 .. n]
  BY FilterAlong
<1>4. \A c \in Cells(r) : r.data[c] \in Int
  BY DEF ImageOK
<1> HIDE DEF n, w
<1> DEFINE Done(k) == {w[i] : i \in 1 .. k} \ r.missing
           Right(k) == \/ Held(r, g[1 .. k]) = SumOf(r.data, Done(k))
                       \/ /\ mode = "Exponential"
                          /\ loss \/ Held(r, g[1 .. k]) >= SumOf(r.data, Done(k))
           Off == {k \in 0 .. n : ~Right(k)}
<1>5. \A k \in 0 .. n : Done(k) \in SUBSET Cells(r)
  <2>1. \A k \in 0 .. n : \A i \in 1 .. k : i \in 1 .. n
    BY <1>1
  <2> QED BY <1>1, <2>1
<1>6. \A k \in 0 .. n : IsFiniteSet(Done(k)) /\ SumOf(r.data, Done(k)) \in Int
  <2> SUFFICES ASSUME NEW k \in 0 .. n PROVE IsFiniteSet(Done(k)) /\ SumOf(r.data, Done(k)) \in Int
    OBVIOUS
  <2>1. Done(k) \in SUBSET Cells(r)
    BY <1>5
  <2> HIDE DEF Done
  <2>2. IsFiniteSet(Done(k)) /\ \A c \in Done(k) : r.data[c] \in Int
    BY <1>4, <2>1, ImageFinite
  <2> QED BY <2>2, SumOfLaws
<1>7. Off = {}
  <2> SUFFICES ASSUME Off # {} PROVE FALSE
    OBVIOUS
  <2>1. PICK k \in Off : \A m \in Off : k <= m
    <3>1. Off \in SUBSET Nat
      BY <1>1
    <3> HIDE DEF Off
    <3> QED BY <3>1, LeastNatural
  <2>2. k \in 0 .. n /\ ~Right(k)
    OBVIOUS
  <2>3. k # 0
    <3> SUFFICES ASSUME k = 0 PROVE FALSE
      OBVIOUS
    <3>1. Done(0) = {}
      OBVIOUS
    <3>2. SumOf(r.data, {}) = 0
      BY SumOfIs, SumEmpty
    <3>3. Held(r, g[1 .. 0]) = 0
      <4>1. \A c \in Cells(r) : HeldAt(r, g[1 .. 0])[c] = 0
        BY <1>3 DEF HeldAt
      <4> QED BY <4>1, ImageFinite, SumOfZeros DEF Held
    <3>4. Held(r, g[1 .. 0]) = SumOf(r.data, Done(0))
      BY <3>1, <3>2, <3>3, Zenon
    <3>5. Right(0)
      BY <3>4
    <3> HIDE DEF Right
    <3> QED BY <2>2, <3>5
  <2>4. k \in 1 .. n /\ k - 1 \in 0 .. n /\ ~(k <= k - 1)
    BY <1>1, <2>2, <2>3
  <2>5. Right(k - 1)
    BY <2>1, <2>4
  <2> DEFINE ras == g[1 .. k - 1]
             next == g[1 .. k]
             cell == w[k]
             b == Held(r, ras)
             a == Held(r, next)
             s == SumOf(r.data, Done(k - 1))
             u == SumOf(r.data, Done(k))
             d == r.data[cell]
  <2>6. /\ cell \in Cells(r) /\ ras \in FilterStates(r)
        /\ next = FilterNext(r, mode, radius, TRUE, ras, cell)
    BY <1>1, <1>3, <2>4
  <2>16. HandsOut(r, mode, cell, ras, next)
    <3>1. \A c \in Cells(r), x \in FilterStates(r) :
             HandsOut(r, mode, c, x, FilterNext(r, mode, radius, TRUE, x, c))
      BY HandedOut
    <3> HIDE DEF cell, ras, next
    <3> QED BY <2>6, <3>1, Zenon
  <2>7. /\ cell \in r.missing => next = ras
        /\ cell \notin r.missing => a = b + d \/ (mode = "Exponential" /\ (d >= 0 => a >= b + d))
    <3> HIDE DEF cell, ras, next
    <3> QED BY <2>16, Zenon DEF HandsOut
  <2>8. s \in Int /\ u \in Int /\ b \in Int /\ d \in Int /\ a \in Int
    <3>1. next \in FilterStates(r)
      <4> HIDE DEF cell, ras, next
      <4> QED BY <2>16, Zenon DEF HandsOut
    <3>2. s \in Int /\ u \in Int
      BY <1>6, <2>2, <2>4
    <3>3. d \in Int
      BY <1>4, <2>6
    <3> HIDE DEF ras, next, cell, s, u
    <3> QED BY <2>6, <3>1, <3>2, <3>3, HeldIs
  <2>9. {w[i] : i \in 1 .. k} = {w[i] : i \in 1 .. k - 1} \cup {cell}
    <3>1. 1 .. k = (1 .. k - 1) \cup {k}
      BY <1>1, <2>4
    <3> QED BY <3>1
  <2>10. cell \notin {w[i] : i \in 1 .. k - 1}
    <3>1. \A i \in 1 .. k - 1 : i \in 1 .. n /\ i # k
      BY <1>1, <2>4
    <3> QED BY <1>2, <2>4, <3>1
  <2>11. ~loss => d >= 0
    BY <2>6
  <2>12. b = s \/ (mode = "Exponential" /\ (loss \/ b >= s))
    BY <2>5
  <2>13. ~(a = u \/ (mode = "Exponential" /\ (loss \/ a >= u)))
    BY <2>2
  <2>14. CASE cell \in r.missing
    <3>1. Done(k) = Done(k - 1)
      BY <2>9, <2>14
    <3>2. u = s /\ a = b
      BY <2>7, <2>14, <3>1, Zenon
    <3> HIDE DEF a, b, s, u, loss
    <3> QED BY <2>12, <2>13, <3>2
  <2>15. CASE cell \notin r.missing
    <3>1. Done(k) \ {cell} = Done(k - 1) /\ cell \in Done(k)
      BY <2>9, <2>10, <2>15
    <3>2. u = d + SumOf(r.data, Done(k) \ {cell})
      <4>1. IsFiniteSet(Done(k)) /\ \A c \in Done(k) : r.data[c] \in Int
        BY <1>4, <1>5, <1>6, <2>2
      <4> HIDE DEF Done, cell
      <4> QED BY <3>1, <4>1, SumOfLaws
    <3>3. u = d + s
      BY <3>1, <3>2, Zenon
    <3> HIDE DEF a, b, s, u, d, loss, cell
    <3> QED BY <2>7, <2>8, <2>11, <2>12, <2>13, <2>15, <3>3
  <2> QED BY <2>14, <2>15
<1>8. Right(n)
  <2>1. n \in 0 .. n
    BY <1>1
  <2> QED BY <1>7, <2>1
<1>9. Done(n) = DataIn(r, Cells(r))
  <2>1. {w[i] : i \in 1 .. n} = Cells(r)
    BY <1>1, <1>2
  <2> QED BY <2>1 DEF DataIn
<1>10. kept = Held(r, g[1 .. n])
  <2>1. g[1 .. n] \in FilterStates(r) /\ t = g[1 .. n]
    BY <1>3, <1>13, Zenon
  <2>2. SumOf(t, {c \in Cells(r) : t[c] # Null}) = Held(r, t)
    BY <2>1, HeldIs, Zenon
  <2> QED BY <1>13, <2>1, <2>2, Zenon
<1>11. total = SumOf(r.data, Done(n))
  BY <1>9, <1>13, Zenon
<1>12. \/ kept = total
       \/ mode = "Exponential" /\ (loss \/ kept >= total)
  <2> HIDE DEF Done, loss
  <2> QED BY <1>8, <1>10, <1>11, Zenon
<1>14. \/ kept = total
       \/ mode = "Exponential" /\ ((\A c \in Cells(r) : r.data[c] >= 0) => kept >= total)
  BY <1>12
<1>15. Conserves(r, mode, t)
  <2>1. total = TotalOf(r) /\ kept = KeptBy(t, r)
    BY <1>13, Zenon DEF KeptBy, TotalOf
  <2> HIDE DEF total, kept, t
  <2> QED BY <1>14, <2>1, Zenon DEF Conserves
<1> QED BY <1>13, <1>15, Zenon

\* In units of a 60th nothing is lost to a normalised filter.
LEMMA FilterConservesIs ==
    ASSUME NEW r, ImageOK(r)
    PROVE  FilterConserves(r)
<1> SUFFICES ASSUME NEW mode \in FilterModes, NEW radius \in {0, 1}
             PROVE  LET s == [r EXCEPT !.data = [c \in DOMAIN @ |-> 60 * @[c]]]
                        t == filter(s, mode, radius, TRUE)
                        total == SumOf(s.data, DataIn(s, Cells(s)))
                        kept == SumOf(t, {c \in Cells(r) : t[c] # Null})
                    IN  IF mode = "Exponential" /\ (\A c \in Cells(r) : r.data[c] >= 0)
                        THEN kept >= total ELSE mode = "Exponential" \/ kept = total
  BY DEF FilterConserves
<1> DEFINE s == [r EXCEPT !.data = [c \in DOMAIN @ |-> 60 * @[c]]]
           t == filter(s, mode, radius, TRUE)
           total == SumOf(s.data, DataIn(s, Cells(s)))
           kept == SumOf(t, {c \in Cells(s) : t[c] # Null})
<1>1. /\ s.rows = r.rows /\ s.cols = r.cols /\ s.missing = r.missing
      /\ s.data = [c \in Cells(r) |-> 60 * r.data[c]]
  BY DEF ImageOK
<1> HIDE DEF s
<1>2. Cells(s) = Cells(r)
  BY <1>1 DEF Cells
<1>3. \A c \in Cells(r) : /\ r.data[c] \in Int /\ s.data[c] = 60 * r.data[c]
  BY <1>1 DEF ImageOK
<1>4. \A c \in Cells(r) : s.data[c] \in Int /\ (r.data[c] >= 0 => s.data[c] >= 0)
  <2> SUFFICES ASSUME NEW c \in Cells(r)
               PROVE  s.data[c] \in Int /\ (r.data[c] >= 0 => s.data[c] >= 0)
    OBVIOUS
  <2> DEFINE a == r.data[c]
             b == s.data[c]
  <2>1. a \in Int /\ b = 60 * a
    BY <1>3
  <2> HIDE DEF a, b
  <2>2. b \in Int /\ (a >= 0 => b >= 0)
    BY <2>1
  <2> QED BY <2>2 DEF a, b
<1>5. ImageOK(s)
  <2>1. s.data \in [Cells(r) -> Int]
    BY <1>1, <1>4
  <2> QED BY <1>1, <1>2, <2>1 DEF ImageOK
<1>6. Shareable(s)
  BY <1>2, <1>3 DEF Shareable
<1>11. /\ t = filter(s, mode, radius, TRUE)
       /\ total = SumOf(s.data, DataIn(s, Cells(s)))
       /\ kept = SumOf(t, {c \in Cells(s) : t[c] # Null})
  OBVIOUS
<1> HIDE DEF t, total, kept
<1>7. \/ kept = total
      \/ mode = "Exponential" /\ ((\A c \in Cells(s) : s.data[c] >= 0) => kept >= total)
  <2>1. Conserves(s, mode, filter(s, mode, radius, TRUE))
    BY <1>5, <1>6, Conserved, Zenon
  <2> QED BY <1>11, <2>1, Zenon DEF Conserves, KeptBy, TotalOf
<1>8. total \in Int
  <2>1. DataIn(s, Cells(s)) \in SUBSET Cells(s)
    BY DEF DataIn
  <2>2. IsFiniteSet(DataIn(s, Cells(s))) /\ \A c \in DataIn(s, Cells(s)) : s.data[c] \in Int
    BY <1>2, <1>4, <1>5, <2>1, ImageFinite
  <2> QED BY <2>2, SumOfLaws DEF total
<1>9. IF mode = "Exponential" /\ (\A c \in Cells(r) : r.data[c] >= 0)
      THEN kept >= total ELSE mode = "Exponential" \/ kept = total
  <2>1. kept = total => kept >= total
    BY <1>8
  <2>2. (\A c \in Cells(r) : r.data[c] >= 0) => \A c \in Cells(s) : s.data[c] >= 0
    BY <1>2, <1>4
  <2> QED BY <1>7, <2>1, <2>2
<1>10. kept = SumOf(t, {c \in Cells(r) : t[c] # Null})
  BY <1>2 DEF kept
<1> QED BY <1>9, <1>10 DEF s, t, total

\* Every raster that a call is made with is one of integers.
LEMMA InputsAre ==
    ASSUME request \in Calls, request.op = "cells_circular"
    PROVE  request.radius \in Nat /\ \A r \in Inputs : ImageOK(r)
<1>1. request.center \in Cell /\ request.radius \in Nat /\ request.missing \in SUBSET Cell
  BY CallsAssumption DEF CallType, AroundCell, Rectangles
<1>2. Rows \in Nat \ {0} /\ Cols \in Nat \ {0} /\ Rows * Cols \in Nat \ {0}
  BY GridAssumption
<1>3. ASSUME NEW r \in Inputs PROVE ImageOK(r)
  <2> DEFINE line == (0 .. Rows * Cols - 1) \X {0}
             Data(image) == [image EXCEPT ![request.center] = Peak]
             Whole(image) == [rows |-> Rows, cols |-> Cols, data |-> Data(image), missing |-> request.missing]
             Column(image) == [rows |-> Rows * Cols, cols |-> 1,
                               data |-> [c \in line |-> Data(image)[CellAt(c[1])]],
                               missing |-> {c \in line : CellAt(c[1]) \in request.missing}]
  <2>1. PICK image \in Images : r = Whole(image) \/ r = Column(image)
    BY DEF Inputs
  <2>2. image \in [Cell -> Int]
    BY ImagesAssumption
  <2>3. Data(image) \in [Cell -> Int]
    <3>1. \A f \in [Cell -> Int], c \in Cell, v \in Int : [f EXCEPT ![c] = v] \in [Cell -> Int]
      OBVIOUS
    <3>2. Peak \in Int
      BY DEF Peak
    <3> QED BY <1>1, <2>2, <3>1, <3>2
  <2>4. \A c \in line : CellAt(c[1]) \in Cell
    <3> SUFFICES ASSUME NEW k \in 0 .. Rows * Cols - 1 PROVE CellAt(k) \in Cell
      OBVIOUS
    <3>1. k + 1 \in 1 .. Rows * Cols /\ (k + 1) - 1 = k
      BY <1>2
    <3>2. ((k + 1) - 1) \div Cols \in 0 .. Rows - 1 /\ ((k + 1) - 1) % Cols \in 0 .. Cols - 1
      BY <1>2, <3>1, RowAndColumn, Zenon
    <3>3. k \div Cols \in 0 .. Rows - 1 /\ k % Cols \in 0 .. Cols - 1
      BY <3>1, <3>2, Zenon
    <3> QED BY <3>3 DEF CellAt, Cell
  <2> HIDE DEF Data
  <2>5. CASE r = Whole(image)
    <3>1. Cells(r) = Cell
      BY <2>5 DEF Cells, Cell
    <3> QED BY <1>1, <1>2, <2>3, <2>5, <3>1 DEF ImageOK
  <2>6. CASE r = Column(image)
    <3>1. Cells(r) = line
      BY <2>6 DEF Cells
    <3>2. [c \in line |-> Data(image)[CellAt(c[1])]] \in [line -> Int]
      BY <2>3, <2>4
    <3>3. r.rows \in Nat \ {0} /\ r.cols \in Nat \ {0}
      BY <1>2, <2>6
    <3>4. r.missing \in SUBSET line
      BY <2>6
    <3>5. r.data = [c \in line |-> Data(image)[CellAt(c[1])]]
      BY <2>6
    <3> HIDE DEF line
    <3> QED BY <3>1, <3>2, <3>3, <3>4, <3>5, Zenon DEF ImageOK
  <2> QED BY <2>1, <2>5, <2>6
<1> QED BY <1>1, <1>3

\* A sum in a buffer, a majority, a sum over the zones around, a Voronoi diagram
\* and a normalised filter are what their names say.
THEOREM FiltersAreExact == AreaSpec => []FiltersExact
<1>1. IInv => FiltersExact
  <2> SUFFICES ASSUME IInv, Asked, NEW r \in Inputs
               PROVE  /\ SumsExact(r, request.radius)
                      /\ request.radius = 1 => FilterConserves(r)
                      /\ \A radius2 \in {Squared(request.radius), Squared(request.radius) + 1} :
                            MajoritiesExact(r, radius2) /\ CategorySumsExact(r, radius2)
                      /\ r.missing # {} => VoronoiExact(r, MissingCells(r))
    BY DEF FiltersExact
  <2>1. request.radius \in Nat /\ ImageOK(r)
    BY InputsAre DEF IInv, Asked
  <2>2. SumsExact(r, request.radius)
    BY <2>1, SumsAre
  <2>3. FilterConserves(r)
    BY <2>1, FilterConservesIs
  <2>4. \A radius2 : MajoritiesExact(r, radius2) /\ CategorySumsExact(r, radius2)
    BY <2>1, MajoritiesAre, CategorySumsAre
  <2>5. r.missing # {} => VoronoiExact(r, MissingCells(r))
    BY <2>1, MissingCellsAre, VoronoiIs
  <2> QED BY <2>2, <2>3, <2>4, <2>5
<1> QED BY <1>1, InitInv, NextInv, PTL DEF AreaSpec
=============================================================================
