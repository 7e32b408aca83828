----------------------------- MODULE LddValidate -----------------------------
(***************************************************************************)
(* validate_ldd (accuflux.h): the rows of the map are shared out among the *)
(* threads of an OpenMP loop; each thread follows the flow from every cell *)
(* nothing flows into and reports what is wrong with it.  The threads share *)
(* the verdict, written without a lock, and the set of loops reported so   *)
(* far, used under a mutex that is held while the callback runs.  Called   *)
(* from Python, a callback runs under the interpreter lock, which the      *)
(* calling thread holds all the time.                                      *)
(***************************************************************************)
EXTENDS Ldd, Bags, FiniteSetsExt

CONSTANTS Threads,
          Main,         \* the thread that calls validate_ldd and takes part
          Nobody,
          Python,       \* whether the callbacks are Python functions
          Ldds          \* the maps considered

ASSUME ValidateAssumption ==
  /\ Main \in Threads /\ Nobody \notin Threads
  /\ Python \in BOOLEAN
  /\ Ldds \subseteq LddMap

Kinds == {"loop", "invalidValue", "endsInNodata", "outsideOfMap"}

\* The cell next to the map a flow out of it goes to may be reported too.
Around == (-1 .. Rows) \X (-1 .. Cols)

VARIABLES ldd,
          callbacks,      \* whether there are callbacks
          rowsOf,         \* the schedule: the rows each thread works on
          valid, loops,   \* shared by the threads
          mutex, gil,     \* who holds the mutex and the interpreter lock
          reports,        \* the bag of callbacks made: <<kind, cell>>
          pc,             \* what each thread is at
          cursor,         \* (r, c) of each thread
          curCell, traversedCells,
          fault           \* the report each thread is about to make

input == <<ldd, callbacks, rowsOf>>
locals == <<pc, cursor, curCell, traversedCells, fault>>
vars == <<input, valid, loops, mutex, gil, reports, locals>>

(* The next cell of a thread after or at a cursor. *)
Mine(t, c) ==
  IF PastEnd(c) \/ c[1] \in rowsOf[t] THEN c
  ELSE <<Min({Rows} \cup {r \in rowsOf[t] : r > c[1]}), 0>>

Init ==
  /\ ldd \in Ldds
  /\ callbacks \in BOOLEAN
  /\ \E share \in [0 .. Rows - 1 -> Threads] :
       rowsOf = [t \in Threads |-> {r \in 0 .. Rows - 1 : share[r] = t}]
  /\ valid = TRUE /\ loops = {}
  /\ mutex = Nobody
  /\ gil = IF Python THEN Main ELSE Nobody
  /\ reports = EmptyBag
  /\ pc = [t \in Threads |-> "scan"]
  /\ cursor = [t \in Threads |-> Mine(t, FirstCell)]
  /\ curCell = [t \in Threads |-> FirstCell]
  /\ traversedCells = [t \in Threads |-> {}]
  /\ fault = [t \in Threads |-> <<"loop", FirstCell>>]

Become(t, label) == pc' = [pc EXCEPT ![t] = label]

NextIteration(t) ==
  /\ Become(t, "scan")
  /\ cursor' = [cursor EXCEPT ![t] = Mine(t, NextCell(@))]

(* A neighbour whose byte is above 9 makes getDestinationCell read past    *)
(* the end of lookupOffsets: it may or may not seem to flow into the cell. *)
MaySeemIncoming(c) ==
  \E n \in Cell : (Straight(c, n) \/ Diagonal(c, n)) /\ ~InTable(ldd.dir[n])

SkipCell(t) ==
  /\ pc[t] = "scan" /\ ~PastEnd(cursor[t])
  /\ \/ is_nodata(ldd, cursor[t])
     \/ has_upstream_cells(ldd, cursor[t])
     \/ MaySeemIncoming(cursor[t])
  /\ NextIteration(t)
  /\ UNCHANGED <<input, valid, loops, mutex, gil, reports, curCell, traversedCells, fault>>

\* Mutant: flows are followed from the middle too.
EnterFlowAnywhere(t) ==
  /\ pc[t] = "scan" /\ ~PastEnd(cursor[t])
  /\ ~is_nodata(ldd, cursor[t])
  /\ curCell' = [curCell EXCEPT ![t] = cursor[t]]
  /\ traversedCells' = [traversedCells EXCEPT ![t] = {}]
  /\ Become(t, "flow")
  /\ UNCHANGED <<input, valid, loops, mutex, gil, reports, cursor, fault>>

EnterFlow(t) ==
  /\ pc[t] = "scan" /\ ~PastEnd(cursor[t])
  /\ ~is_nodata(ldd, cursor[t]) /\ ~has_upstream_cells(ldd, cursor[t])
  /\ curCell' = [curCell EXCEPT ![t] = cursor[t]]
  /\ traversedCells' = [traversedCells EXCEPT ![t] = {}]
  /\ Become(t, "flow")
  /\ UNCHANGED <<input, valid, loops, mutex, gil, reports, cursor, fault>>

(* What is wrong where a flow stands that came through the cells in seen:  *)
(* a set of at most one report.                                            *)
FaultAt(map, c, seen) ==
  IF map.dir[c] = Pit THEN {}
  ELSE IF ~InTable(map.dir[c]) THEN {<<"invalidValue", c>>}
  ELSE LET dest == getNeighbour(map.dir[c], c)
       IN  IF dest \notin Cell THEN {<<"outsideOfMap", dest>>}
           ELSE IF is_nodata(map, dest) THEN {<<"endsInNodata", c>>}
           ELSE IF dest \in seen \cup {c} THEN {<<"loop", dest>>}
           ELSE {}

FollowFlow(t) ==
  /\ pc[t] = "flow"
  /\ FaultAt(ldd, curCell[t], traversedCells[t]) = {}
  /\ IF ldd.dir[curCell[t]] = Pit
       THEN NextIteration(t) /\ UNCHANGED <<curCell, traversedCells>>
       ELSE /\ traversedCells' = [traversedCells EXCEPT ![t] = @ \cup {curCell[t]}]
            /\ curCell' = [curCell EXCEPT ![t] = getNeighbour(ldd.dir[@], @)]
            /\ UNCHANGED <<pc, cursor>>
  /\ UNCHANGED <<input, valid, loops, mutex, gil, reports, fault>>

\* Mutants: a valid = false that is forgotten, for one kind of fault or when
\* nobody is told.
InvalidateMostKinds(kind) == valid' = (valid /\ kind = "endsInNodata")
InvalidateIfReported(kind) == valid' = (valid /\ ~callbacks)

Invalidate(kind) == valid' = FALSE

(* The callback of traverseInvalidLdd up to the test for a user's one.     *)
FindFault(t) ==
  /\ pc[t] = "flow"
  /\ \E f \in FaultAt(ldd, curCell[t], traversedCells[t]) :
       /\ fault' = [fault EXCEPT ![t] = f]
       /\ Invalidate(f[1])
       /\ IF ~callbacks THEN NextIteration(t)
          ELSE /\ Become(t, IF f[1] = "loop" THEN "lock" ELSE "call")
               /\ UNCHANGED cursor
  /\ UNCHANGED <<input, loops, mutex, gil, reports, curCell, traversedCells>>

\* Mutant: whether the insertion was new is not looked at.
LockAlways(t) ==
  /\ pc[t] = "lock" /\ mutex = Nobody
  /\ loops' = loops \cup {fault[t][2]}
  /\ mutex' = t
  /\ Become(t, "call")
  /\ UNCHANGED <<input, valid, cursor, gil, reports, curCell, traversedCells, fault>>

(* The scoped_lock, released at once when the loop is known already.       *)
Lock(t) ==
  /\ pc[t] = "lock" /\ mutex = Nobody
  /\ IF fault[t][2] \in loops
       THEN NextIteration(t) /\ UNCHANGED <<loops, mutex>>
       ELSE /\ loops' = loops \cup {fault[t][2]}
            /\ mutex' = t
            /\ Become(t, "call")
            /\ UNCHANGED cursor
  /\ UNCHANGED <<input, valid, gil, reports, curCell, traversedCells, fault>>

(* The user's callback begins, when it can have the interpreter.           *)
Call(t) ==
  /\ pc[t] = "call"
  /\ Python => gil \in {Nobody, t}
  /\ gil' = IF Python THEN t ELSE gil
  /\ reports' = reports (+) SetToBag({fault[t]})
  /\ Become(t, "callback")
  /\ UNCHANGED <<input, valid, loops, mutex, cursor, curCell, traversedCells, fault>>

\* Mutant: the mutex is not released.
EndCallLocked(t) ==
  /\ pc[t] = "callback"
  /\ gil' = IF gil = t /\ t # Main THEN Nobody ELSE gil
  /\ NextIteration(t)
  /\ UNCHANGED <<input, valid, loops, mutex, reports, curCell, traversedCells, fault>>

EndCall(t) ==
  /\ pc[t] = "callback"
  /\ gil' = IF gil = t /\ t # Main THEN Nobody ELSE gil
  /\ mutex' = IF mutex = t THEN Nobody ELSE mutex
  /\ NextIteration(t)
  /\ UNCHANGED <<input, valid, loops, reports, curCell, traversedCells, fault>>

AtBarrier(t) == pc[t] = "scan" /\ PastEnd(cursor[t])

(* The end of the parallel loop waits for all threads. *)
Return ==
  /\ \A t \in Threads : AtBarrier(t)
  /\ pc' = [t \in Threads |-> "returned"]
  /\ UNCHANGED <<input, valid, loops, mutex, gil, reports, cursor, curCell,
                 traversedCells, fault>>

Thread(t) ==
  \/ SkipCell(t) \/ EnterFlow(t) \/ FollowFlow(t) \/ FindFault(t)
  \/ Lock(t) \/ Call(t) \/ EndCall(t)

Next == Return \/ \E t \in Threads : Thread(t)

(* The scheduler runs every thread, and a callback returns.                *)
Spec == /\ Init /\ [][Next]_vars
        /\ WF_vars(Return) /\ \A t \in Threads : WF_vars(Thread(t))

-----------------------------------------------------------------------------
(* Properties                                                              *)

Labels == {"scan", "flow", "lock", "call", "callback", "returned"}

(* The types of the variables.                                            *)
TypeOK ==
  /\ ldd \in LddMap /\ callbacks \in BOOLEAN
  /\ rowsOf \in [Threads -> SUBSET (0 .. Rows - 1)]
  /\ valid \in BOOLEAN /\ loops \subseteq Cell
  /\ mutex \in Threads \cup {Nobody} /\ gil \in Threads \cup {Nobody}
  /\ IsABag(reports) /\ BagToSet(reports) \subseteq Kinds \X Around
  /\ pc \in [Threads -> Labels]
  /\ cursor \in [Threads -> (0 .. Rows) \X (0 .. Cols - 1)]
  /\ curCell \in [Threads -> Cell]
  /\ traversedCells \in [Threads -> SUBSET Cell]
  /\ fault \in [Threads -> Kinds \X Around]

Returned == pc[Main] = "returned"

(* The bytes the code may read past the table for. *)
Defined == \A c \in Cell : InTable(ldd.dir[c])

Sources == {c \in DataCells(ldd) : ~has_upstream_cells(ldd, c)}

(* The cells water from the cell passes in its first n steps.              *)
Passed(map, cell, n) == UNION {Course(map, cell)[m] : m \in 0 .. n - 1}

(* All reports a flow from the cell gives rise to.                         *)
FaultOf(map, cell) ==
  LET at == Course(map, cell)
      step == {n \in 0 .. Rows * Cols :
                 \E c \in at[n] : FaultAt(map, c, Passed(map, cell, n)) # {}}
  IN  IF step = {} THEN {}
      ELSE UNION {FaultAt(map, c, Passed(map, cell, Min(step))) : c \in at[Min(step)]}

(* The verdict is what the map says and not how the threads were           *)
(* scheduled: no write to the unlocked flag is lost, no row left out.      *)
VerdictExact ==
  Returned /\ Defined => (valid <=> \A c \in Sources : Drains(ldd, c))

(* The callbacks are made for exactly the faults at the ends of the flows. *)
ReportsComplete ==
  Returned /\ Defined =>
    BagToSet(reports) = IF callbacks THEN UNION {FaultOf(ldd, c) : c \in Sources} ELSE {}

(* No loop cell is reported twice, although two flows that run into one    *)
(* loop may be followed by two threads at once, and the callback for loops *)
(* never runs in two threads.                                              *)
LoopReportedOnce ==
  /\ \A c \in Cell : BagIn(<<"loop", c>>, reports) => reports[<<"loop", c>>] = 1
  /\ \A t, u \in Threads :
       t # u => ~(/\ pc[t] = "callback" /\ fault[t][1] = "loop"
                  /\ pc[u] = "callback" /\ fault[u][1] = "loop")

(* What validate_ldd accepts is a map where every flow ends in a pit or    *)
(* keeps running round in a loop that nothing flows into.  (When the byte  *)
(* for nodata is a direction too, a nodata cell seems to flow on, and the  *)
(* cell it points at is not looked at as a source.)                        *)
OnlyClosedLoopsPass ==
  Returned /\ valid /\ Defined /\ ldd.nodata \notin 1 .. 9 \ {Pit} =>
    \A c \in DataCells(ldd) :
      Drains(ldd, c) \/ \E n \in 1 .. Rows * Cols : c \in Course(ldd, c)[n]

(* The verdict is exact and accepts nothing but closed loops.              *)
VerdictsExact == VerdictExact /\ OnlyClosedLoopsPass

(* Every fault is reported, and a loop to one callback at a time.           *)
ReportsExact == ReportsComplete /\ LoopReportedOnce

(* Every call returns: no thread waits for ever for a lock or a barrier.   *)
Termination == <>Returned
=============================================================================
