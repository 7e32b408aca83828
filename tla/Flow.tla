--------------------------------- MODULE Flow ---------------------------------
(***************************************************************************)
(* The functions of accuflux.h that follow the drains downstream with      *)
(* traverse_ldd: accuflux, accufractionflux, flux_origin, ldd_cluster,     *)
(* ldd_dist and max_upstream_dist.  They visit the cells in row-major      *)
(* order, start a traversal at the cells that call for one and differ in   *)
(* what the callback does on the way.                                      *)
(*                                                                         *)
(* Numbers are integers.  A raster of float uses NaN as nodata, so nodata  *)
(* is contagious in sums and products.                                     *)
(***************************************************************************)
EXTENDS Ldd, SequencesExt

CONSTANTS NoData,
          StraightStep, DiagStep,  \* the cell size and sqrt(2) times it
          Calls                    \* the calls considered

Operations == {"accuflux", "accufractionflux", "flux_origin", "ldd_cluster",
               "ldd_dist", "max_upstream_dist"}

Number == Int \cup {NoData}

\* factor is the fraction or friction map, station the ids or points
CallType == [op : Operations, storage : {"dense", "masked"}, ldd : LddMap,
             freight : [Cell -> Number], factor : [Cell -> Number],
             station : [Cell -> Number]]

ASSUME FlowAssumption ==
  /\ NoData \notin Int
  /\ StraightStep \in Nat \ {0} /\ DiagStep \in Nat /\ StraightStep < DiagStep
  /\ Calls \subseteq CallType

VARIABLES call,
          pc,         \* "scan", "flow", "returned" or "thrown"
          cursor,     \* (r, c) of the loops, where a traversal starts
          curCell, traversedCells,
          halted,     \* the callback returned false
          load,       \* freight, friction or totalDistance of the callback
          stoppedInTruePoint,
          result

walk == <<curCell, traversedCells, halted, load, stoppedInTruePoint>>
vars == <<call, pc, cursor, walk, result>>

Plus(a, b) == IF NoData \in {a, b} THEN NoData ELSE a + b
Times(a, b) == IF NoData \in {a, b} THEN NoData ELSE a * b

Step(from, to) == IF Straight(from, to) THEN StraightStep ELSE DiagStep

dir == call.ldd.dir[curCell]

Init ==
  /\ call \in Calls
  /\ pc = "scan"
  /\ cursor = FirstCell
  /\ curCell = FirstCell /\ traversedCells = {} /\ halted = FALSE
  /\ load = 0 /\ stoppedInTruePoint = FALSE
  /\ result = [c \in Cell |->
       CASE call.op = "accuflux" -> call.freight[c]
         [] call.op = "accufractionflux" -> Times(call.freight[c], call.factor[c])
         [] call.op = "ldd_cluster" -> call.station[c]
         [] OTHER -> 0]

-----------------------------------------------------------------------------
(* The loops                                                               *)

(* nodata in station is not zero: what is stored for it is taken not to be. *)
AtStation(c) ==
  call.op \in {"flux_origin", "ldd_cluster", "ldd_dist"} /\ call.station[c] # 0

Skips(c) ==
  \/ is_nodata(call.ldd, c)
  \/ AtStation(c)
  \/ call.op = "ldd_dist" /\ call.factor[c] = NoData
  \/ call.op = "max_upstream_dist" /\ has_upstream_cells(call.ldd, c)

SkippedValue(c) ==
  IF call.op = "ldd_cluster" /\ AtStation(c) THEN result[c]
  ELSE IF is_nodata(call.ldd, c) THEN NoData
  ELSE CASE call.op = "flux_origin" -> Times(call.freight[c], call.factor[c])
         [] call.op = "ldd_dist" /\ NoData \in {call.station[c],
              IF AtStation(c) THEN 0 ELSE call.factor[c]} -> NoData
         [] OTHER -> result[c]

SkipCell ==
  /\ pc = "scan" /\ ~PastEnd(cursor) /\ Skips(cursor)
  /\ result' = [result EXCEPT ![cursor] = SkippedValue(cursor)]
  /\ cursor' = NextCell(cursor)
  /\ UNCHANGED <<call, pc, walk>>

EnterFlow ==
  /\ pc = "scan" /\ ~PastEnd(cursor) /\ ~Skips(cursor)
  /\ pc' = "flow"
  /\ curCell' = cursor /\ traversedCells' = {} /\ halted' = FALSE
  /\ load' = CASE call.op = "accuflux" -> call.freight[cursor]
               [] call.op \in {"accufractionflux", "flux_origin"} ->
                    Times(call.freight[cursor], call.factor[cursor])
               [] OTHER -> 0
  /\ stoppedInTruePoint' = FALSE
  /\ UNCHANGED <<call, cursor, result>>

(* traverse_ldd has come to a pit or was told to stop. *)
LeaveFlow ==
  /\ pc = "flow" /\ (halted \/ dir = Pit)
  /\ pc' = "scan"
  /\ cursor' = NextCell(cursor)
  /\ result' = IF call.op = "ldd_dist"
                 THEN [result EXCEPT ![cursor] =
                         IF stoppedInTruePoint THEN load ELSE NoData]
                 ELSE result
  /\ UNCHANGED <<call, walk>>

Return ==
  /\ pc = "scan" /\ PastEnd(cursor)
  /\ pc' = "returned"
  /\ UNCHANGED <<call, cursor, walk, result>>

-----------------------------------------------------------------------------
(* The callbacks, one for each function                                    *)

\* Mutant: the freight of the cell passed instead of that of the start.
accufluxOfPassed(to) ==
  /\ call.op = "accuflux"
  /\ result' = [result EXCEPT ![to] = Plus(@, call.freight[curCell])]
  /\ UNCHANGED <<load, halted, stoppedInTruePoint>>

accuflux(to) ==
  /\ call.op = "accuflux"
  /\ result' = [result EXCEPT ![to] = Plus(@, load)]
  /\ UNCHANGED <<load, halted, stoppedInTruePoint>>

accufractionflux(to) ==
  /\ call.op = "accufractionflux"
  /\ load' = Times(load, call.factor[to])
  /\ result' = [result EXCEPT ![to] = Plus(@, load')]
  /\ UNCHANGED <<halted, stoppedInTruePoint>>

(* Only the id 1 stops the flow. *)
flux_origin(to) ==
  /\ call.op = "flux_origin"
  /\ halted' = (call.station[to] = 1)
  /\ result' = IF halted' THEN [result EXCEPT ![cursor] = load] ELSE result
  /\ load' = IF halted' THEN load ELSE Times(load, call.factor[to])
  /\ UNCHANGED stoppedInTruePoint

\* Mutant: goes on to the last station downstream.
ldd_clusterLast(to) ==
  /\ call.op = "ldd_cluster"
  /\ result' = IF call.station[to] # 0
                 THEN [result EXCEPT ![cursor] = call.station[to]] ELSE result
  /\ UNCHANGED <<load, halted, stoppedInTruePoint>>

ldd_cluster(to) ==
  /\ call.op = "ldd_cluster"
  /\ halted' = (call.station[to] # 0)
  /\ result' = IF halted' THEN [result EXCEPT ![cursor] = call.station[to]] ELSE result
  /\ UNCHANGED <<load, stoppedInTruePoint>>

\* Mutant: stops before the last leg is added.
ldd_distShort(to) ==
  /\ call.op = "ldd_dist"
  /\ halted' = (call.station[to] # 0)
  /\ stoppedInTruePoint' = (call.station[to] \notin {0, NoData})
  /\ load' = IF halted' THEN load
              ELSE Plus(load, Times(Step(curCell, to),
                                    Plus(call.factor[curCell], call.factor[to])))
  /\ UNCHANGED result

(* Twice the friction, to stay within the integers. *)
ldd_dist(to) ==
  /\ call.op = "ldd_dist"
  /\ LET known == call.station[to] # NoData
         friction == Plus(call.factor[curCell], call.factor[to])
     IN  /\ load' = IF known THEN Plus(load, Times(Step(curCell, to), friction)) ELSE load
         /\ stoppedInTruePoint' = (known /\ call.station[to] # 0)
  /\ halted' = (call.station[to] # 0)
  /\ UNCHANGED result

\* Mutant: stops at any cell visited before.
FurtherIfNew(to) == result[to] \in {0, NoData}

(* Nothing is further than NaN; under a mask lies 0. *)
Further(to) ==
  IF result[to] = NoData THEN call.storage = "masked" ELSE result[to] < load'

max_upstream_dist(to) ==
  /\ call.op = "max_upstream_dist"
  /\ load' = load + Step(curCell, to)
  /\ halted' = ~Further(to)
  /\ result' = IF Further(to) /\ result[to] # NoData
                 THEN [result EXCEPT ![to] = load'] ELSE result
  /\ UNCHANGED stoppedInTruePoint

visitCb(to) ==
  \/ accuflux(to) \/ accufractionflux(to) \/ flux_origin(to)
  \/ ldd_cluster(to) \/ ldd_dist(to) \/ max_upstream_dist(to)

\* Mutant: loops are not noticed where nothing is added up.
UnsoundAfterIfNoData(to) ==
  is_nodata(call.ldd, to) \/ (call.op # "ldd_cluster" /\ to \in traversedCells')

UnsoundAfter(to) == is_nodata(call.ldd, to) \/ to \in traversedCells'

(* One iteration of the loop of traverse_ldd; the callback comes before    *)
(* the tests for nodata and for a loop.                                    *)
FollowFlow ==
  /\ pc = "flow" /\ ~halted /\ dir # Pit /\ InTable(dir)
  /\ LET destCell == getNeighbour(dir, curCell)
     IN  /\ destCell \in Cell
         /\ visitCb(destCell)
         /\ traversedCells' = traversedCells \cup {curCell}
         /\ curCell' = destCell
         /\ pc' = IF ~halted' /\ UnsoundAfter(destCell) THEN "thrown" ELSE "flow"
  /\ UNCHANGED <<call, cursor>>

\* Mutant: a traversal that cannot go on ends quietly.
ThrowNothing ==
  /\ pc = "flow" /\ ~halted /\ dir # Pit
  /\ InTable(dir) => getNeighbour(dir, curCell) \notin Cell
  /\ pc' = "scan" /\ cursor' = NextCell(cursor)
  /\ UNCHANGED <<call, walk, result>>

(* ldd value outside [0..9], or flow out of the map. *)
Throw ==
  /\ pc = "flow" /\ ~halted /\ dir # Pit
  /\ InTable(dir) => getNeighbour(dir, curCell) \notin Cell
  /\ pc' = "thrown"
  /\ UNCHANGED <<call, cursor, walk, result>>

Next == SkipCell \/ EnterFlow \/ FollowFlow \/ Throw \/ LeaveFlow \/ Return

(* One thread runs the function to its end. *)
Spec == Init /\ [][Next]_vars /\ WF_vars(Next)

-----------------------------------------------------------------------------
(* Properties                                                              *)

(* The types of the variables.                                            *)
TypeOK ==
  /\ call \in CallType
  /\ pc \in {"scan", "flow", "returned", "thrown"}
  /\ cursor \in (0 .. Rows) \X (0 .. Cols - 1)
  /\ pc = "flow" => cursor \in Cell
  /\ curCell \in Cell
  /\ traversedCells \subseteq Cell
  /\ halted \in BOOLEAN /\ stoppedInTruePoint \in BOOLEAN
  /\ load \in Number
  /\ result \in [Cell -> Number]

Data == DataCells(call.ldd)

(* All ways the traversals started in the set starts can take, as         *)
(* sequences of two cells or more; ways[n] are those of n steps.           *)
WaysFrom(starts) ==
  LET Toward(c) == IF call.ldd.dir[c] = Pit THEN {}
                   ELSE {to \in Cell : FlowsInto(call.ldd, c, to)}
      ways[n \in 0 .. Rows * Cols - 1] ==
        IF n = 0 THEN {<<c>> : c \in starts}
        ELSE UNION {{Append(w, to) : to \in Toward(Last(w))} : w \in ways[n - 1]}
  IN  UNION {ways[n] : n \in 1 .. Rows * Cols - 1}

(* The paths among ways that end in the cell.                              *)
EndingIn(ways, cell) == {w \in ways : Last(w) = cell}

(* The sum of a function, with nodata contagious.                          *)
Total(f) == IF NoData \in Range(f) THEN NoData ELSE SumFunction(f)

(* A function throws only on a map that is unsound, and accuflux and       *)
(* accufractionflux, which follow every flow to its end, throw on every    *)
(* one: no loop, nodata, edge or bad value goes unnoticed, whatever the    *)
(* position of the faulty cell in the scan.                                *)
ThrowsOnUnsound ==
  /\ pc = "thrown" => \E c \in Data : ~Drains(call.ldd, c)
  /\ pc = "returned" /\ call.op \in {"accuflux", "accufractionflux"} =>
       \A c \in Data : Drains(call.ldd, c)

(* What of a freight is left at the end of a way: with accufractionflux    *)
(* every cell on it, the first and last included, keeps its fraction.      *)
Remaining(w) ==
  IF call.op = "accuflux" THEN call.freight[w[1]]
  ELSE FoldLeft(LAMBDA left, c : Times(left, call.factor[c]), call.freight[w[1]], w)

(* accuflux and accufractionflux return in each cell what remains there of *)
(* its own freight and that of all cells upstream, each counted once,      *)
(* whatever the order in which the scan meets them.                        *)
FluxExact ==
  pc = "returned" /\ call.op \in {"accuflux", "accufractionflux"} =>
    LET ways == WaysFrom(Data)
        Inflow(c) == Total([w \in EndingIn(ways, c) |-> Remaining(w)])
    IN  \A c \in Cell :
          result[c] = IF c \in Data THEN Plus(Remaining(<<c>>), Inflow(c)) ELSE NoData

(* The ways from the cell to the first cell downstream for which stop      *)
(* holds; there is at most one.                                            *)
FirstDownstream(stop(_), cell) ==
  {w \in WaysFrom({cell}) :
     stop(Last(w)) /\ \A i \in 2 .. Len(w) - 1 : ~stop(w[i])}

(* A cell belongs to the nearest station downstream, however many follow:  *)
(* ldd_cluster gives it that id, and flux_origin what is left of its       *)
(* freight before it enters the station, 0 if there is none.               *)
StationsExact ==
  pc = "returned" =>
    \A c \in Data :
      /\ call.op = "ldd_cluster" =>
           LET ways == FirstDownstream(AtStation, c)
           IN  IF AtStation(c) \/ ways = {} THEN result[c] = call.station[c]
               ELSE \A w \in ways : result[c] = call.station[Last(w)]
      /\ call.op = "flux_origin" =>
           LET One(d) == call.station[d] = 1
               ways == FirstDownstream(One, c)
           IN  IF AtStation(c) THEN result[c] = Remaining(<<c>>)
               ELSE IF ways = {} THEN result[c] = 0
               ELSE \A w \in ways : result[c] = Remaining(Front(w))

(* ldd_dist: each cell has its friction distance to the next point         *)
(* downstream, nodata if it meets none or an unknown friction first.       *)
LddDistExact ==
  pc = "returned" /\ call.op = "ldd_dist" =>
    \A c \in Data : call.station[c] = 0 =>
      LET ways == FirstDownstream(AtStation, c)
          Leg(w, i) == Times(Step(w[i], w[i + 1]),
                             Plus(call.factor[w[i]], call.factor[w[i + 1]]))
          Length(w) == Total([i \in 1 .. Len(w) - 1 |-> Leg(w, i)])
      IN  IF ways = {} THEN result[c] = NoData
          ELSE \A w \in ways :
                 result[c] = IF call.station[Last(w)] = NoData THEN NoData ELSE Length(w)

(* max_upstream_dist: each cell has the length of the longest flow that    *)
(* passes through it, although a traversal stops at the first cell that    *)
(* already knows a longer one.  The byte for nodata must not be one that   *)
(* drains: a cell below such a nodata cell is taken to have inflow.        *)
LongestUpstream ==
  /\ pc = "returned" /\ call.op = "max_upstream_dist"
  /\ \A c \in Data : Drains(call.ldd, c)
  /\ call.ldd.nodata \notin 1 .. 9 \ {Pit}
  => LET ways == WaysFrom(Data)
         Length(w) == SumFunction([i \in 1 .. Len(w) - 1 |-> Step(w[i], w[i + 1])])
     IN  \A c \in Data : result[c] = Max({0} \cup {Length(w) : w \in EndingIn(ways, c)})

(* The two functions that measure along the flow (accuflux.h:734, 891).    *)
DistancesExact == LddDistExact /\ LongestUpstream

(* Every traversal ends, on a map with loops too. *)
Termination == <>(pc \in {"returned", "thrown"})
=============================================================================
