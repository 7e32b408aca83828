-------------------------------- MODULE LddFix --------------------------------
(***************************************************************************)
(* fix_ldd of accuflux.h repairs a drain map in one scan.  It follows the  *)
(* flows in the copy that it is changing and handles each fault it meets   *)
(* at once, but looks for the neighbours of a loop in the original.        *)
(*                                                                         *)
(* Reads beyond the table of offsets, or beyond the raster, and the cell   *)
(* that no flow points from are left to choice.                            *)
(***************************************************************************)
EXTENDS LddScan

CONSTANT Maps   \* the maps considered

ASSUME LddFixAssumption == Maps \subseteq LddMap

\* pc is "scan", "flow", "returned" or "thrown"; result has the copy's bytes
VARIABLES lddMap,
          curCell, traversedCells,
          errors    \* the cells reported as beyond repair

walk == <<curCell, traversedCells>>
repairVars == <<lddMap, pc, cursor, walk, result, errors>>

(* The copy, as a map. *)
copy == [lddMap EXCEPT !.dir = result]

dir == result[curCell]

RepairInit ==
  /\ lddMap \in Maps
  /\ BeginScan
  /\ curCell = FirstCell /\ traversedCells = {}
  /\ result = lddMap.dir
  /\ errors = {}

(* A neighbour whose byte is above 9 makes getDestinationCell read past    *)
(* the end of lookupOffsets: it may or may not seem to flow into the cell. *)
MaySeemIncoming(c) ==
  \E n \in Cell : (Straight(c, n) \/ Diagonal(c, n)) /\ ~InTable(result[n])

SkipCell ==
  /\ pc = "scan" /\ ~PastEnd(cursor)
  /\ \/ is_nodata(lddMap, cursor)
     \/ has_upstream_cells(copy, cursor)
     \/ MaySeemIncoming(cursor)
  /\ cursor' = NextCell(cursor)
  /\ UNCHANGED <<lddMap, pc, walk, result, errors>>

(* Flows are followed from where they spring. *)
EnterFlow ==
  /\ pc = "scan" /\ ~PastEnd(cursor)
  /\ ~is_nodata(lddMap, cursor) /\ ~has_upstream_cells(copy, cursor)
  /\ pc' = "flow" /\ curCell' = cursor /\ traversedCells' = {}
  /\ UNCHANGED <<lddMap, cursor, result, errors>>

(* The flow has ended, in a pit or in a fault that has been dealt with.    *)
LeaveFlow == pc' = "scan" /\ cursor' = NextCell(cursor) /\ UNCHANGED <<lddMap, walk>>

ReachPit ==
  /\ pc = "flow" /\ dir = Pit
  /\ LeaveFlow
  /\ UNCHANGED <<result, errors>>

InvalidValue ==
  /\ pc = "flow" /\ ~InTable(dir)
  /\ result' = [result EXCEPT ![curCell] = lddMap.nodata]
  /\ LeaveFlow
  /\ UNCHANGED errors

destCell == getNeighbour(dir, curCell)

LeaveMap ==
  /\ pc = "flow" /\ dir # Pit /\ InTable(dir)
  /\ destCell \notin Cell
  /\ pc' = "thrown"
  /\ UNCHANGED <<lddMap, cursor, walk, result, errors>>

(* The original says where the pit is to be dug, even if an earlier repair *)
(* has turned the cell elsewhere; a byte above 9 may say anything.         *)
Dug(cell) ==
  IF InTable(lddMap.dir[cell]) THEN {getNeighbour(lddMap.dir[cell], cell)} ELSE Cell

EndInNodata ==
  /\ pc = "flow" /\ dir # Pit /\ InTable(dir)
  /\ destCell \in Cell /\ is_nodata(copy, destCell)
  /\ \E pit \in Dug(curCell) : result' = [result EXCEPT ![pit] = Pit]
  /\ LeaveFlow
  /\ UNCHANGED errors

(* The neighbours that drain into the cell in the original. *)
Inwards(cell) == {n \in Cell \ {cell} : FlowsInto(lddMap, n, cell)}

(* Without any, inwardCell is not assigned. *)
InwardCells(cell) ==
  IF Inwards(cell) = {} THEN (-1 .. Rows) \X (-1 .. Cols) ELSE Inwards(cell)

(* The common neighbours, by their place in the order they are tried in.   *)
Tried(i, inward) == getNeighbour(<<1, 2, 3, 4, 6, 7, 8, 9>>[i], inward)

Candidates(cell, inward) ==
  {i \in 1 .. 8 : Straight(Tried(i, inward), cell) \/ Diagonal(Tried(i, inward), cell)}

(* A candidate must not drain into the inward cell, nor be a pit or zero;  *)
(* what is read for one outside of the map is anything.                    *)
MayServe(n, inward) ==
  n \in Cell => ~FlowsInto(lddMap, n, inward) /\ lddMap.dir[n] \notin {Pit, 0}

MayBeRefused(n, inward) ==
  n \in Cell => ~InTable(lddMap.dir[n]) \/ ~MayServe(n, inward)

\* Mutant: the neighbour is turned to the cell.
TurnToSwapped(cell, n) ==
  IF n \in Cell THEN [result EXCEPT ![n] = CHOOSE d \in 1 .. 9 \ {5} : getNeighbour(d, n) = cell]
  ELSE result

TurnTo(cell, n) ==
  [result EXCEPT ![cell] = CHOOSE d \in 1 .. 9 \ {5} : getNeighbour(d, cell) = n]

\* Mutant: a cell that several flows reach is turned round as well.
BreakAnyLoop(cell) ==
  \E inward \in InwardCells(cell) :
    \E i \in Candidates(cell, inward) :
      /\ MayServe(Tried(i, inward), inward)
      /\ result' = TurnTo(cell, Tried(i, inward))
      /\ UNCHANGED errors

(* The callback for a loop, with the cell in which the flow enters it.     *)
BreakLoop(cell) ==
  \/ /\ Cardinality(Inwards(cell)) > 1
     /\ UNCHANGED <<result, errors>>
  \/ /\ Cardinality(Inwards(cell)) <= 1
     /\ \E inward \in InwardCells(cell) :
          \/ \E i \in Candidates(cell, inward) :
               /\ MayServe(Tried(i, inward), inward)
               /\ \A j \in Candidates(cell, inward) :
                    j < i => MayBeRefused(Tried(j, inward), inward)
               /\ result' = TurnTo(cell, Tried(i, inward))
               /\ UNCHANGED errors
          \/ /\ \A i \in Candidates(cell, inward) : MayBeRefused(Tried(i, inward), inward)
             /\ errors' = errors \cup {cell}
             /\ UNCHANGED result

Continues ==
  /\ pc = "flow" /\ dir # Pit /\ InTable(dir)
  /\ destCell \in Cell /\ ~is_nodata(copy, destCell)

MeetLoop ==
  /\ Continues /\ destCell \in traversedCells \cup {curCell}
  /\ BreakLoop(destCell)
  /\ LeaveFlow

FollowFlow ==
  /\ Continues /\ destCell \notin traversedCells \cup {curCell}
  /\ traversedCells' = traversedCells \cup {curCell}
  /\ curCell' = destCell
  /\ UNCHANGED <<lddMap, pc, cursor, result, errors>>

RepairReturn == EndScan /\ UNCHANGED <<lddMap, walk, errors>>

RepairNext == \/ SkipCell \/ EnterFlow \/ FollowFlow \/ ReachPit \/ InvalidValue
              \/ LeaveMap \/ EndInNodata \/ MeetLoop \/ RepairReturn

RepairSpec == RepairInit /\ [][RepairNext]_repairVars

-----------------------------------------------------------------------------
(* Properties                                                              *)

(* Otherwise a nodata cell seems to flow into its neighbour.               *)
NodataDrainsNowhere == lddMap.nodata \notin 1 .. 9 \ {Pit}

(* No repair, and no combination of repairs, touches a flow that was sound *)
(* (accuflux.h:515): water that reached a pit takes the same way.          *)
SoundFlowsKept ==
  NodataDrainsNowhere => \A c \in DataCells(lddMap) :
    Drains(lddMap, c) => Course(copy, c) = Course(lddMap, c)

\* Its byte is a direction, or nodata that is not taken for one.
DrainsSomewhere(c) == lddMap.dir[c] \in 1 .. 9 \/ {lddMap.dir[c], lddMap.nodata} = {0}

(* If every cell drains somewhere, a map with a flow that leaves it is     *)
(* refused and no other map is (accuflux.h:531): the repairs do not turn   *)
(* flows out of the map, nor hide one.  Elsewhere they may: a byte above 9 *)
(* may look like an inflow, so that a spring is not seen, and a zero is    *)
(* turned to a neighbour that is not looked for on the map.                *)
FlowsOutRefused ==
  NodataDrainsNowhere /\ (\A c \in Cell : DrainsSomewhere(c)) =>
    LET flowsOut == {c \in DataCells(lddMap) :
                       getNeighbour(lddMap.dir[c], c) \notin Cell}
    IN  /\ pc = "thrown" => flowsOut # {}
        /\ pc = "returned" => flowsOut = {}
=============================================================================
