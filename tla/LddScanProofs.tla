---------------------------- MODULE LddScanProofs ----------------------------
(***************************************************************************)
(* For every grid and map.  fix_ldd: if the byte for nodata is no          *)
(* direction it changes no sound flow, whatever it repairs, and refuses a  *)
(* map of directions exactly if some flow leaves it.  slope_length         *)
(* overflows the stack if cells drain into each other in a circle and on   *)
(* no other map, and returns the length of the longest way from a spring;  *)
(* catchment returns the id of the last station that water passes.         *)
(***************************************************************************)
EXTENDS LddFix, LddUpstream, GridProofs

-----------------------------------------------------------------------------
(* fix_ldd                                                                 *)


RepairTypes ==
  /\ lddMap \in LddMap
  /\ pc \in {"scan", "flow", "returned", "thrown"}
  /\ cursor \in (0 .. Rows) \X (0 .. Cols - 1)
  /\ curCell \in Cell /\ traversedCells \subseteq Cell \ {curCell}
  /\ result \in [Cell -> Byte]
  /\ pc = "flow" => cursor \in Cell
  /\ pc = "returned" => PastEnd(cursor)

(* The cells whose water comes to a pit. *)
Sound == {c \in DataCells(lddMap) : Drains(lddMap, c)}

(* The cell has been turned to a direction the loops go on in. *)
Flows(c) == InTable(result[c]) /\ result[c] # Pit

Passed == traversedCells \cup {curCell}

GoesTo(from, to) == InTable(result[from]) /\ getNeighbour(result[from], from) = to

Incoming(c) == \E n \in Cell \ {c} : GoesTo(n, c)

(* What is known of the cells that a flow has passed: it goes from one to  *)
(* the next, none but the first looks like nodata, and nothing flows into  *)
(* the first.                                                              *)
WayInv ==
  pc = "flow" =>
    /\ cursor \in Passed /\ ~is_nodata(lddMap, cursor)
    /\ curCell = cursor => traversedCells = {}
    /\ ~Incoming(cursor)
    /\ \A c \in Passed \ {cursor} :
         /\ result[c] # lddMap.nodata
         /\ \E before \in traversedCells : before # c /\ GoesTo(before, c)
    /\ \A c \in traversedCells : Flows(c) /\ getNeighbour(result[c], c) \in Passed
    /\ \A c \in Passed : Flows(c) => InTable(lddMap.dir[c])

(* What repairs have changed so far. *)
RepairInv ==
  /\ \A c \in Sound : result[c] = lddMap.dir[c]
  /\ \A c \in Cell : is_nodata(lddMap, c) => result[c] \in {lddMap.nodata, Pit}
  /\ \A c \in Cell : Flows(c) /\ result[c] # lddMap.nodata => InTable(lddMap.dir[c])

(* No cell is turned if there is none that flows into itself.              *)
NoZero == \A c \in DataCells(lddMap) : lddMap.dir[c] # 0

Unturned ==
  NoZero => \A c \in Cell :
              \/ result[c] = lddMap.dir[c]
              \/ /\ is_nodata(lddMap, c) \/ ~InTable(lddMap.dir[c])
                 /\ result[c] \in {lddMap.nodata, Pit}

(* If the byte for nodata is zero, an unsound cell that has become nodata  *)
(* is never taken for a spring, where its byte would be looked up.         *)
SeenBefore ==
  lddMap.nodata = 0 =>
    \A c \in Cell :
      /\ result[c] = 0 /\ ~InTable(lddMap.dir[c])
      /\ ~Before(c, cursor) /\ ~(pc = "flow" /\ c = cursor)
      => Incoming(c)

AllDrainSomewhere == \A c \in Cell : DrainsSomewhere(c)

FlowsOut == {c \in DataCells(lddMap) : getNeighbour(lddMap.dir[c], c) \notin Cell}

Spring(c) == ~is_nodata(lddMap, c) /\ ~has_upstream_cells(lddMap, c)

(* No spring above a cell that flows out has been passed.                  *)
RefusalInv ==
  AllDrainSomewhere =>
    /\ pc = "thrown" => FlowsOut # {}
    /\ pc # "thrown" => \A c \in FlowsOut : \A s \in Cell :
                          Spring(s) /\ Reaches(lddMap, s, c) => ~Before(s, cursor)

FixInv == NodataDrainsNowhere =>
            WayInv /\ RepairInv /\ Unturned /\ SeenBefore /\ RefusalInv

-----------------------------------------------------------------------------
(* RepairTypes                                                                   *)

LEMMA Offsets ==
  /\ lookupOffsets[1] = <<1, -1>> /\ lookupOffsets[2] = <<1, 0>> /\ lookupOffsets[3] = <<1, 1>>
  /\ lookupOffsets[4] = <<0, -1>> /\ lookupOffsets[6] = <<0, 1>>
  /\ lookupOffsets[7] = <<-1, -1>> /\ lookupOffsets[8] = <<-1, 0>> /\ lookupOffsets[9] = <<-1, 1>>
  /\ lookupOffsets[0] = <<0, 0>> /\ lookupOffsets[5] = <<0, 0>>
BY DEF lookupOffsets

(* getDirectionToNeighbour finds a direction. *)
LEMMA DirectionExists ==
  ASSUME NEW c \in Int \X Int, NEW n \in Int \X Int, Straight(n, c) \/ Diagonal(n, c)
  PROVE  \E d \in 1 .. 9 \ {5} : getNeighbour(d, c) = n
<1>1. /\ n = <<n[1], n[2]>> /\ n[1] \in Int /\ n[2] \in Int
      /\ c = <<c[1], c[2]>> /\ c[1] \in Int /\ c[2] \in Int
  OBVIOUS
<1>2. /\ n[1] = c[1] + 1 \/ n[1] = c[1] \/ n[1] = c[1] - 1
      /\ n[2] = c[2] + 1 \/ n[2] = c[2] \/ n[2] = c[2] - 1
      /\ n[1] # c[1] \/ n[2] # c[2]
  BY <1>1 DEF Straight, Diagonal
<1>3. ASSUME NEW d \in 1 .. 9 \ {5}, n[1] = c[1] + lookupOffsets[d][1],
             n[2] = c[2] + lookupOffsets[d][2]
      PROVE  \E e \in 1 .. 9 \ {5} : getNeighbour(e, c) = n
  BY <1>1, <1>3 DEF getNeighbour
<1>4. CASE n[1] = c[1] + 1
  <2>1. CASE n[2] = c[2] - 1
    BY <1>1, <1>3, <1>4, <2>1, Offsets
  <2>2. CASE n[2] = c[2]
    BY <1>1, <1>3, <1>4, <2>2, Offsets
  <2>3. CASE n[2] = c[2] + 1
    BY <1>1, <1>3, <1>4, <2>3, Offsets
  <2> QED  BY <1>2, <2>1, <2>2, <2>3
<1>5. CASE n[1] = c[1]
  <2>1. CASE n[2] = c[2] - 1
    BY <1>1, <1>3, <1>5, <2>1, Offsets
  <2>2. CASE n[2] = c[2] + 1
    BY <1>1, <1>3, <1>5, <2>2, Offsets
  <2> QED  BY <1>2, <1>5, <2>1, <2>2
<1>6. CASE n[1] = c[1] - 1
  <2>1. CASE n[2] = c[2] - 1
    BY <1>1, <1>3, <1>6, <2>1, Offsets
  <2>2. CASE n[2] = c[2]
    BY <1>1, <1>3, <1>6, <2>2, Offsets
  <2>3. CASE n[2] = c[2] + 1
    BY <1>1, <1>3, <1>6, <2>3, Offsets
  <2> QED  BY <1>2, <2>1, <2>2, <2>3
<1> QED  BY <1>2, <1>4, <1>5, <1>6

LEMMA NeighbourType ==
  ASSUME NEW c \in Int \X Int, NEW d \in 0 .. 9
  PROVE  getNeighbour(d, c) \in Int \X Int
<1>1. lookupOffsets[d] \in Int \X Int
  BY DEF lookupOffsets
<1> QED  BY <1>1 DEF getNeighbour

(* The callback for a loop writes a direction to the cell or nothing.      *)
LEMMA LoopBroken ==
  ASSUME RepairTypes, NEW cell \in Cell, BreakLoop(cell)
  PROVE  \/ UNCHANGED result
         \/ /\ Cardinality(Inwards(cell)) <= 1
            /\ \E d \in 1 .. 9 \ {5} : result' = [result EXCEPT ![cell] = d]
<1> SUFFICES ASSUME ~ UNCHANGED result
             PROVE  /\ Cardinality(Inwards(cell)) <= 1
                    /\ \E d \in 1 .. 9 \ {5} : result' = [result EXCEPT ![cell] = d]
  OBVIOUS
<1>1. Cardinality(Inwards(cell)) <= 1
  BY DEF BreakLoop
<1>2. PICK inward \in InwardCells(cell) :
        \E k \in Candidates(cell, inward) : result' = TurnTo(cell, Tried(k, inward))
  BY DEF BreakLoop
<1>8. PICK i \in Candidates(cell, inward) : result' = TurnTo(cell, Tried(i, inward))
  BY <1>2
<1>3. inward \in Int \X Int /\ cell \in Int \X Int
  BY GridAssumption DEF InwardCells, Inwards, Cell
<1>4. i \in 1 .. 8 /\ (Straight(Tried(i, inward), cell) \/ Diagonal(Tried(i, inward), cell))
  BY DEF Candidates
<1>5. <<1, 2, 3, 4, 6, 7, 8, 9>>[i] \in 0 .. 9
  BY <1>4
<1>6. Tried(i, inward) \in Int \X Int
  BY <1>3, <1>5, NeighbourType DEF Tried
<1>7. \E d \in 1 .. 9 \ {5} : getNeighbour(d, cell) = Tried(i, inward)
  BY <1>3, <1>4, <1>6, DirectionExists
<1> QED  BY <1>1, <1>7, <1>8 DEF TurnTo

LEMMA RepairTypesInit == RepairInit => RepairTypes
BY LddFixAssumption, GridAssumption DEF RepairInit, BeginScan, RepairTypes, LddMap, FirstCell, Cell, PastEnd

LEMMA RepairTypesNext == RepairTypes /\ [RepairNext]_repairVars => RepairTypes'
<1> SUFFICES ASSUME RepairTypes, [RepairNext]_repairVars PROVE RepairTypes'
  OBVIOUS
<1> USE DEF RepairTypes
<1>1. ASSUME ~PastEnd(cursor)
      PROVE  cursor \in Cell /\ NextCell(cursor) \in (0 .. Rows) \X (0 .. Cols - 1)
  BY <1>1, NextCellInGrid
<1>2. \A c \in Cell : ~PastEnd(c)
  BY GridAssumption DEF PastEnd, Cell
<1>3. CASE SkipCell
  BY <1>1, <1>3 DEF SkipCell, walk
<1>4. CASE EnterFlow
  BY <1>1, <1>4 DEF EnterFlow
<1>5. ASSUME pc = "flow", LeaveFlow, result' \in [Cell -> Byte]
      PROVE  RepairTypes'
  BY <1>1, <1>2, <1>5 DEF LeaveFlow, walk
<1>6. CASE ReachPit
  BY <1>5, <1>6 DEF ReachPit
<1>7. CASE InvalidValue
  BY <1>5, <1>7 DEF InvalidValue, LddMap
<1>8. CASE LeaveMap
  BY <1>8 DEF LeaveMap, walk
<1>9. CASE EndInNodata
  <2>1. PICK pit : result' = [result EXCEPT ![pit] = Pit]
    BY <1>9 DEF EndInNodata
  <2>2. Pit \in Byte
    BY DEF Pit, Byte
  <2>3. result' \in [Cell -> Byte]
    BY <2>1, <2>2
  <2> QED  BY <1>5, <1>9, <2>3 DEF EndInNodata
<1>10. CASE MeetLoop
  <2>1. destCell \in Cell /\ BreakLoop(destCell)
    BY <1>10 DEF MeetLoop, Continues
  <2>2. result' \in [Cell -> Byte]
    BY <2>1, LoopBroken DEF Byte
  <2> QED  BY <1>5, <1>10, <2>2 DEF MeetLoop, Continues
<1>11. CASE FollowFlow
  BY <1>11 DEF FollowFlow, Continues
<1>12. CASE RepairReturn
  BY <1>12 DEF RepairReturn, EndScan, walk
<1>13. CASE UNCHANGED repairVars
  BY <1>13 DEF repairVars, walk
<1> QED  BY <1>3, <1>4, <1>6, <1>7, <1>8, <1>9, <1>10, <1>11, <1>12, <1>13 DEF RepairNext

-----------------------------------------------------------------------------
(* What the copy has of the original                                       *)

LEMMA CopyFields ==
  ASSUME RepairTypes
  PROVE  /\ copy.dir = result /\ copy.nodata = lddMap.nodata
         /\ lddMap.dir \in [Cell -> Byte] /\ lddMap.nodata \in Byte
         /\ \A c : is_nodata(copy, c) <=> result[c] = lddMap.nodata
         /\ \A c, d : FlowsInto(copy, c, d) <=> GoesTo(c, d)
         /\ \A c : has_upstream_cells(copy, c) <=> Incoming(c)
<1>1. /\ copy.dir = result /\ copy.nodata = lddMap.nodata
      /\ lddMap.dir \in [Cell -> Byte] /\ lddMap.nodata \in Byte
  BY DEF RepairTypes, LddMap, copy
<1> QED  BY <1>1 DEF is_nodata, FlowsInto, has_upstream_cells, GoesTo, Incoming

LEMMA StaysPut ==
  ASSUME NEW c \in Cell
  PROVE  /\ getNeighbour(0, c) = c /\ getNeighbour(Pit, c) = c
         /\ \A d \in 0 .. 9 : getNeighbour(d, c) = c => d \in {0, Pit}
<1>1. c = <<c[1], c[2]>> /\ c[1] \in Int /\ c[2] \in Int
  BY GridAssumption DEF Cell
<1>2. getNeighbour(0, c) = c /\ getNeighbour(Pit, c) = c
  BY <1>1, Offsets DEF getNeighbour, Pit
<1>3. ASSUME NEW d \in 0 .. 9, d # 0, d # 5, getNeighbour(d, c) = c PROVE FALSE
  <2>1. c[1] = c[1] + lookupOffsets[d][1] /\ c[2] = c[2] + lookupOffsets[d][2]
    BY <1>1, <1>3 DEF getNeighbour
  <2>2. d = 1 \/ d = 2 \/ d = 3 \/ d = 4 \/ d = 6 \/ d = 7 \/ d = 8 \/ d = 9
    BY <1>3
  <2> QED  BY <1>1, <2>1, <2>2, Offsets
<1> QED  BY <1>2, <1>3 DEF Pit

LEMMA TableIs == \A d : InTable(d) <=> d \in 0 .. 9
BY DEF InTable, lookupOffsets

(* Sound flows go on to sound cells. *)
LEMMA SoundGoesOn ==
  ASSUME RepairTypes, NEW c \in Sound
  PROVE  /\ c \in Cell /\ ~is_nodata(lddMap, c) /\ InTable(lddMap.dir[c])
         /\ lddMap.dir[c] # Pit =>
              LET d == getNeighbour(lddMap.dir[c], c)
              IN  d \in Sound /\ Onward(lddMap, c) = {d} /\ d # c
<1>1. c \in Cell /\ ~is_nodata(lddMap, c) /\ Drains(lddMap, c)
  BY DEF Sound, DataCells
<1>2. CASE lddMap.dir[c] = Pit
  BY <1>1, <1>2, TableIs DEF Pit
<1>3. CASE lddMap.dir[c] # Pit
  <2>1. PICK d \in Onward(lddMap, c) : TRUE
    BY <1>1, <1>3, DrainsOnward
  <2>2. /\ d \in Cell /\ Onward(lddMap, c) = {d} /\ d = getNeighbour(lddMap.dir[c], c)
        /\ Drains(lddMap, d)
    BY <1>1, <2>1, DrainsThrough, OnwardSingle
  <2>3. InTable(lddMap.dir[c]) /\ ~is_nodata(lddMap, d)
    BY <1>3, <2>1 DEF Onward, FlowsInto
  <2>4. d # c
    <3> SUFFICES ASSUME d = c PROVE FALSE
      OBVIOUS
    <3>1. {c} \in SUBSET Cell /\ \A b \in {c} : lddMap.dir[b] # Pit /\ Onward(lddMap, b) \subseteq {c}
      BY <1>1, <1>3, <2>2
    <3> QED  BY <1>1, <3>1, TrappedNeverDrains
  <2> QED  BY <1>1, <2>2, <2>3, <2>4 DEF Sound, DataCells
<1> QED  BY <1>2, <1>3

(* Where the flow stands water is data in the original too. *)
LEMMA CurrentIsData ==
  ASSUME RepairTypes, WayInv, RepairInv, pc = "flow", NEW c \in Passed, Flows(c)
  PROVE  ~is_nodata(lddMap, c) /\ InTable(lddMap.dir[c])
<1>1. c \in Cell /\ InTable(lddMap.dir[c])
  BY DEF RepairTypes, Passed, WayInv
<1>2. c = cursor \/ result[c] # lddMap.nodata
  BY DEF WayInv
<1>3. ASSUME is_nodata(lddMap, c), c # cursor PROVE FALSE
  <2>1. result[c] \in {lddMap.nodata, Pit}
    BY <1>1, <1>3 DEF RepairInv
  <2> QED  BY <1>2, <1>3, <2>1 DEF Flows
<1> QED  BY <1>1, <1>3 DEF WayInv

LEMMA PassedIsOriginal ==
  ASSUME RepairTypes, WayInv, RepairInv, Unturned, NoZero, pc = "flow", NEW c \in Passed, Flows(c)
  PROVE  result[c] = lddMap.dir[c]
<1>1. ~is_nodata(lddMap, c) /\ InTable(lddMap.dir[c]) /\ c \in Cell
  BY CurrentIsData DEF Passed, RepairTypes
<1> QED  BY <1>1 DEF Unturned

(* A flow that has come back to where it was has passed no sound cell.     *)
LEMMA LoopsAreUnsound ==
  ASSUME RepairTypes, WayInv, RepairInv, Continues, destCell \in Passed, NEW c \in Passed
  PROVE  c \notin Sound /\ Flows(c)
<1> DEFINE D == {b \in Passed : b \in Sound}
<1>1. \A b \in Passed : b \in Cell /\ Flows(b) /\ getNeighbour(result[b], b) \in Passed
  BY DEF RepairTypes, Passed, WayInv, Continues, destCell, dir, Flows
<1>2. D \in SUBSET Cell
  BY <1>1
<1>3. ASSUME NEW b \in D PROVE lddMap.dir[b] # Pit /\ Onward(lddMap, b) \subseteq D
  <2>1. result[b] = lddMap.dir[b] /\ Flows(b) /\ getNeighbour(result[b], b) \in Passed
    BY <1>1 DEF RepairInv
  <2>2. lddMap.dir[b] # Pit
    BY <2>1 DEF Flows
  <2>3. Onward(lddMap, b) = {getNeighbour(lddMap.dir[b], b)} /\ getNeighbour(lddMap.dir[b], b) \in Sound
    BY <2>2, SoundGoesOn
  <2> QED  BY <2>1, <2>2, <2>3
<1>4. c \notin D
  <2> SUFFICES ASSUME c \in D PROVE FALSE
    OBVIOUS
  <2>1. Drains(lddMap, c) /\ c \in Cell
    BY DEF Sound, DataCells
  <2> HIDE DEF D
  <2> QED  BY <1>2, <1>3, <2>1, TrappedNeverDrains
<1> QED  BY <1>1, <1>4

(* Where no cell flows into itself, two cells flow into the entry of a     *)
(* loop in the original as well, and it is left alone.                     *)
LEMMA NothingTurned ==
  ASSUME RepairTypes, WayInv, RepairInv, Unturned, NoZero, MeetLoop
  PROVE  UNCHANGED result
<1> DEFINE to == destCell
<1>1. /\ pc = "flow" /\ Continues /\ to \in Passed /\ to \in Cell /\ BreakLoop(to)
      /\ to = getNeighbour(result[curCell], curCell)
      /\ curCell \in Cell /\ curCell \in Passed /\ Flows(curCell)
  BY DEF MeetLoop, Continues, Passed, RepairTypes, destCell, dir, Flows
<1> HIDE DEF to
<1>2. \A c \in Passed : Flows(c) => /\ result[c] = lddMap.dir[c] /\ c \in Cell
                                   /\ ~is_nodata(lddMap, c) /\ result[c] # 0
  <2> SUFFICES ASSUME NEW c \in Passed, Flows(c)
               PROVE  /\ result[c] = lddMap.dir[c] /\ c \in Cell
                      /\ ~is_nodata(lddMap, c) /\ result[c] # 0
    OBVIOUS
  <2>1. result[c] = lddMap.dir[c] /\ ~is_nodata(lddMap, c) /\ c \in Cell
    BY <1>1, PassedIsOriginal, CurrentIsData DEF RepairTypes, Passed
  <2> QED  BY <2>1 DEF NoZero, DataCells
<1>3. to # curCell
  BY <1>1, <1>2, StaysPut, TableIs DEF Flows
<1>4. to # cursor
  <2>1. GoesTo(curCell, to)
    BY <1>1 DEF Flows, GoesTo
  <2>2. Incoming(to)
    BY <1>1, <1>3, <2>1 DEF Incoming
  <2> QED  BY <1>1, <2>2 DEF WayInv
<1>5. PICK before \in traversedCells : before # to /\ GoesTo(before, to)
  BY <1>1, <1>4 DEF WayInv
<1>6. before \in Passed /\ Flows(before) /\ before # curCell /\ before \in Cell
  BY <1>1, <1>5 DEF WayInv, Passed, RepairTypes
<1>7. before \in Inwards(to) /\ curCell \in Inwards(to)
  <2>1. /\ InTable(lddMap.dir[before]) /\ getNeighbour(lddMap.dir[before], before) = to
        /\ InTable(lddMap.dir[curCell]) /\ getNeighbour(lddMap.dir[curCell], curCell) = to
    BY <1>1, <1>2, <1>5, <1>6 DEF Flows, GoesTo
  <2> QED  BY <1>1, <1>3, <1>5, <1>6, <2>1 DEF Inwards, FlowsInto
<1>8. Cardinality(Inwards(to)) > 1
  <2>1. Inwards(to) \in SUBSET Cell
    BY DEF Inwards
  <2>2. IsFiniteSet(Inwards(to)) /\ Cardinality(Inwards(to)) \in Nat
    BY <2>1, CellsFinite, FS_Subset, FS_CardinalityType
  <2>3. IsFiniteSet({before}) /\ Cardinality({before}) = 1
    BY FS_Singleton
  <2>6. Cardinality({before} \cup {curCell}) = 2
    <3>1. curCell \notin {before}
      BY <1>6
    <3>2. Cardinality({before} \cup {curCell}) = Cardinality({before}) + 1
      BY <2>3, <3>1, FS_AddElement
    <3> QED  BY <2>3, <3>2
  <2>4. {before} \cup {curCell} \in SUBSET Inwards(to)
    BY <1>7
  <2>5. Cardinality({before} \cup {curCell}) <= Cardinality(Inwards(to))
    BY <2>2, <2>4, FS_Subset
  <2> QED  BY <2>2, <2>5, <2>6
<1>9. UNCHANGED result \/ Cardinality(Inwards(to)) <= 1
  BY <1>1, LoopBroken
<1>10. Cardinality(Inwards(to)) \in Nat
  <2>1. Inwards(to) \in SUBSET Cell
    BY DEF Inwards
  <2> QED  BY <2>1, CellsFinite, FS_Subset, FS_CardinalityType
<1> QED  BY <1>8, <1>9, <1>10

-----------------------------------------------------------------------------
(* The invariant                                                           *)

LEMMA MapStays ==
  ASSUME UNCHANGED lddMap
  PROVE  /\ Sound' = Sound /\ FlowsOut' = FlowsOut
         /\ NoZero' = NoZero /\ AllDrainSomewhere' = AllDrainSomewhere
         /\ \A c : Spring(c)' = Spring(c) /\ is_nodata(lddMap, c)' = is_nodata(lddMap, c)
         /\ \A c, d : Reaches(lddMap, c, d)' = Reaches(lddMap, c, d)
<1>1. lddMap' = lddMap
  OBVIOUS
<1> QED  BY <1>1 DEF Sound, FlowsOut, NoZero, AllDrainSomewhere, DrainsSomewhere, Spring

LEMMA DrainingMaps ==
  ASSUME RepairTypes, AllDrainSomewhere
  PROVE  NoZero /\ \A c \in Cell : InTable(lddMap.dir[c])
<1>1. ASSUME NEW c \in Cell
      PROVE  InTable(lddMap.dir[c]) /\ (c \in DataCells(lddMap) => lddMap.dir[c] # 0)
  <2>1. lddMap.dir[c] \in 1 .. 9 \/ {lddMap.dir[c], lddMap.nodata} = {0}
    BY DEF AllDrainSomewhere, DrainsSomewhere
  <2>2. CASE lddMap.dir[c] \in 1 .. 9
    BY <2>2, TableIs
  <2>3. CASE {lddMap.dir[c], lddMap.nodata} = {0}
    <3>1. lddMap.dir[c] = 0 /\ lddMap.nodata = 0
      BY <2>3
    <3> QED  BY <3>1, TableIs DEF DataCells, is_nodata
  <2> QED  BY <2>1, <2>2, <2>3
<1> QED  BY <1>1 DEF NoZero, DataCells

(* Nodata leads to no neighbour. *)
LEMMA NodataStays ==
  ASSUME RepairTypes, NodataDrainsNowhere, NEW c \in Cell, InTable(lddMap.nodata)
  PROVE  getNeighbour(lddMap.nodata, c) = c
<1>1. lddMap.nodata \in 0 .. 9 /\ lddMap.nodata \notin 1 .. 9 \ {Pit}
  BY TableIs DEF NodataDrainsNowhere
<1>2. lddMap.nodata = 0 \/ lddMap.nodata = Pit
  BY <1>1
<1> QED  BY <1>2, StaysPut

LEMMA FixInit == RepairInit /\ RepairTypes => FixInv
<1> SUFFICES ASSUME RepairInit, RepairTypes, NodataDrainsNowhere
             PROVE  WayInv /\ RepairInv /\ Unturned /\ SeenBefore /\ RefusalInv
  BY DEF FixInv
<1>1. WayInv /\ RepairInv /\ Unturned
  BY DEF RepairInit, BeginScan, WayInv, RepairInv, Unturned, Sound, DataCells, Flows, is_nodata
<1>2. SeenBefore
  BY TableIs DEF RepairInit, BeginScan, SeenBefore
<1>3. RefusalInv
  BY GridAssumption DEF RepairInit, BeginScan, RefusalInv, Before, FirstCell, Cell
<1> QED  BY <1>1, <1>2, <1>3

LEMMA SkipStep ==
  ASSUME RepairTypes, NodataDrainsNowhere, FixInv, SkipCell
  PROVE  FixInv'
<1>1. WayInv /\ RepairInv /\ Unturned /\ SeenBefore /\ RefusalInv
  BY DEF FixInv
<1>2. /\ UNCHANGED <<lddMap, pc, curCell, traversedCells, result, errors>>
      /\ pc = "scan" /\ cursor \in Cell /\ cursor' = NextCell(cursor)
      /\ \A b \in Cell : Before(b, cursor') <=> Before(b, cursor) \/ b = cursor
  BY NextCellInGrid DEF SkipCell, walk, RepairTypes
<1>3. WayInv'
  BY <1>2 DEF WayInv
<1>4. RepairInv' /\ Unturned'
  BY <1>1, <1>2, MapStays DEF RepairInv, Unturned, Flows
<1>5. SeenBefore'
  BY <1>1, <1>2 DEF SeenBefore, Incoming, GoesTo
<1>6. ASSUME AllDrainSomewhere, Spring(cursor) PROVE FALSE
  <2>1. NoZero /\ \A c \in Cell : InTable(lddMap.dir[c])
    BY <1>6, DrainingMaps
  <2>2. ~is_nodata(lddMap, cursor)
    BY <1>6 DEF Spring
  <2>3. \A n \in Cell : result[n] = lddMap.dir[n]
                        \/ (is_nodata(lddMap, n) /\ result[n] \in {lddMap.nodata, Pit})
    BY <1>1, <2>1 DEF Unturned
  <2>4. ASSUME NEW n \in Cell, ~InTable(result[n]) PROVE FALSE
    <3>1. InTable(lddMap.dir[n]) /\ InTable(Pit)
      BY <2>1, TableIs DEF Pit
    <3> QED  BY <2>3, <2>4, <3>1 DEF is_nodata
  <2>5. ASSUME NEW n \in Cell \ {cursor}, GoesTo(n, cursor) PROVE FALSE
    <3>1. result[n] # lddMap.dir[n]
      BY <1>6, <2>5, <1>2 DEF GoesTo, FlowsInto, has_upstream_cells, Spring
    <3>2. result[n] \in {lddMap.nodata, Pit} /\ InTable(result[n])
      BY <2>3, <2>4, <3>1
    <3>3. getNeighbour(result[n], n) = n
      BY <3>2, NodataStays, StaysPut
    <3> QED  BY <2>5, <3>3 DEF GoesTo
  <2>6. ~Incoming(cursor) /\ ~MaySeemIncoming(cursor)
    BY <2>4, <2>5 DEF Incoming, MaySeemIncoming
  <2> QED  BY <2>2, <2>6, CopyFields DEF SkipCell
<1>7. RefusalInv'
  BY <1>1, <1>2, <1>6, MapStays DEF RefusalInv
<1> QED  BY <1>3, <1>4, <1>5, <1>7 DEF FixInv

LEMMA EnterStep ==
  ASSUME RepairTypes, NodataDrainsNowhere, FixInv, EnterFlow
  PROVE  FixInv'
<1>1. WayInv /\ RepairInv /\ Unturned /\ SeenBefore /\ RefusalInv
  BY DEF FixInv
<1>2. /\ UNCHANGED <<lddMap, cursor, result, errors>>
      /\ pc = "scan" /\ cursor \in Cell /\ pc' = "flow"
      /\ curCell' = cursor /\ traversedCells' = {}
  BY NextCellInGrid DEF EnterFlow, RepairTypes
<1>3. ~is_nodata(lddMap, cursor) /\ ~Incoming(cursor)
  BY CopyFields DEF EnterFlow
<1>4. ASSUME Flows(cursor) PROVE InTable(lddMap.dir[cursor])
  <2>1. CASE result[cursor] # lddMap.nodata
    BY <1>1, <1>2, <1>4, <2>1 DEF RepairInv
  <2>2. CASE result[cursor] = lddMap.nodata
    <3>1. lddMap.nodata \in 0 .. 9 /\ lddMap.nodata \notin 1 .. 9 \ {Pit} /\ lddMap.nodata # Pit
      BY <1>4, <2>2, TableIs DEF Flows, NodataDrainsNowhere
    <3>2. lddMap.nodata = 0 /\ result[cursor] = 0
      BY <2>2, <3>1
    <3>3. ~Before(cursor, cursor)
      BY <1>2, GridAssumption DEF Before, Cell
    <3> QED  BY <1>1, <1>2, <1>3, <3>2, <3>3 DEF SeenBefore
  <2> QED  BY <2>1, <2>2
<1>5. Passed' = {cursor} /\ cursor' = cursor
  BY <1>2 DEF Passed
<1>6. WayInv'
  BY <1>2, <1>3, <1>4, <1>5 DEF WayInv, Flows, Incoming, GoesTo, is_nodata
<1>7. RepairInv' /\ Unturned'
  BY <1>1, <1>2, MapStays DEF RepairInv, Unturned, Flows
<1>8. SeenBefore'
  BY <1>1, <1>2 DEF SeenBefore, Incoming, GoesTo
<1>9. RefusalInv'
  BY <1>1, <1>2, MapStays DEF RefusalInv
<1> QED  BY <1>6, <1>7, <1>8, <1>9 DEF FixInv

LEMMA FollowStep ==
  ASSUME RepairTypes, NodataDrainsNowhere, FixInv, FollowFlow
  PROVE  FixInv'
<1>1. WayInv /\ RepairInv /\ Unturned /\ SeenBefore /\ RefusalInv
  BY DEF FixInv
<1>2. PICK to : to = destCell
  OBVIOUS
<1>3. /\ UNCHANGED <<lddMap, pc, cursor, result, errors>> /\ pc = "flow"
      /\ to \in Cell /\ to \notin Passed /\ result[to] # lddMap.nodata
      /\ curCell' = to /\ traversedCells' = Passed
      /\ Flows(curCell) /\ to = getNeighbour(result[curCell], curCell)
  BY <1>2, CopyFields DEF FollowFlow, Continues, Passed, Flows, dir, destCell
<1>4. Passed' = Passed \cup {to}
  BY <1>3 DEF Passed
<1>5. /\ cursor \in Passed /\ ~is_nodata(lddMap, cursor) /\ ~Incoming(cursor) /\ to # cursor
      /\ curCell \in Passed /\ to # curCell
  BY <1>1, <1>3 DEF WayInv, Passed
<1>6. ASSUME NEW c \in Passed \cup {to}, c # cursor
      PROVE  /\ result[c] # lddMap.nodata
             /\ \E before \in Passed : before # c /\ GoesTo(before, c)
  <2>1. CASE c = to
    BY <1>3, <1>5, <2>1 DEF GoesTo, Flows
  <2>2. CASE c \in Passed
    BY <1>1, <1>3, <1>6, <2>2 DEF WayInv, Passed
  <2> QED  BY <1>6, <2>1, <2>2
<1>7. ASSUME NEW c \in Passed PROVE Flows(c) /\ getNeighbour(result[c], c) \in Passed \cup {to}
  BY <1>1, <1>3 DEF WayInv, Passed
<1>8. ASSUME NEW c \in Passed \cup {to}, Flows(c) PROVE InTable(lddMap.dir[c])
  BY <1>1, <1>3, <1>8 DEF WayInv, RepairInv
<1>9. WayInv'
  BY <1>3, <1>4, <1>5, <1>6, <1>7, <1>8 DEF WayInv, Flows, Incoming, GoesTo, is_nodata
<1>10. RepairInv' /\ Unturned'
  BY <1>1, <1>3, MapStays DEF RepairInv, Unturned, Flows
<1>11. SeenBefore'
  BY <1>1, <1>3 DEF SeenBefore, Incoming, GoesTo
<1>12. RefusalInv'
  BY <1>1, <1>3, MapStays DEF RefusalInv
<1> QED  BY <1>9, <1>10, <1>11, <1>12 DEF FixInv

(* When the flow can go on to no new cell and does not leave the map, no   *)
(* cell above which it sprang does.                                        *)
LEMMA FlowStaysIn ==
  ASSUME RepairTypes, FixInv, NodataDrainsNowhere, pc = "flow", AllDrainSomewhere,
         Onward(lddMap, curCell) \subseteq Passed, curCell \notin FlowsOut,
         NEW c \in FlowsOut
  PROVE  ~Reaches(lddMap, cursor, c)
<1>1. WayInv /\ RepairInv /\ Unturned /\ NoZero
  BY DrainingMaps DEF FixInv
<1>2. ASSUME NEW d \in traversedCells
      PROVE  getNeighbour(lddMap.dir[d], d) \in Passed
  <2>1. d \in Passed /\ Flows(d) /\ getNeighbour(result[d], d) \in Passed
    BY <1>1 DEF WayInv, Passed
  <2> QED  BY <1>1, <2>1, PassedIsOriginal
<1>3. Passed \in SUBSET Cell /\ cursor \in Passed /\ traversedCells \subseteq Cell
  BY <1>1 DEF RepairTypes, Passed, WayInv
<1>4. ASSUME NEW d \in Passed PROVE Onward(lddMap, d) \subseteq Passed
  <2>1. CASE d = curCell
    BY <2>1
  <2>2. CASE d \in traversedCells
    BY <1>2, <2>2 DEF Onward, FlowsInto
  <2> QED  BY <2>1, <2>2 DEF Passed
<1>5. c \notin Passed
  BY <1>2, <1>3 DEF FlowsOut, Passed
<1> QED  BY <1>3, <1>4, <1>5 DEF Reaches

(* What a step back to the scan has to show. *)
LEMMA BackToScan ==
  ASSUME RepairTypes, NodataDrainsNowhere, FixInv, pc = "flow", LeaveFlow,
         AllDrainSomewhere =>
           Onward(lddMap, curCell) \subseteq Passed /\ curCell \notin FlowsOut
  PROVE  /\ WayInv /\ RepairInv /\ Unturned /\ SeenBefore
         /\ WayInv' /\ RefusalInv'
         /\ cursor \in Cell /\ UNCHANGED lddMap
         /\ \A b \in Cell : Before(b, cursor') <=> Before(b, cursor) \/ b = cursor
         /\ UNCHANGED result => RepairInv' /\ Unturned' /\ SeenBefore'
<1>1. WayInv /\ RepairInv /\ Unturned /\ SeenBefore /\ RefusalInv
  BY DEF FixInv
<1>2. /\ UNCHANGED <<lddMap, curCell, traversedCells>>
      /\ pc = "flow" /\ pc' = "scan" /\ cursor \in Cell
      /\ \A b \in Cell : Before(b, cursor') <=> Before(b, cursor) \/ b = cursor
  <2>1. cursor \in Cell /\ ~PastEnd(cursor) /\ cursor \in (0 .. Rows) \X (0 .. Cols - 1)
    BY GridAssumption DEF RepairTypes, PastEnd, Cell
  <2> QED  BY <2>1, NextCellInGrid DEF LeaveFlow, walk
<1>3. WayInv'
  BY <1>2 DEF WayInv
<1>4. ASSUME AllDrainSomewhere, NEW c \in FlowsOut PROVE ~Reaches(lddMap, cursor, c)
  BY <1>2, <1>4, FlowStaysIn
<1>5. RefusalInv'
  BY <1>1, <1>2, <1>4, MapStays DEF RefusalInv
<1>6. ASSUME UNCHANGED result PROVE RepairInv' /\ Unturned' /\ SeenBefore'
  <2>1. RepairInv' /\ Unturned'
    BY <1>1, <1>2, <1>6, MapStays DEF RepairInv, Unturned, Flows
  <2>2. SeenBefore'
    BY <1>1, <1>2, <1>6 DEF SeenBefore, Incoming, GoesTo
  <2> QED  BY <2>1, <2>2
<1> QED  BY <1>1, <1>2, <1>3, <1>5, <1>6

LEMMA PitStep ==
  ASSUME RepairTypes, NodataDrainsNowhere, FixInv, ReachPit
  PROVE  FixInv'
<1>1. pc = "flow" /\ LeaveFlow /\ UNCHANGED result /\ result[curCell] = Pit /\ curCell \in Cell
  BY DEF ReachPit, dir, RepairTypes
<1>2. ASSUME AllDrainSomewhere
      PROVE  Onward(lddMap, curCell) = {} /\ curCell \notin FlowsOut
  <2>1. NoZero /\ Unturned /\ WayInv /\ InTable(lddMap.dir[curCell])
    BY <1>1, <1>2, DrainingMaps DEF FixInv
  <2>2. lddMap.dir[curCell] = Pit \/ is_nodata(lddMap, curCell)
    BY <1>1, <2>1 DEF Unturned
  <2>3. CASE lddMap.dir[curCell] = Pit
    BY <1>1, <2>3, StaysPut DEF Onward, FlowsOut
  <2>4. CASE is_nodata(lddMap, curCell)
    <3>1. getNeighbour(lddMap.dir[curCell], curCell) = curCell
      BY <1>1, <2>1, <2>4, NodataStays DEF is_nodata
    <3> QED  BY <1>1, <2>4, <3>1 DEF Onward, FlowsInto, FlowsOut
  <2> QED  BY <2>2, <2>3, <2>4
<1>3. AllDrainSomewhere => Onward(lddMap, curCell) \subseteq Passed /\ curCell \notin FlowsOut
  BY <1>2
<1> QED  BY <1>1, <1>3, BackToScan DEF FixInv

LEMMA InvalidStep ==
  ASSUME RepairTypes, NodataDrainsNowhere, FixInv, InvalidValue
  PROVE  FixInv'
<1>1. /\ pc = "flow" /\ LeaveFlow /\ curCell \in Cell
      /\ ~InTable(result[curCell]) /\ result \in [Cell -> Byte]
      /\ result' = [result EXCEPT ![curCell] = lddMap.nodata]
  BY DEF InvalidValue, dir, RepairTypes
<1>2. ASSUME NoZero, InTable(lddMap.dir[curCell]) PROVE is_nodata(lddMap, curCell)
  BY <1>1, <1>2 DEF FixInv, Unturned
<1>3. ASSUME AllDrainSomewhere PROVE FALSE
  <2>1. NoZero /\ InTable(lddMap.dir[curCell]) /\ InTable(Pit)
    BY <1>1, <1>3, DrainingMaps, TableIs DEF Pit
  <2>2. is_nodata(lddMap, curCell)
    BY <1>2, <2>1
  <2>3. result[curCell] = lddMap.dir[curCell] \/ result[curCell] \in {lddMap.nodata, Pit}
    BY <1>1, <2>1 DEF FixInv, Unturned
  <2> QED  BY <1>1, <2>1, <2>2, <2>3 DEF is_nodata
<1>4. /\ WayInv /\ RepairInv /\ Unturned /\ SeenBefore /\ WayInv' /\ RefusalInv'
      /\ cursor \in Cell /\ lddMap' = lddMap
      /\ \A b \in Cell : Before(b, cursor') <=> Before(b, cursor) \/ b = cursor
  BY <1>1, <1>3, BackToScan
<1>5. /\ result'[curCell] = lddMap.nodata
      /\ \A c \in Cell : c # curCell => result'[c] = result[c]
  BY <1>1
<1>6. RepairInv'
  <2>1. ASSUME NEW c \in Sound PROVE result'[c] = lddMap.dir[c]
    <3>1. c \in Cell /\ InTable(lddMap.dir[c]) /\ result[c] = lddMap.dir[c]
      BY <1>4, SoundGoesOn DEF RepairInv
    <3> QED  BY <1>1, <1>5, <3>1
  <2>2. ASSUME NEW c \in Cell, is_nodata(lddMap, c) PROVE result'[c] \in {lddMap.nodata, Pit}
    BY <1>4, <1>5, <2>2 DEF RepairInv
  <2>3. ASSUME NEW c \in Cell, InTable(result'[c]), result'[c] # Pit, result'[c] # lddMap.nodata
        PROVE  InTable(lddMap.dir[c])
    BY <1>4, <1>5, <2>3 DEF RepairInv, Flows
  <2> QED  BY <1>4, <2>1, <2>2, <2>3, MapStays DEF RepairInv, Flows
<1>7. Unturned'
  <2>1. ASSUME NoZero, NEW c \in Cell
        PROVE  \/ result'[c] = lddMap.dir[c]
               \/ /\ is_nodata(lddMap, c) \/ ~InTable(lddMap.dir[c])
                  /\ result'[c] \in {lddMap.nodata, Pit}
    BY <1>2, <1>4, <1>5, <2>1 DEF Unturned
  <2> QED  BY <1>4, <2>1, MapStays DEF Unturned
<1>8. SeenBefore'
  <2>1. ASSUME lddMap.nodata = 0, NEW c \in Cell, result'[c] = 0, ~InTable(lddMap.dir[c]),
               ~Before(c, cursor), c # cursor
        PROVE  \E n \in Cell \ {c} : InTable(result'[n]) /\ getNeighbour(result'[n], n) = c
    <3>1. CASE c = curCell
      <4>1. PICK before \in traversedCells : before # c /\ GoesTo(before, c)
        BY <1>1, <1>4, <2>1, <3>1 DEF WayInv, Passed
      <4> QED  BY <1>5, <3>1, <4>1 DEF GoesTo, RepairTypes
    <3>2. CASE c # curCell
      <4>1. Incoming(c)
        BY <1>4, <1>5, <2>1, <3>2 DEF SeenBefore
      <4>2. PICK n \in Cell \ {c} : GoesTo(n, c)
        BY <4>1 DEF Incoming
      <4>3. n # curCell
        BY <1>1, <4>2 DEF GoesTo
      <4> QED  BY <1>5, <4>2, <4>3 DEF GoesTo
    <3> QED  BY <3>1, <3>2
  <2> QED  BY <1>4, <2>1 DEF SeenBefore, Incoming, GoesTo
<1> QED  BY <1>4, <1>6, <1>7, <1>8 DEF FixInv

LEMMA NodataStep ==
  ASSUME RepairTypes, NodataDrainsNowhere, FixInv, EndInNodata
  PROVE  FixInv'
<1>1. PICK to : to = destCell
  OBVIOUS
<1>2. /\ pc = "flow" /\ LeaveFlow /\ curCell \in Cell /\ curCell \in Passed
      /\ Flows(curCell) /\ to = getNeighbour(result[curCell], curCell)
      /\ to \in Cell /\ result[to] = lddMap.nodata /\ result \in [Cell -> Byte]
  BY <1>1, CopyFields DEF EndInNodata, dir, destCell, RepairTypes, Flows, Passed
<1>3. WayInv /\ RepairInv /\ Unturned
  BY DEF FixInv
<1>4. ~is_nodata(lddMap, curCell) /\ InTable(lddMap.dir[curCell])
  BY <1>2, <1>3, CurrentIsData
<1>5. PICK pit : pit = getNeighbour(lddMap.dir[curCell], curCell)
  OBVIOUS
<1>6. result' = [result EXCEPT ![pit] = Pit]
  BY <1>4, <1>5 DEF EndInNodata, Dug
<1>7. \A c \in Cell : result'[c] = IF c = pit THEN Pit ELSE result[c]
  BY <1>2, <1>6
<1>8. ASSUME NoZero PROVE pit = to /\ (is_nodata(lddMap, to) \/ ~InTable(lddMap.dir[to]))
  <2>1. result[curCell] = lddMap.dir[curCell]
    BY <1>2, <1>3, <1>8, PassedIsOriginal
  <2>2. pit = to
    BY <1>2, <1>5, <2>1
  <2> QED  BY <1>2, <1>3, <1>8, <2>2 DEF Unturned, is_nodata
<1>9. ASSUME AllDrainSomewhere
      PROVE  Onward(lddMap, curCell) \subseteq Passed /\ curCell \notin FlowsOut
  <2>1. NoZero /\ InTable(lddMap.dir[to])
    BY <1>2, <1>9, DrainingMaps
  <2>2. pit = to /\ is_nodata(lddMap, to)
    BY <1>8, <2>1
  <2> QED  BY <1>2, <1>5, <2>2 DEF Onward, FlowsInto, FlowsOut
<1>10. /\ WayInv /\ RepairInv /\ Unturned /\ SeenBefore /\ WayInv' /\ RefusalInv'
       /\ cursor \in Cell /\ lddMap' = lddMap
       /\ \A b \in Cell : Before(b, cursor') <=> Before(b, cursor) \/ b = cursor
  BY <1>2, <1>9, BackToScan
<1>11. pit \notin Sound
  <2> SUFFICES ASSUME pit \in Sound PROVE FALSE
    OBVIOUS
  <2>1. pit \in Cell /\ ~is_nodata(lddMap, pit) /\ Drains(lddMap, pit)
    BY DEF Sound, DataCells
  <2>2. curCell \in Sound
    <3>1. CASE lddMap.dir[curCell] = Pit
      BY <1>2, <1>4, <3>1, PitsDrain DEF Sound, DataCells
    <3>2. CASE lddMap.dir[curCell] # Pit
      <4>1. pit \in Onward(lddMap, curCell)
        BY <1>4, <1>5, <2>1, <3>2 DEF Onward, FlowsInto
      <4>2. Drains(lddMap, curCell)
        BY <1>2, <2>1, <4>1, DrainsThrough
      <4> QED  BY <1>2, <1>4, <4>2 DEF Sound, DataCells
    <3> QED  BY <3>1, <3>2
  <2>3. result[curCell] = lddMap.dir[curCell] /\ result[pit] = lddMap.dir[pit]
    BY <1>3, <2>2 DEF RepairInv
  <2> QED  BY <1>2, <1>5, <2>1, <2>3 DEF is_nodata
<1>12. RepairInv'
  <2>1. ASSUME NEW c \in Sound PROVE result'[c] = lddMap.dir[c]
    <3>1. c \in Cell /\ result[c] = lddMap.dir[c]
      BY <1>3, SoundGoesOn DEF RepairInv
    <3> QED  BY <1>7, <1>11, <3>1
  <2>2. ASSUME NEW c \in Cell, is_nodata(lddMap, c) PROVE result'[c] \in {lddMap.nodata, Pit}
    BY <1>3, <1>7, <2>2 DEF RepairInv
  <2>3. ASSUME NEW c \in Cell, InTable(result'[c]), result'[c] # Pit, result'[c] # lddMap.nodata
        PROVE  InTable(lddMap.dir[c])
    BY <1>3, <1>7, <2>3 DEF RepairInv, Flows
  <2> QED  BY <1>10, <2>1, <2>2, <2>3, MapStays DEF RepairInv, Flows
<1>13. Unturned'
  <2>1. ASSUME NoZero, NEW c \in Cell
        PROVE  \/ result'[c] = lddMap.dir[c]
               \/ /\ is_nodata(lddMap, c) \/ ~InTable(lddMap.dir[c])
                  /\ result'[c] \in {lddMap.nodata, Pit}
    <3>1. CASE c = pit
      BY <1>7, <1>8, <2>1, <3>1
    <3>2. CASE c # pit
      BY <1>3, <1>7, <2>1, <3>2 DEF Unturned
    <3> QED  BY <3>1, <3>2
  <2> QED  BY <1>10, <2>1, MapStays DEF Unturned
<1>14. SeenBefore'
  <2>1. ASSUME lddMap.nodata = 0, NEW c \in Cell, result'[c] = 0, ~InTable(lddMap.dir[c]),
               ~Before(c, cursor), c # cursor
        PROVE  \E n \in Cell \ {c} : InTable(result'[n]) /\ getNeighbour(result'[n], n) = c
    <3>1. c # pit /\ result[c] = 0
      BY <1>7, <2>1 DEF Pit
    <3>2. Incoming(c)
      BY <1>10, <2>1, <3>1 DEF SeenBefore
    <3>3. PICK n \in Cell \ {c} : GoesTo(n, c)
      BY <3>2 DEF Incoming
    <3>4. n # pit
      <4> SUFFICES ASSUME n = pit PROVE FALSE
        OBVIOUS
      <4>1. NoZero
        BY <2>1 DEF NoZero, DataCells, is_nodata
      <4>2. result[n] = 0
        BY <1>2, <1>8, <2>1, <4>1
      <4> QED  BY <3>3, <4>2, StaysPut DEF GoesTo
    <3> QED  BY <1>7, <3>3, <3>4 DEF GoesTo
  <2> QED  BY <1>10, <2>1 DEF SeenBefore, Incoming, GoesTo
<1> QED  BY <1>10, <1>12, <1>13, <1>14 DEF FixInv

LEMMA LoopStep ==
  ASSUME RepairTypes, NodataDrainsNowhere, FixInv, MeetLoop
  PROVE  FixInv'
<1>1. PICK to : to = destCell
  OBVIOUS
<1>2. /\ pc = "flow" /\ Continues /\ LeaveFlow /\ curCell \in Cell /\ curCell \in Passed
      /\ Flows(curCell) /\ to = getNeighbour(result[curCell], curCell)
      /\ to \in Cell /\ to \in Passed /\ BreakLoop(to) /\ result \in [Cell -> Byte]
  BY <1>1 DEF MeetLoop, Continues, dir, destCell, RepairTypes, Flows, Passed
<1>3. WayInv /\ RepairInv /\ Unturned
  BY DEF FixInv
<1>4. to \notin Sound /\ Flows(to)
  BY <1>1, <1>2, <1>3, LoopsAreUnsound
<1>5. ~is_nodata(lddMap, to) /\ InTable(lddMap.dir[to])
  BY <1>2, <1>3, <1>4, CurrentIsData
<1>6. ASSUME AllDrainSomewhere
      PROVE  Onward(lddMap, curCell) \subseteq Passed /\ curCell \notin FlowsOut
  <2>1. NoZero
    BY <1>6, DrainingMaps
  <2>2. result[curCell] = lddMap.dir[curCell]
    BY <1>2, <1>3, <2>1, PassedIsOriginal
  <2> QED  BY <1>2, <2>2 DEF Onward, FlowsInto, FlowsOut
<1>7. /\ WayInv' /\ RefusalInv' /\ lddMap' = lddMap
      /\ UNCHANGED result => RepairInv' /\ Unturned' /\ SeenBefore'
  BY <1>2, <1>6, BackToScan
<1>8. CASE UNCHANGED result
  BY <1>7, <1>8 DEF FixInv
<1>9. CASE ~UNCHANGED result
  <2>1. ~NoZero
    BY <1>3, <1>9, NothingTurned
  <2>2. lddMap.nodata # 0
    BY <2>1 DEF NoZero, DataCells, is_nodata
  <2>3. PICK d \in 1 .. 9 \ {5} : result' = [result EXCEPT ![to] = d]
    BY <1>2, <1>9, LoopBroken
  <2>4. \A c \in Cell : c # to => result'[c] = result[c]
    BY <1>2, <2>3
  <2>5. RepairInv'
    <3>1. ASSUME NEW c \in Sound PROVE result'[c] = lddMap.dir[c]
      <4>1. c \in Cell /\ result[c] = lddMap.dir[c]
        BY <1>3, SoundGoesOn DEF RepairInv
      <4> QED  BY <1>4, <2>4, <4>1
    <3>2. ASSUME NEW c \in Cell, is_nodata(lddMap, c) PROVE result'[c] \in {lddMap.nodata, Pit}
      BY <1>3, <1>5, <2>4, <3>2 DEF RepairInv
    <3>3. ASSUME NEW c \in Cell, InTable(result'[c]), result'[c] # Pit, result'[c] # lddMap.nodata
          PROVE  InTable(lddMap.dir[c])
      BY <1>3, <1>5, <2>4, <3>3 DEF RepairInv, Flows
    <3> QED  BY <1>7, <3>1, <3>2, <3>3, MapStays DEF RepairInv, Flows
  <2>6. Unturned'
    BY <1>7, <2>1, MapStays DEF Unturned
  <2>7. SeenBefore'
    BY <1>7, <2>2 DEF SeenBefore
  <2> QED  BY <1>7, <2>5, <2>6, <2>7 DEF FixInv
<1> QED  BY <1>8, <1>9

LEMMA LeaveStep ==
  ASSUME RepairTypes, NodataDrainsNowhere, FixInv, LeaveMap
  PROVE  FixInv'
<1>1. WayInv /\ RepairInv /\ Unturned /\ SeenBefore /\ RefusalInv
  BY DEF FixInv
<1>2. /\ UNCHANGED <<lddMap, cursor, curCell, traversedCells, result, errors>>
      /\ pc = "flow" /\ pc' = "thrown"
      /\ Flows(curCell) /\ curCell \in Passed /\ curCell \in Cell
      /\ getNeighbour(result[curCell], curCell) \notin Cell
  BY DEF LeaveMap, dir, destCell, walk, RepairTypes, Flows, Passed
<1>3. WayInv'
  BY <1>2 DEF WayInv
<1>4. RepairInv' /\ Unturned'
  BY <1>1, <1>2, MapStays DEF RepairInv, Unturned, Flows
<1>5. result[cursor] = 0 => InTable(lddMap.dir[cursor])
  BY <1>1, <1>2, TableIs DEF WayInv, Flows, Pit
<1>6. SeenBefore'
  BY <1>1, <1>2, <1>5 DEF SeenBefore, Incoming, GoesTo
<1>7. ASSUME AllDrainSomewhere PROVE FlowsOut # {}
  <2>1. NoZero
    BY <1>7, DrainingMaps
  <2>2. ~is_nodata(lddMap, curCell) /\ result[curCell] = lddMap.dir[curCell]
    BY <1>1, <1>2, <2>1, CurrentIsData, PassedIsOriginal
  <2> QED  BY <1>2, <2>2 DEF FlowsOut, DataCells
<1>8. RefusalInv'
  BY <1>2, <1>7, MapStays DEF RefusalInv
<1> QED  BY <1>3, <1>4, <1>6, <1>8 DEF FixInv

LEMMA StillStep ==
  ASSUME RepairTypes, NodataDrainsNowhere, FixInv,
         UNCHANGED <<lddMap, cursor, curCell, traversedCells, result, errors>>,
         pc' = pc \/ (pc = "scan" /\ pc' = "returned")
  PROVE  FixInv'
<1>1. WayInv /\ RepairInv /\ Unturned /\ SeenBefore /\ RefusalInv
  BY DEF FixInv
<1>2. WayInv'
  BY <1>1 DEF WayInv, Passed, Flows, Incoming, GoesTo, is_nodata
<1>3. RepairInv' /\ Unturned'
  BY <1>1, MapStays DEF RepairInv, Unturned, Flows
<1>4. SeenBefore'
  BY <1>1 DEF SeenBefore, Incoming, GoesTo
<1>5. RefusalInv'
  BY <1>1, MapStays DEF RefusalInv
<1> QED  BY <1>2, <1>3, <1>4, <1>5 DEF FixInv

LEMMA FixNext == RepairTypes /\ FixInv /\ [RepairNext]_repairVars => FixInv'
<1> SUFFICES ASSUME RepairTypes, FixInv, [RepairNext]_repairVars, NodataDrainsNowhere' PROVE FixInv'
  BY DEF FixInv
<1>1. CASE UNCHANGED repairVars
  <2>1. NodataDrainsNowhere
    BY <1>1 DEF repairVars, NodataDrainsNowhere
  <2> QED  BY <1>1, <2>1, StillStep DEF repairVars, walk
<1>2. CASE RepairNext
  <2>1. lddMap' = lddMap
    BY <1>2 DEF RepairNext, SkipCell, EnterFlow, FollowFlow, ReachPit, InvalidValue, LeaveMap,
                EndInNodata, MeetLoop, RepairReturn, EndScan, LeaveFlow
  <2>2. NodataDrainsNowhere
    BY <2>1 DEF NodataDrainsNowhere
  <2>3. CASE RepairReturn
    BY <2>2, <2>3, StillStep DEF RepairReturn, EndScan, walk
  <2> QED  BY <1>2, <2>2, <2>3, SkipStep, EnterStep, FollowStep, PitStep, InvalidStep,
              NodataStep, LoopStep, LeaveStep DEF RepairNext
<1> QED  BY <1>1, <1>2

-----------------------------------------------------------------------------
(* Theorems                                                                *)

LEMMA FixInvHolds == RepairSpec => [](RepairTypes /\ FixInv)
<1>1. RepairInit => RepairTypes /\ FixInv
  BY RepairTypesInit, FixInit
<1>2. (RepairTypes /\ FixInv) /\ [RepairNext]_repairVars => (RepairTypes /\ FixInv)'
  BY RepairTypesNext, FixNext
<1> QED  BY <1>1, <1>2, PTL DEF RepairSpec

(* SoundFlowsKept: whatever fix_ldd repairs, and in whatever order it      *)
(* meets the faults, water that came to a pit takes the same way as before *)
(* (accuflux.h:515).                                                       *)
THEOREM SoundFlowsAreKept == RepairSpec => []SoundFlowsKept
<1>1. ASSUME RepairTypes, FixInv PROVE SoundFlowsKept
  <2> SUFFICES ASSUME NodataDrainsNowhere, NEW c \in DataCells(lddMap), Drains(lddMap, c)
               PROVE  Course(copy, c) = Course(lddMap, c)
    BY DEF SoundFlowsKept
  <2>1. RepairInv
    BY <1>1 DEF FixInv
  <2>2. c \in Sound /\ Sound \in SUBSET Cell
    BY DEF Sound, DataCells
  <2>3. ASSUME NEW b \in Sound
        PROVE  Onward(lddMap, b) \subseteq Sound /\ Onward(copy, b) = Onward(lddMap, b)
    <3>1. b \in Cell /\ InTable(lddMap.dir[b]) /\ result[b] = lddMap.dir[b]
      BY <1>1, <2>1, SoundGoesOn DEF RepairInv
    <3>2. CASE lddMap.dir[b] = Pit
      BY <1>1, <3>1, <3>2, CopyFields DEF Onward
    <3>3. CASE lddMap.dir[b] # Pit
      <4>1. PICK d : d = getNeighbour(lddMap.dir[b], b)
        OBVIOUS
      <4>2. d \in Sound /\ Onward(lddMap, b) = {d}
        BY <1>1, <3>3, <4>1, SoundGoesOn
      <4>3. d \in Cell /\ result[d] # lddMap.nodata
        BY <1>1, <2>1, <4>2, SoundGoesOn DEF RepairInv, is_nodata
      <4>4. copy.dir[b] # Pit /\ ~is_nodata(copy, d)
        BY <1>1, <3>1, <3>3, <4>3, CopyFields
      <4>5. \A e : FlowsInto(copy, b, e) <=> e = d
        BY <1>1, <3>1, <4>1, CopyFields DEF GoesTo
      <4> QED  BY <4>2, <4>3, <4>4, <4>5 DEF Onward
    <3> QED  BY <3>2, <3>3
  <2> QED  BY <2>2, <2>3, CourseSame
<1> QED  BY <1>1, FixInvHolds, PTL

(* FlowsOutRefused: a map all of whose cells drain somewhere is refused if *)
(* a flow leaves it, and only then (accuflux.h:531).                       *)
THEOREM FlowsOutAreRefused == RepairSpec => []FlowsOutRefused
<1>1. ASSUME RepairTypes, FixInv PROVE FlowsOutRefused
  <2> SUFFICES ASSUME NodataDrainsNowhere, AllDrainSomewhere
               PROVE  (pc = "thrown" => FlowsOut # {}) /\ (pc = "returned" => FlowsOut = {})
    BY DEF FlowsOutRefused, AllDrainSomewhere, FlowsOut
  <2>1. RefusalInv
    BY <1>1 DEF FixInv
  <2>2. pc = "thrown" => FlowsOut # {}
    BY <2>1 DEF RefusalInv
  <2>3. ASSUME pc = "returned", NEW c \in FlowsOut PROVE FALSE
    <3>1. \A s \in Cell : Before(s, cursor)
      BY <1>1, <2>3 DEF RepairTypes, PastEnd, Before, Cell
    <3>2. \A s \in Cell : Spring(s) => ~Reaches(lddMap, s, c)
      BY <2>1, <2>3, <3>1 DEF RefusalInv
    <3>3. c \in Cell /\ ~is_nodata(lddMap, c) /\ getNeighbour(lddMap.dir[c], c) \notin Cell
      BY DEF FlowsOut, DataCells
    <3>4. \E w \in Cell : Onward(lddMap, c) = {w} /\ Reaches(lddMap, w, c)
      BY <3>2, <3>3, SourceOrLoop DEF Spring, NodataDrainsNowhere
    <3>5. PICK w \in Cell : Onward(lddMap, c) = {w}
      BY <3>4
    <3> QED  BY <3>3, <3>5, OnwardSingle
  <2> QED  BY <2>2, <2>3
<1> QED  BY <1>1, FixInvHolds, PTL

-----------------------------------------------------------------------------
(* slope_length and catchment                                              *)


FrameType == [cell : Cell, neighbours : Seq(Cell), slopeLength : Int,
              isNonNan : BOOLEAN, isNan : BOOLEAN]

EntryType == [cell : Cell, id : SUBSET Number]

Types ==
  /\ call \in Calls
  /\ pc \in {"scan", "upstream", "returned", "overflow"}
  /\ cursor \in (0 .. Rows) \X (0 .. Cols - 1)
  /\ calculated \in SUBSET Cell
  /\ frames \in Seq(FrameType)
  /\ upstream \in Seq(EntryType)
  /\ result \in [Cell -> Number]
  /\ pc \in {"scan", "returned"} => frames = <<>> /\ upstream = <<>>
  /\ pc = "returned" => PastEnd(cursor)
  /\ call.op = "catchment" => pc # "overflow" /\ frames = <<>>
  /\ call.op = "slope_length" => upstream = <<>>

Known == DataCells(known)

(* The cells whose water comes to a cell next, and those of them over      *)
(* which its length is known.                                              *)
Into(c) == {n \in DataCells(call.ldd) \ {c} : FlowsInto(call.ldd, n, c)}

Above(c) == {n \in Known : c \in Onward(known, n)}

-----------------------------------------------------------------------------
(* What is known of slope_length                                           *)

(* A cell comes after all that flows into it, so that there is no circle   *)
(* among the cells that have their length.                                 *)
OrderInv ==
  /\ \A c \in calculated \cap Known : Above(c) \subseteq calculated
  /\ \A S \in SUBSET (calculated \cap Known) : S # {} =>
       /\ \E c \in S : Onward(known, c) \cap S = {}
       /\ \E c \in S : Above(c) \cap S = {}

ScanInv ==
  \A c \in Cell : Before(c, cursor) =>
    c \in calculated \/ (frames # <<>> /\ c = frames[1].cell)

Waiting(i) == Range(frames[i].neighbours)

(* The calls lead up the drains: each waits for the next one.              *)
FramesInv ==
  \A i \in 1 .. Len(frames) :
    /\ frames[i].cell \in Known \ calculated
    /\ Waiting(i) \subseteq Into(frames[i].cell)
    /\ Into(frames[i].cell) \subseteq Waiting(i) \cup calculated
    /\ i < Len(frames) => /\ frames[i].neighbours # <<>>
                          /\ Head(frames[i].neighbours) = frames[i + 1].cell

(* Water from a call's cell comes down the calls below.                    *)
StepsDown ==
  \A i \in 1 .. Len(frames) : \A k \in 0 .. i - 1 :
    k <= Rows * Cols => Course(known, frames[i].cell)[k] = {frames[i - k].cell}

ChainInv ==
  /\ StepsDown
  /\ pc = "overflow" => \E c \in Known : Circles(c)
  /\ Len(frames) <= MaxDepth

(* What a neighbour adds to the length. *)
Through(n, c) == Plus(result[n], WayDown(n, c))

(* The longest of the neighbours' lengths, if one of them is known.        *)
LongestOf(length, c, D) ==
  /\ length >= 0
  /\ \A n \in D : Through(n, c) = NoData \/ Through(n, c) <= length
  /\ IF \E n \in D : Through(n, c) # NoData THEN \E n \in D : Through(n, c) = length
     ELSE length = 0

NoNegativeFriction == \A c \in Cell : friction[c] = NoData \/ friction[c] >= 0

LengthIs(c) ==
  IF Into(c) # {} /\ \A n \in Into(c) : Through(n, c) = NoData THEN result[c] = NoData
  ELSE result[c] \in Int /\ LongestOf(result[c], c, Into(c))

LengthInv ==
  /\ \A c \in calculated \ Known : result[c] = NoData
  /\ NoNegativeFriction => \A c \in calculated \cap Known : LengthIs(c)

Gathered(f, D) ==
  /\ LongestOf(f.slopeLength, f.cell, D)
  /\ f.isNonNan <=> \E n \in D : Through(n, f.cell) # NoData
  /\ f.isNan <=> \E n \in D : Through(n, f.cell) = NoData

GatherInv ==
  NoNegativeFriction =>
    \A i \in 1 .. Len(frames) :
      \E D \in SUBSET calculated : /\ Into(frames[i].cell) = D \cup Waiting(i)
                                   /\ Gathered(frames[i], D)

SlopeInv ==
  call.op = "slope_length" =>
    OrderInv /\ ScanInv /\ FramesInv /\ ChainInv /\ LengthInv /\ GatherInv

-----------------------------------------------------------------------------
(* What is known of catchment                                              *)

Data == DataCells(call.ldd)

(* The stations passed by the water of a cell, and the id of the last one. *)
PassedAt(c) ==
  {n \in 0 .. Rows * Cols : \E s \in Course(call.ldd, c)[n] : StationAt(s)}

LastPassed(c) == CHOOSE n \in PassedAt(c) : \A k \in PassedAt(c) : k <= n

IdFrom(c) ==
  IF PassedAt(c) = {} THEN None ELSE {station[s] : s \in Course(call.ldd, c)[LastPassed(c)]}

Labelled == {c \in Data : call.ldd.dir[c] # Pit /\ Drains(call.ldd, c)}

Answer(c) == IF IdFrom(c) = None THEN 0 ELSE CHOOSE i \in IdFrom(c) : TRUE

(* An entry of the stack carries what its cell gets from further down.     *)
EntryInv ==
  \A entry \in Range(upstream) :
    /\ entry.cell \in Labelled
    /\ \A d \in Onward(call.ldd, entry.cell) : entry.id = IdFrom(d)

(* A cell has its answer, or its water passes a cell on the stack, or a    *)
(* pit that the scan has not come to.                                      *)
AnswerInv ==
  /\ \A c \in Data \ Labelled : result[c] = 0
  /\ \A c \in Labelled : result[c] \in {0, Answer(c)}
  /\ \A c \in Labelled :
       \/ result[c] = Answer(c)
       \/ \E entry \in Range(upstream) : Reaches(call.ldd, c, entry.cell)
       \/ \E p \in Data : /\ call.ldd.dir[p] = Pit /\ ~Before(p, cursor)
                          /\ Reaches(call.ldd, c, p)

CatchmentInv == call.op = "catchment" => EntryInv /\ AnswerInv

-----------------------------------------------------------------------------
(* Where water goes                                                        *)

(* Water of the next cell is a step ahead. *)
LEMMA CourseShift ==
  ASSUME NEW map, NEW a \in Cell, NEW b \in Cell, Onward(map, a) = {b}
  PROVE  \A k \in 1 .. Rows * Cols : Course(map, a)[k] = Course(map, b)[k - 1]
<1> DEFINE N == Rows * Cols
           Bad == {k \in 1 .. N : Course(map, a)[k] # Course(map, b)[k - 1]}
<1>1. N \in Nat
  BY GridAssumption
<1>2. SUFFICES ASSUME Bad # {} PROVE FALSE
  BY DEF Bad
<1>3. PICK k \in Bad : \A j \in Bad : k <= j
  <2>1. Bad \in SUBSET Nat
    BY <1>1
  <2> HIDE DEF Bad
  <2> QED  BY <1>2, <2>1, LeastNatural
<1>4. k \in 1 .. N /\ Course(map, a)[k] # Course(map, b)[k - 1]
  OBVIOUS
<1>5. /\ \A n \in 1 .. N : Course(map, a)[n] = UNION {Onward(map, c) : c \in Course(map, a)[n - 1]}
      /\ \A n \in 1 .. N : Course(map, b)[n] = UNION {Onward(map, c) : c \in Course(map, b)[n - 1]}
      /\ Course(map, a)[0] = {a} /\ Course(map, b)[0] = {b}
  BY CourseDef
<1>6. CASE k = 1
  <2>1. Course(map, a)[1] = {b}
    BY <1>4, <1>5, <1>6
  <2> QED  BY <1>4, <1>5, <1>6, <2>1
<1>7. CASE k # 1
  <2>1. k - 1 \in 1 .. N /\ k - 1 < k
    BY <1>1, <1>4, <1>7
  <2>2. Course(map, a)[k - 1] = Course(map, b)[k - 1 - 1]
    <3>1. k - 1 \notin Bad
      BY <1>3, <2>1, <1>4
    <3> QED  BY <2>1, <3>1
  <2> QED  BY <1>4, <1>5, <2>1, <2>2
<1> QED  BY <1>6, <1>7

(* Water that has ended does not appear again. *)
LEMMA CourseEnded ==
  ASSUME NEW map, NEW a \in Cell, NEW n \in 0 .. Rows * Cols, Course(map, a)[n] = {}
  PROVE  \A k \in n .. Rows * Cols : Course(map, a)[k] = {}
<1> DEFINE N == Rows * Cols
           Bad == {k \in n .. N : Course(map, a)[k] # {}}
<1>1. N \in Nat
  BY GridAssumption
<1>2. SUFFICES ASSUME Bad # {} PROVE FALSE
  BY DEF Bad
<1>3. PICK k \in Bad : \A j \in Bad : k <= j
  <2>1. Bad \in SUBSET Nat
    BY <1>1
  <2> HIDE DEF Bad
  <2> QED  BY <1>2, <2>1, LeastNatural
<1>4. k \in n .. N /\ Course(map, a)[k] # {} /\ k # n
  OBVIOUS
<1>5. k - 1 \in n .. N /\ k - 1 < k /\ k \in 1 .. N
  BY <1>1, <1>4
<1>6. Course(map, a)[k - 1] = {}
  <2>1. k - 1 \notin Bad
    BY <1>3, <1>4, <1>5
  <2> QED  BY <1>5, <2>1
<1>7. Course(map, a)[k] = UNION {Onward(map, c) : c \in Course(map, a)[k - 1]}
  BY <1>5, CourseDef
<1> QED  BY <1>4, <1>6, <1>7

LEMMA CourseIn ==
  ASSUME NEW map, NEW a \in Cell, NEW n \in 0 .. Rows * Cols
  PROVE  Course(map, a)[n] \in SUBSET Cell
<1>1. PICK f : f = Course(map, a)
  OBVIOUS
<1>2. f \in [0 .. Rows * Cols -> SUBSET Cell]
  BY <1>1, CourseDef
<1>3. f[n] \in SUBSET Cell
  BY Zenon, <1>2
<1> QED  BY <1>1, <1>3

(* Water is in one place at a time. *)
LEMMA CourseSingle ==
  ASSUME NEW map, NEW a \in Cell, NEW n \in 0 .. Rows * Cols, NEW x \in Course(map, a)[n]
  PROVE  Course(map, a)[n] = {x} /\ x \in Cell
<1> DEFINE N == Rows * Cols
           Bad == {k \in 0 .. N : \E y, z \in Course(map, a)[k] : y # z}
<1>1. N \in Nat
  BY GridAssumption
<1>2. Bad = {}
  <2> SUFFICES ASSUME Bad # {} PROVE FALSE
    OBVIOUS
  <2>1. PICK k \in Bad : \A j \in Bad : k <= j
    <3>1. Bad \in SUBSET Nat
      BY <1>1
    <3> HIDE DEF Bad
    <3> QED  BY <3>1, LeastNatural
  <2>2. PICK y, z : y \in Course(map, a)[k] /\ z \in Course(map, a)[k] /\ y # z
    BY <2>1
  <2>3. k # 0
    BY <2>2, CourseDef
  <2>4. k - 1 \in 0 .. N /\ k \in 1 .. N /\ k - 1 < k
    BY <1>1, <2>1, <2>3
  <2>5. k - 1 \notin Bad
    BY <2>1, <2>4
  <2>6. /\ Course(map, a)[k] = UNION {Onward(map, c) : c \in Course(map, a)[k - 1]}
        /\ Course(map, a)[k - 1] \in SUBSET Cell
    BY <2>4, CourseDef, CourseIn
  <2>7. PICK c, d : /\ c \in Course(map, a)[k - 1] /\ y \in Onward(map, c)
                    /\ d \in Course(map, a)[k - 1] /\ z \in Onward(map, d)
    BY <2>2, <2>6
  <2>8. c = d /\ c \in Cell
    BY <2>4, <2>5, <2>6, <2>7
  <2> QED  BY <2>2, <2>7, <2>8, OnwardSingle
<1>3. Course(map, a)[n] \in SUBSET Cell
  BY CourseIn
<1> QED  BY <1>2, <1>3

(* Water that drains has come to its pit before the last step. *)
LEMMA DrainedAtLast ==
  ASSUME NEW map, NEW a \in Cell, Drains(map, a)
  PROVE  Course(map, a)[Rows * Cols] = {}
<1>1. PICK seen, c : /\ OnTheWay(map, a, seen, c) /\ Onward(map, c) \subseteq seen \cup {c}
  <2>1. \E seen, c : /\ OnTheWay(map, a, seen, c)
                     /\ Onward(map, c) \subseteq seen \cup {c}
                     /\ \A b \in seen : a \notin Onward(map, b)
    BY Zenon, WholeWay
  <2> QED  BY Zenon, <2>1
<1>2. map.dir[c] = Pit
  BY <1>1, WayIsBlocked
<1>3. /\ Course(map, a)[Cardinality(seen)] = {c} /\ c \in Cell \ seen /\ seen \subseteq Cell
  BY <1>1 DEF OnTheWay
<1>4. Cardinality(seen) + 1 \in 1 .. Rows * Cols /\ Cardinality(seen) \in 0 .. Rows * Cols
  BY <1>3, SeenBound
<1>5. Rows * Cols \in Nat
  BY GridAssumption
<1>6. Onward(map, c) = {}
  BY <1>2 DEF Onward
<1>7. Course(map, a)[Cardinality(seen) + 1] = {}
  <2>1. PICK n \in 1 .. Rows * Cols : n = Cardinality(seen) + 1
    BY <1>4
  <2>2. n - 1 = Cardinality(seen)
    BY <1>4, <2>1
  <2>3. Course(map, a)[n] = UNION {Onward(map, d) : d \in Course(map, a)[n - 1]}
    BY CourseDef
  <2> QED  BY <1>3, <1>6, <2>1, <2>2, <2>3
<1>8. Rows * Cols \in Cardinality(seen) + 1 .. Rows * Cols /\ Cardinality(seen) + 1 \in 0 .. Rows * Cols
  BY <1>4, <1>5
<1> QED  BY <1>7, <1>8, CourseEnded

(* Two places on the way that are the same cell. *)
LEMMA ComesBack ==
  ASSUME NEW map, NEW a \in Cell, Course(map, a)[Rows * Cols] # {}
  PROVE  \E i, j \in 0 .. Rows * Cols : i < j /\ Course(map, a)[i] = Course(map, a)[j]
<1> DEFINE N == Rows * Cols
<1>1. N \in Nat \ {0}
  BY GridAssumption
<1>2. \A k \in 0 .. N : \E x \in Cell : Course(map, a)[k] = {x}
  <2> SUFFICES ASSUME NEW k \in 0 .. N PROVE \E x \in Cell : Course(map, a)[k] = {x}
    OBVIOUS
  <2>1. Course(map, a)[k] # {}
    BY <1>1, CourseEnded
  <2> QED  BY <2>1, CourseSingle
<1> HIDE DEF N
<1>3. SUFFICES ASSUME \A i, j \in 0 .. N : i < j => Course(map, a)[i] # Course(map, a)[j]
               PROVE  FALSE
  BY DEF N
<1>4. DEFINE s == [k \in 1 .. N |-> CHOOSE x \in Cell : Course(map, a)[k] = {x}]
<1>5. \A k \in 1 .. N : s[k] \in Cell /\ Course(map, a)[k] = {s[k]}
  <2> TAKE k \in 1 .. N
  <2>1. \E x \in Cell : Course(map, a)[k] = {x}
    BY <1>1, <1>2
  <2> QED  BY <2>1
<1>6. s \in Seq(Cell) /\ Len(s) = N /\ DOMAIN s = 1 .. N
  BY <1>1, <1>5
<1> HIDE DEF s
<1>7. \A i, j \in 1 .. Len(s) : s[i] = s[j] => i = j
  <2> SUFFICES ASSUME NEW i \in 1 .. N, NEW j \in 1 .. N, s[i] = s[j], i # j PROVE FALSE
    BY <1>6
  <2>1. Course(map, a)[i] = Course(map, a)[j]
    BY <1>5
  <2>2. i < j \/ j < i
    BY <1>1
  <2> QED  BY <1>1, <1>3, <2>1, <2>2
<1>8. a \notin Range(s)
  <2> SUFFICES ASSUME NEW k \in 1 .. N, a = s[k] PROVE FALSE
    BY <1>6 DEF Range
  <2>0. Course(map, a)[k] = {s[k]}
    BY <1>5
  <2>1. Course(map, a)[0] = {a}
    BY CourseDef
  <2>2. Course(map, a)[0] = Course(map, a)[k]
    BY Zenon, <2>0, <2>1
  <2> QED  BY <1>1, <1>3, <2>2
<1>9. Len(s) < Cardinality(Cell)
  BY <1>6, <1>7, <1>8, CellsFinite, DistinctIsShort
<1> QED  BY <1>1, <1>6, <1>9, CellsFinite DEF N

(* Water stays among cells that only drain into each other.                *)
LEMMA CourseWithin ==
  ASSUME NEW map, NEW T \in SUBSET Cell, NEW a \in T,
         \A c \in T : Onward(map, c) \subseteq T
  PROVE  \A k \in 0 .. Rows * Cols : Course(map, a)[k] \subseteq T
<1> DEFINE N == Rows * Cols
           Bad == {k \in 0 .. N : ~(Course(map, a)[k] \subseteq T)}
<1>1. N \in Nat
  BY GridAssumption
<1>2. SUFFICES ASSUME Bad # {} PROVE FALSE
  OBVIOUS
<1>3. PICK k \in Bad : \A m \in Bad : k <= m
  <2>1. Bad \in SUBSET Nat
    BY <1>1
  <2> HIDE DEF Bad
  <2> QED  BY <1>2, <2>1, LeastNatural
<1>4. k # 0
  BY <1>3, CourseDef
<1>5. k - 1 \in 0 .. N /\ k \in 1 .. N /\ k - 1 < k
  BY <1>1, <1>3, <1>4
<1>6. k - 1 \notin Bad
  BY <1>3, <1>5
<1>7. Course(map, a)[k] = UNION {Onward(map, c) : c \in Course(map, a)[k - 1]}
  BY <1>5, CourseDef
<1> QED  BY <1>3, <1>5, <1>6, <1>7

(* Water that does not end goes round among cells that it has come to.     *)
LEMMA CircleOfCells ==
  ASSUME NEW map, NEW T \in SUBSET Cell, NEW a \in T,
         \A c \in T : Onward(map, c) \subseteq T,
         Course(map, a)[Rows * Cols] # {}
  PROVE  \E S \in SUBSET T : S # {} /\ \A c \in S : Onward(map, c) \cap S # {}
<1> DEFINE N == Rows * Cols
<1>1. N \in Nat \ {0}
  BY GridAssumption
<1>2. PICK i, j \in 0 .. N : i < j /\ Course(map, a)[i] = Course(map, a)[j]
  BY ComesBack
<1>3. \A k \in 0 .. N : Course(map, a)[k] \subseteq T /\ Course(map, a)[k] # {}
  <2>1. \A k \in 0 .. N : Course(map, a)[k] \subseteq T
    BY CourseWithin
  <2>2. \A k \in 0 .. N : Course(map, a)[k] # {}
    BY <1>1, CourseEnded
  <2> QED  BY <2>1, <2>2
<1> DEFINE S == UNION {Course(map, a)[k] : k \in i .. j - 1}
<1>4. S \in SUBSET T /\ S # {}
  <2>1. i \in i .. j - 1 /\ i .. j - 1 \subseteq 0 .. N
    BY <1>1, <1>2
  <2> QED  BY <1>3, <2>1
<1>5. ASSUME NEW c \in S PROVE Onward(map, c) \cap S # {}
  <2>1. PICK k \in i .. j - 1 : c \in Course(map, a)[k]
    OBVIOUS
  <2>2. k \in 0 .. N /\ k + 1 \in 1 .. N /\ (k + 1) - 1 = k
    BY <1>1, <1>2
  <2>3. Course(map, a)[k] = {c} /\ c \in Cell
    BY <2>1, <2>2, CourseSingle
  <2>4. Course(map, a)[k + 1] = Onward(map, c)
    <3>1. PICK m \in 1 .. N : m = k + 1 /\ m - 1 = k
      BY <2>2
    <3>2. Course(map, a)[m] = UNION {Onward(map, d) : d \in Course(map, a)[m - 1]}
      BY CourseDef
    <3> QED  BY <2>3, <3>1, <3>2
  <2>5. Onward(map, c) # {}
    BY <1>3, <2>2, <2>4
  <2>6. Onward(map, c) \subseteq S
    <3>1. CASE k + 1 \in i .. j - 1
      BY <2>4, <3>1
    <3>2. CASE k + 1 \notin i .. j - 1
      <4>1. k + 1 = j /\ i \in i .. j - 1
        BY <1>1, <1>2, <3>2
      <4> QED  BY <1>2, <2>4, <4>1
    <3> QED  BY <3>1, <3>2
  <2> QED  BY <2>5, <2>6
<1> HIDE DEF S
<1> QED  BY <1>4, <1>5

-----------------------------------------------------------------------------
(* Inflow                                                                  *)

LEMMA CallFields ==
  ASSUME call \in Calls
  PROVE  /\ call.op \in {"slope_length", "catchment"}
         /\ call.ldd \in LddMap /\ call.ldd.nodata \notin 1 .. 9
         /\ call.layer \in [Cell -> Number]
         /\ \A c \in DataCells(call.ldd) : c \in Cell /\ InTable(call.ldd.dir[c])
<1>1. call \in CallType
  BY LddUpstreamAssumption
<1> QED  BY <1>1, LddUpstreamAssumption DEF CallType, DataCells

LEMMA OffsetsOf ==
  /\ lookupOffsets[1] = <<1, -1>> /\ lookupOffsets[2] = <<1, 0>> /\ lookupOffsets[3] = <<1, 1>>
  /\ lookupOffsets[4] = <<0, -1>> /\ lookupOffsets[6] = <<0, 1>>
  /\ lookupOffsets[7] = <<-1, -1>> /\ lookupOffsets[8] = <<-1, 0>> /\ lookupOffsets[9] = <<-1, 1>>
  /\ lookupOffsets[0] = <<0, 0>> /\ lookupOffsets[5] = <<0, 0>>
BY DEF lookupOffsets

(* The neighbour that points here lies in the opposite direction.          *)
LEMMA Opposite ==
  ASSUME NEW c \in Cell, NEW n \in Cell, NEW d \in 1 .. 9 \ {5}, getNeighbour(d, n) = c
  PROVE  n = getNeighbour(10 - d, c)
<1>1. /\ c = <<c[1], c[2]>> /\ c[1] \in Int /\ c[2] \in Int
      /\ n = <<n[1], n[2]>> /\ n[1] \in Int /\ n[2] \in Int
  BY GridAssumption DEF Cell
<1>2. /\ lookupOffsets[10 - d][1] = -lookupOffsets[d][1]
      /\ lookupOffsets[10 - d][2] = -lookupOffsets[d][2]
      /\ lookupOffsets[d][1] \in Int /\ lookupOffsets[d][2] \in Int
  <2>1. d \in {1, 2, 3, 4, 6, 7, 8, 9}
    OBVIOUS
  <2> QED  BY <2>1, OffsetsOf
<1>3. c[1] = n[1] + lookupOffsets[d][1] /\ c[2] = n[2] + lookupOffsets[d][2]
  BY <1>1 DEF getNeighbour
<1>4. n[1] = c[1] + lookupOffsets[10 - d][1] /\ n[2] = c[2] + lookupOffsets[10 - d][2]
  BY <1>1, <1>2, <1>3
<1> QED  BY <1>1, <1>4 DEF getNeighbour

LEMMA NeighbourDiffers ==
  ASSUME NEW c \in Cell, NEW d \in {1, 2, 3, 4, 6, 7, 8, 9}
  PROVE  getNeighbour(d, c) # c
<1>1. /\ c = <<c[1], c[2]>> /\ c[1] \in Int /\ c[2] \in Int
  BY GridAssumption DEF Cell
<1>2. /\ lookupOffsets[d][1] \in Int /\ lookupOffsets[d][2] \in Int
      /\ lookupOffsets[d][1] # 0 \/ lookupOffsets[d][2] # 0
  BY OffsetsOf
<1> QED  BY <1>1, <1>2 DEF getNeighbour

LEMMA StaysHere ==
  ASSUME NEW c \in Cell
  PROVE  getNeighbour(0, c) = c /\ getNeighbour(5, c) = c
<1>1. /\ c = <<c[1], c[2]>> /\ c[1] \in Int /\ c[2] \in Int
  BY GridAssumption DEF Cell
<1> QED  BY <1>1, OffsetsOf DEF getNeighbour

LEMMA IfInflowIs ==
  ASSUME NEW c \in Cell, NEW map \in SUBSET Cell, NEW d
  PROVE  /\ IfInflow(c, d, map) \in Seq(Cell)
         /\ Range(IfInflow(c, d, map))
              = {n \in map : n = getNeighbour(d, c) /\ FlowsInto(call.ldd, n, c)}
<1>1. CASE getNeighbour(d, c) \in map /\ FlowsInto(call.ldd, getNeighbour(d, c), c)
  <2>1. PICK n \in Cell : n = getNeighbour(d, c)
    BY <1>1
  <2>2. IfInflow(c, d, map) = <<n>>
    BY <1>1, <2>1 DEF IfInflow
  <2>3. Range(<<n>>) = {n} /\ <<n>> \in Seq(Cell)
    BY DEF Range
  <2> QED  BY <1>1, <2>1, <2>2, <2>3
<1>2. CASE ~(getNeighbour(d, c) \in map /\ FlowsInto(call.ldd, getNeighbour(d, c), c))
  <2>1. IfInflow(c, d, map) = <<>>
    BY <1>2 DEF IfInflow
  <2>2. Range(<<>>) = {} /\ <<>> \in Seq(Cell)
    BY DEF Range
  <2> QED  BY <1>2, <2>1, <2>2
<1> QED  BY <1>1, <1>2

(* The eight directions find what flows into a cell.                       *)
LEMMA EightDirections ==
  ASSUME NEW c \in Cell, NEW n \in Cell
  PROVE  n # c /\ FlowsInto(call.ldd, n, c)
           <=> /\ \E d \in {1, 2, 3, 4, 6, 7, 8, 9} : n = getNeighbour(d, c)
               /\ FlowsInto(call.ldd, n, c)
<1>1. ASSUME n # c, FlowsInto(call.ldd, n, c)
      PROVE  \E d \in {1, 2, 3, 4, 6, 7, 8, 9} : n = getNeighbour(d, c)
  <2>1. call.ldd.dir[n] \in 0 .. 9 /\ getNeighbour(call.ldd.dir[n], n) = c
    BY <1>1 DEF FlowsInto, InTable, lookupOffsets
  <2>2. call.ldd.dir[n] \in 1 .. 9 \ {5}
    BY <1>1, <2>1, StaysHere
  <2>3. PICK d \in 1 .. 9 \ {5} : d = call.ldd.dir[n]
    BY <2>2
  <2>4. n = getNeighbour(10 - d, c)
    BY <2>1, <2>3, Opposite
  <2>5. 10 - d \in {1, 2, 3, 4, 6, 7, 8, 9}
    OBVIOUS
  <2> QED  BY <2>4, <2>5
<1> QED  BY <1>1, NeighbourDiffers

LEMMA InflowIs ==
  ASSUME NEW c \in Cell
  PROVE  /\ InflowFromBottom(c) \in Seq(Cell) /\ Range(InflowFromBottom(c)) = Into(c)
         /\ InflowFromTop(c) \in Seq(Cell)
         /\ Range(InflowFromTop(c)) = {n \in Cell \ {c} : FlowsInto(call.ldd, n, c)}
<1> DEFINE If(d, map) == IfInflow(c, d, map)
<1>1. DataCells(call.ldd) \in SUBSET Cell /\ Cell \in SUBSET Cell
  BY DEF DataCells
<1>2. \A map \in SUBSET Cell : \A d :
        /\ If(d, map) \in Seq(Cell)
        /\ Range(If(d, map)) = {n \in map : n = getNeighbour(d, c) /\ FlowsInto(call.ldd, n, c)}
  BY IfInflowIs
<1>3. InflowFromBottom(c) = LET If2(d) == If(d, DataCells(call.ldd))
                            IN (If2(1) \o If2(2) \o If2(3) \o If2(4)) \o (If2(6) \o If2(7) \o If2(8) \o If2(9))
  BY Zenon DEF InflowFromBottom
<1>4. InflowFromTop(c) = LET If2(d) == If(d, Cell)
                         IN (If2(7) \o If2(8) \o If2(9) \o If2(4)) \o (If2(6) \o If2(1) \o If2(2) \o If2(3))
  BY Zenon DEF InflowFromTop
<1> HIDE DEF If
<1>5. ASSUME NEW map \in SUBSET Cell
      PROVE  UNION {Range(If(d, map)) : d \in {1, 2, 3, 4, 6, 7, 8, 9}}
               = {n \in map \ {c} : FlowsInto(call.ldd, n, c)}
  <2>1. \A n \in map : (\E d \in {1, 2, 3, 4, 6, 7, 8, 9} : n \in Range(If(d, map)))
                         <=> n # c /\ FlowsInto(call.ldd, n, c)
    <3> TAKE n \in map
    <3>1. \A d : n \in Range(If(d, map)) <=> n = getNeighbour(d, c) /\ FlowsInto(call.ldd, n, c)
      BY <1>2
    <3> QED  BY Zenon, <3>1, EightDirections, <1>5
  <2>2. \A d : Range(If(d, map)) \subseteq map
    BY <1>2
  <2> QED  BY Zenon, <2>1, <2>2
<1>6. /\ InflowFromBottom(c) \in Seq(Cell)
      /\ Range(InflowFromBottom(c))
           = UNION {Range(If(d, DataCells(call.ldd))) : d \in {1, 2, 3, 4, 6, 7, 8, 9}}
  <2>1. PICK m \in SUBSET Cell : m = DataCells(call.ldd)
    BY <1>1
  <2>2. \A d : If(d, m) \in Seq(Cell)
    BY <1>2
  <2>3. /\ (If(1, m) \o If(2, m) \o If(3, m) \o If(4, m)) \o (If(6, m) \o If(7, m) \o If(8, m) \o If(9, m)) \in Seq(Cell)
        /\ Range((If(1, m) \o If(2, m) \o If(3, m) \o If(4, m)) \o (If(6, m) \o If(7, m) \o If(8, m) \o If(9, m)))
             = Range(If(1, m)) \cup Range(If(2, m)) \cup Range(If(3, m)) \cup Range(If(4, m))
                 \cup Range(If(6, m)) \cup Range(If(7, m)) \cup Range(If(8, m)) \cup Range(If(9, m))
    <3>1. PICK b1, b2, b3, b4, b5, b6, b7, b8 :
            /\ b1 = If(1, m) /\ b2 = If(2, m)
            /\ b3 = If(3, m) /\ b4 = If(4, m)
            /\ b5 = If(6, m) /\ b6 = If(7, m)
            /\ b7 = If(8, m) /\ b8 = If(9, m)
      OBVIOUS
    <3>2. /\ b1 \in Seq(Cell) /\ b2 \in Seq(Cell) /\ b3 \in Seq(Cell) /\ b4 \in Seq(Cell)
          /\ b5 \in Seq(Cell) /\ b6 \in Seq(Cell) /\ b7 \in Seq(Cell) /\ b8 \in Seq(Cell)
      BY <2>2, <3>1
    <3>3. /\ (b1 \o b2 \o b3 \o b4) \o (b5 \o b6 \o b7 \o b8) \in Seq(Cell)
          /\ Range((b1 \o b2 \o b3 \o b4) \o (b5 \o b6 \o b7 \o b8))
               = Range(b1) \cup Range(b2) \cup Range(b3) \cup Range(b4)
                   \cup Range(b5) \cup Range(b6) \cup Range(b7) \cup Range(b8)
      <4> DEFINE l == b1 \o b2 \o b3 \o b4
                 r == b5 \o b6 \o b7 \o b8
      <4>1. l \in Seq(Cell) /\ Range(l) = Range(b1) \cup Range(b2) \cup Range(b3) \cup Range(b4)
        BY <3>2, RangeConcatFour
      <4>2. r \in Seq(Cell) /\ Range(r) = Range(b5) \cup Range(b6) \cup Range(b7) \cup Range(b8)
        BY <3>2, RangeConcatFour
      <4> HIDE DEF l, r
      <4>3. l \o r \in Seq(Cell) /\ Range(l \o r) = Range(l) \cup Range(r)
        BY <4>1, <4>2, RangeConcat
      <4>4. /\ l \o r \in Seq(Cell)
            /\ Range(l \o r) = Range(b1) \cup Range(b2) \cup Range(b3) \cup Range(b4)
                  \cup Range(b5) \cup Range(b6) \cup Range(b7) \cup Range(b8)
        BY <4>1, <4>2, <4>3
      <4> QED  BY <4>4 DEF l, r
    <3> QED  BY Zenon, <3>1, <3>3
  <2> QED  BY <1>3, <2>1, <2>3
<1>7. /\ InflowFromTop(c) \in Seq(Cell)
      /\ Range(InflowFromTop(c))
           = UNION {Range(If(d, Cell)) : d \in {1, 2, 3, 4, 6, 7, 8, 9}}
  <2>1. PICK m \in SUBSET Cell : m = Cell
    BY <1>1
  <2>2. \A d : If(d, m) \in Seq(Cell)
    BY <1>2
  <2>3. /\ (If(7, m) \o If(8, m) \o If(9, m) \o If(4, m)) \o (If(6, m) \o If(1, m) \o If(2, m) \o If(3, m)) \in Seq(Cell)
        /\ Range((If(7, m) \o If(8, m) \o If(9, m) \o If(4, m)) \o (If(6, m) \o If(1, m) \o If(2, m) \o If(3, m)))
             = Range(If(7, m)) \cup Range(If(8, m)) \cup Range(If(9, m)) \cup Range(If(4, m))
                 \cup Range(If(6, m)) \cup Range(If(1, m)) \cup Range(If(2, m)) \cup Range(If(3, m))
    <3>1. PICK b1, b2, b3, b4, b5, b6, b7, b8 :
            /\ b1 = If(7, m) /\ b2 = If(8, m)
            /\ b3 = If(9, m) /\ b4 = If(4, m)
            /\ b5 = If(6, m) /\ b6 = If(1, m)
            /\ b7 = If(2, m) /\ b8 = If(3, m)
      OBVIOUS
    <3>2. /\ b1 \in Seq(Cell) /\ b2 \in Seq(Cell) /\ b3 \in Seq(Cell) /\ b4 \in Seq(Cell)
          /\ b5 \in Seq(Cell) /\ b6 \in Seq(Cell) /\ b7 \in Seq(Cell) /\ b8 \in Seq(Cell)
      BY <2>2, <3>1
    <3>3. /\ (b1 \o b2 \o b3 \o b4) \o (b5 \o b6 \o b7 \o b8) \in Seq(Cell)
          /\ Range((b1 \o b2 \o b3 \o b4) \o (b5 \o b6 \o b7 \o b8))
               = Range(b1) \cup Range(b2) \cup Range(b3) \cup Range(b4)
                   \cup Range(b5) \cup Range(b6) \cup Range(b7) \cup Range(b8)
      <4> DEFINE l == b1 \o b2 \o b3 \o b4
                 r == b5 \o b6 \o b7 \o b8
      <4>1. l \in Seq(Cell) /\ Range(l) = Range(b1) \cup Range(b2) \cup Range(b3) \cup Range(b4)
        BY <3>2, RangeConcatFour
      <4>2. r \in Seq(Cell) /\ Range(r) = Range(b5) \cup Range(b6) \cup Range(b7) \cup Range(b8)
        BY <3>2, RangeConcatFour
      <4> HIDE DEF l, r
      <4>3. l \o r \in Seq(Cell) /\ Range(l \o r) = Range(l) \cup Range(r)
        BY <4>1, <4>2, RangeConcat
      <4>4. /\ l \o r \in Seq(Cell)
            /\ Range(l \o r) = Range(b1) \cup Range(b2) \cup Range(b3) \cup Range(b4)
                  \cup Range(b5) \cup Range(b6) \cup Range(b7) \cup Range(b8)
        BY <4>1, <4>2, <4>3
      <4> QED  BY <4>4 DEF l, r
    <3> QED  BY Zenon, <3>1, <3>3
  <2> QED  BY <1>4, <2>1, <2>3
<1>8. /\ Range(InflowFromBottom(c)) = {n \in DataCells(call.ldd) \ {c} : FlowsInto(call.ldd, n, c)}
      /\ Range(InflowFromTop(c)) = {n \in Cell \ {c} : FlowsInto(call.ldd, n, c)}
  BY Zenon, <1>1, <1>5, <1>6, <1>7
<1> QED  BY <1>6, <1>7, <1>8 DEF Into

(* The map that slope_length sees.                                         *)
LEMMA KnownIs ==
  ASSUME call \in Calls
  PROVE  /\ Known = {c \in Cell : ~Unknown(c)} /\ Known \in SUBSET Cell
         /\ \A c \in Known : /\ c \in DataCells(call.ldd) /\ InTable(call.ldd.dir[c])
                             /\ friction[c] \in Int /\ friction[c] # NoData
         /\ \A c \in DataCells(call.ldd) \ Known : friction[c] = NoData
<1>1. /\ call.ldd \in LddMap /\ call.ldd.nodata \notin 1 .. 9 /\ call.layer \in [Cell -> Number]
      /\ \A c \in DataCells(call.ldd) : c \in Cell /\ InTable(call.ldd.dir[c])
  BY CallFields
<1>2. \A c \in Cell : is_nodata(known, c) <=> Unknown(c)
  <2> TAKE c \in Cell
  <2>1. /\ known.nodata = call.ldd.nodata
        /\ known.dir[c] = IF Unknown(c) THEN call.ldd.nodata
                          ELSE IF call.ldd.dir[c] = 0 THEN Pit ELSE call.ldd.dir[c]
    BY DEF known
  <2> QED  BY <1>1, <2>1 DEF is_nodata, Unknown, Pit
<1>3. \A c \in Cell : ~Unknown(c) => /\ c \in DataCells(call.ldd)
                                     /\ friction[c] \in Int /\ friction[c] # NoData
  BY <1>1 DEF Unknown, friction, DataCells, Number
<1>4. \A c \in DataCells(call.ldd) : Unknown(c) => friction[c] = NoData
  BY DEF Unknown, DataCells
<1>5. Known = {c \in Cell : ~Unknown(c)}
  BY <1>2 DEF Known, DataCells
<1> QED  BY <1>1, <1>3, <1>4, <1>5

LEMMA KnownOnward ==
  ASSUME call \in Calls, NEW n \in Known
  PROVE  /\ \A c : c \in Onward(known, n) <=> c \in Known /\ c # n /\ FlowsInto(call.ldd, n, c)
         /\ \A c \in Known : c \in Onward(known, n) <=> n \in Into(c)
<1>1. /\ n \in Cell /\ ~Unknown(n) /\ Known \in SUBSET Cell /\ InTable(call.ldd.dir[n])
      /\ n \in DataCells(call.ldd)
  BY KnownIs
<1>2. /\ known.dir[n] = IF call.ldd.dir[n] = 0 THEN Pit ELSE call.ldd.dir[n]
      /\ call.ldd.dir[n] \in 0 .. 9
  BY <1>1 DEF known, InTable, lookupOffsets
<1>3. \A c : c \in Onward(known, n)
             <=> call.ldd.dir[n] \notin {0, 5} /\ c \in Known /\ FlowsInto(call.ldd, n, c)
  BY <1>1, <1>2 DEF Onward, Pit, FlowsInto, Known, DataCells
<1>4. \A c : call.ldd.dir[n] \in {0, 5} /\ FlowsInto(call.ldd, n, c) => c = n
  BY <1>1, StaysHere DEF FlowsInto
<1>5. call.ldd.dir[n] \notin {0, 5} => ~FlowsInto(call.ldd, n, n)
  <2>1. call.ldd.dir[n] \notin {0, 5} => call.ldd.dir[n] \in {1, 2, 3, 4, 6, 7, 8, 9}
    BY <1>2
  <2> QED  BY <1>1, <2>1, NeighbourDiffers DEF FlowsInto
<1>6. \A c : c \in Onward(known, n) <=> c \in Known /\ c # n /\ FlowsInto(call.ldd, n, c)
  BY <1>3, <1>4, <1>5
<1> QED  BY <1>1, <1>6 DEF Into

LEMMA AboveIs ==
  ASSUME call \in Calls, NEW c \in Known
  PROVE  Above(c) = Into(c) \cap Known /\ c \notin Above(c) /\ Into(c) \in SUBSET Cell
<1>1. \A n \in Known : c \in Onward(known, n) <=> n \in Into(c)
  BY KnownOnward
<1>2. Into(c) \subseteq Cell /\ c \notin Into(c)
  BY DEF Into, DataCells
<1> QED  BY <1>1, <1>2 DEF Above

-----------------------------------------------------------------------------
(* Types                                                                   *)

LEMMA FrontOf ==
  ASSUME NEW S, NEW s \in Seq(S), s # <<>>
  PROVE  /\ Len(s) \in Nat \ {0} /\ Last(s) = s[Len(s)] /\ Last(s) \in S
         /\ Front(s) \in Seq(S) /\ Len(Front(s)) = Len(s) - 1
         /\ \A i \in 1 .. Len(s) - 1 : Front(s)[i] = s[i]
<1>1. Len(s) \in Nat \ {0} /\ Last(s) = s[Len(s)] /\ s[Len(s)] \in S
  BY DEF Last
<1>2. PICK n \in Nat : n = Len(s) - 1 /\ n <= Len(s)
  <2>1. Len(s) - 1 \in Nat /\ Len(s) - 1 <= Len(s)
    BY <1>1
  <2> QED  BY <2>1
<1>3. PICK t : t = SubSeq(s, 1, n)
  OBVIOUS
<1>4. t \in Seq(S) /\ Len(t) = n /\ \A i \in 1 .. n : t[i] = s[i]
  BY <1>2, <1>3
<1>5. Front(s) = t
  BY <1>2, <1>3 DEF Front
<1> QED  BY <1>1, <1>2, <1>4, <1>5

LEMMA Replaced ==
  ASSUME NEW S, NEW s \in Seq(S), NEW n \in 1 .. Len(s), NEW f \in S
  PROVE  /\ [s EXCEPT ![n] = f] \in Seq(S) /\ Len([s EXCEPT ![n] = f]) = Len(s)
         /\ \A i \in 1 .. Len(s) : [s EXCEPT ![n] = f][i] = IF i = n THEN f ELSE s[i]
<1>1. Len(s) \in Nat /\ s \in [1 .. Len(s) -> S]
  OBVIOUS
<1>2. PICK t : t = [s EXCEPT ![n] = f]
  OBVIOUS
<1>3. t \in [1 .. Len(s) -> S] /\ \A i \in 1 .. Len(s) : t[i] = IF i = n THEN f ELSE s[i]
  BY <1>1, <1>2
<1>4. t \in Seq(S) /\ Len(t) = Len(s)
  BY <1>1, <1>3
<1> QED  BY <1>2, <1>3, <1>4

LEMMA WayDownType ==
  ASSUME call \in Calls, NEW n \in Cell, NEW c \in Cell
  PROVE  /\ WayDown(n, c) \in Number
         /\ friction[n] # NoData /\ friction[c] # NoData => WayDown(n, c) \in Int
         /\ friction[n] # NoData /\ friction[c] # NoData /\ NoNegativeFriction
              => WayDown(n, c) >= 0
         /\ friction[n] = NoData \/ friction[c] = NoData => WayDown(n, c) = NoData
<1>1. friction[n] \in Number /\ friction[c] \in Number
  BY CallFields DEF friction
<1>2. CASE NoData \in {friction[n], friction[c]}
  BY <1>2 DEF WayDown, Number
<1>3. CASE NoData \notin {friction[n], friction[c]}
  <2>1. PICK step \in Nat : step = IF Straight(n, c) THEN StraightStep ELSE DiagStep
    BY LddUpstreamAssumption
  <2>2. PICK a \in Int, b \in Int : a = friction[n] /\ b = friction[c]
    BY <1>1, <1>3 DEF Number
  <2>3. WayDown(n, c) = (step * (a + b)) \div 2
    BY <1>3, <2>1, <2>2 DEF WayDown
  <2>4. PICK p \in Int : p = step * (a + b)
    OBVIOUS
  <2>5. p \div 2 \in Int /\ (p >= 0 => p \div 2 >= 0)
    OBVIOUS
  <2>6. NoNegativeFriction => a + b \in Nat
    BY <1>3, <2>2 DEF NoNegativeFriction
  <2>7. NoNegativeFriction => p >= 0
    <3>1. ASSUME NEW m \in Nat PROVE step * m >= 0
      BY <2>1
    <3> QED  BY <2>4, <2>6, <3>1
  <2> QED  BY <1>3, <2>3, <2>4, <2>5, <2>7, LddUpstreamAssumption DEF Number
<1> QED  BY <1>2, <1>3

LEMMA PlusType ==
  ASSUME NEW a \in Number, NEW b \in Number
  PROVE  /\ Plus(a, b) \in Number
         /\ Plus(a, b) = NoData <=> a = NoData \/ b = NoData
         /\ a # NoData /\ b # NoData => Plus(a, b) = a + b /\ a \in Int /\ b \in Int
BY LddUpstreamAssumption DEF Plus, Number

LEMMA TypesInit == Init => Types
<1> SUFFICES ASSUME Init PROVE Types
  OBVIOUS
<1>1. <<0, 0>> \in (0 .. Rows) \X (0 .. Cols - 1) /\ 0 \in Number
  BY GridAssumption DEF Number
<1>2. <<>> \in Seq(FrameType) /\ <<>> \in Seq(EntryType)
  OBVIOUS
<1>3. calculated = {} /\ result \in [Cell -> Number]
  BY <1>1 DEF Init, BeginScan
<1> QED  BY <1>1, <1>2, <1>3 DEF Init, BeginScan, Types, FirstCell

LEMMA FrameOf ==
  ASSUME NEW c \in Cell
  PROVE  /\ Frame(c) \in FrameType /\ Frame(c).cell = c
         /\ Range(Frame(c).neighbours) = Into(c)
         /\ Frame(c).slopeLength = 0 /\ ~Frame(c).isNonNan /\ ~Frame(c).isNan
BY InflowIs DEF Frame, FrameType

LEMMA DescendType ==
  ASSUME Types, NEW c \in Cell, Descend(c)
  PROVE  /\ frames' \in Seq(FrameType) /\ pc' \in {"upstream", "overflow"}
         /\ calculated' = calculated /\ result' = result
<1>1. Frame(c) \in FrameType
  BY FrameOf
<1>2. PICK f \in FrameType : f = Frame(c)
  BY <1>1
<1>3. /\ IF Len(frames) < MaxDepth THEN frames' = Append(frames, f) /\ pc' = "upstream"
         ELSE pc' = "overflow" /\ frames' = frames
      /\ calculated' = calculated /\ result' = result
  BY <1>2 DEF Descend
<1>4. frames \in Seq(FrameType)
  BY DEF Types
<1>5. Append(frames, f) \in Seq(FrameType)
  BY <1>4
<1> QED  BY <1>3, <1>4, <1>5

LEMMA SettleType ==
  ASSUME Types, NEW c \in Cell, ReturnsAtOnce(c), Settle(c)
  PROVE  /\ calculated' = calculated \cup {c} /\ result' \in [Cell -> Number]
         /\ Returned(c) \in Number /\ result' = [result EXCEPT ![c] = Returned(c)]
         /\ calculated' \in SUBSET Cell
<1>1. Returned(c) \in Number
  BY DEF Types, Returned, Number
<1> QED  BY <1>1 DEF Types, Settle

LEMMA CallFromLoopType == Types /\ CallFromLoop => Types'
<1> SUFFICES ASSUME Types, CallFromLoop PROVE Types'
  OBVIOUS
<1>1. /\ cursor \in Cell /\ cursor' \in (0 .. Rows) \X (0 .. Cols - 1)
      /\ call' = call /\ upstream' = upstream /\ upstream = <<>> /\ call.op = "slope_length"
  BY NextCellInGrid DEF Types, CallFromLoop
<1>2. CASE ReturnsAtOnce(cursor)
  <2>1. Settle(cursor) /\ pc' = pc /\ frames' = frames /\ pc = "scan"
    BY <1>2 DEF CallFromLoop
  <2>2. result' \in [Cell -> Number] /\ calculated' \in SUBSET Cell
    BY <1>1, <1>2, <2>1, SettleType
  <2> QED  BY <1>1, <2>1, <2>2 DEF Types
<1>3. CASE ~ReturnsAtOnce(cursor)
  <2>1. Descend(cursor)
    BY <1>3 DEF CallFromLoop
  <2>2. /\ frames' \in Seq(FrameType) /\ pc' \in {"upstream", "overflow"}
        /\ calculated' = calculated /\ result' = result
    BY <1>1, <2>1, DescendType
  <2> QED  BY <1>1, <2>2 DEF Types
<1> QED  BY <1>2, <1>3

LEMMA TopIs ==
  ASSUME Types, frames # <<>>
  PROVE  /\ Len(frames) \in Nat \ {0} /\ Len(frames) \in 1 .. Len(frames)
         /\ top \in FrameType /\ top.cell \in Cell
         /\ top.neighbours \in Seq(Cell) /\ top.slopeLength \in Int
         /\ top.isNonNan \in BOOLEAN /\ top.isNan \in BOOLEAN
         /\ call.op = "slope_length" /\ upstream = <<>>
<1>1. Len(frames) \in Nat \ {0} /\ Len(frames) \in 1 .. Len(frames) /\ top \in FrameType
  BY DEF Types, top
<1>2. call.op = "slope_length" /\ upstream = <<>>
  BY CallFields DEF Types
<1> QED  BY <1>1, <1>2 DEF FrameType

(* A value added to a frame. *)
LEMMA AddedIs ==
  ASSUME NEW f \in FrameType, f.neighbours # <<>>, NEW value \in Number
  PROVE  LET g == Added(f, value)
         IN  /\ g \in FrameType /\ g.cell = f.cell /\ g.neighbours = Tail(f.neighbours)
             /\ value = NoData => /\ g.isNan /\ g.isNonNan = f.isNonNan
                                  /\ g.slopeLength = f.slopeLength
             /\ value # NoData => /\ g.isNonNan /\ g.isNan = f.isNan
                                  /\ g.slopeLength = IF value > f.slopeLength THEN value
                                                     ELSE f.slopeLength
<1>1. /\ f.neighbours \in Seq(Cell) /\ f.cell \in Cell /\ f.slopeLength \in Int
      /\ f.isNonNan \in BOOLEAN /\ f.isNan \in BOOLEAN
      /\ f = [cell |-> f.cell, neighbours |-> f.neighbours, slopeLength |-> f.slopeLength,
              isNonNan |-> f.isNonNan, isNan |-> f.isNan]
  BY DEF FrameType
<1>2. Tail(f.neighbours) \in Seq(Cell)
  BY <1>1
<1>3. CASE value = NoData
  BY <1>1, <1>2, <1>3 DEF Added, FrameType
<1>4. CASE value # NoData
  <2>1. value \in Int
    BY <1>4 DEF Number
  <2> QED  BY <1>1, <1>2, <1>4, <2>1 DEF Added, FrameType
<1> QED  BY <1>3, <1>4

(* The next neighbour of the innermost call. *)
LEMMA NextNeighbour ==
  ASSUME Types, CallForNeighbour
  PROVE  /\ frames # <<>> /\ top.neighbours # <<>> /\ Head(top.neighbours) \in Cell
         /\ Range(top.neighbours) = {Head(top.neighbours)} \cup Range(Tail(top.neighbours))
         /\ Plus(Returned(Head(top.neighbours)), WayDown(Head(top.neighbours), top.cell)) \in Number
<1>1. frames # <<>> /\ top.neighbours # <<>>
  BY DEF CallForNeighbour
<1>2. top.neighbours \in Seq(Cell) /\ top.cell \in Cell
  BY <1>1, TopIs
<1>3. /\ Head(top.neighbours) \in Cell
      /\ Range(top.neighbours) = {Head(top.neighbours)} \cup Range(Tail(top.neighbours))
  BY <1>1, <1>2, RangeHeadTail
<1>4. Returned(Head(top.neighbours)) \in Number
  BY <1>3 DEF Types, Returned, Number
<1>5. WayDown(Head(top.neighbours), top.cell) \in Number
  BY <1>2, <1>3, WayDownType DEF Types
<1> QED  BY <1>1, <1>3, <1>4, <1>5, PlusType

LEMMA CallForNeighbourType == Types /\ CallForNeighbour => Types'
<1> SUFFICES ASSUME Types, CallForNeighbour PROVE Types'
  OBVIOUS
<1>1. PICK n \in Cell : n = Head(top.neighbours)
  BY NextNeighbour
<1>2. /\ frames # <<>> /\ call' = call /\ cursor' = cursor /\ upstream' = upstream
      /\ pc = "upstream" /\ call.op = "slope_length" /\ upstream = <<>>
  BY TopIs DEF CallForNeighbour
<1>3. CASE ReturnsAtOnce(n)
  <2>1. /\ Settle(n) /\ pc' = pc
        /\ frames' = [frames EXCEPT ![Len(frames)] =
                        Added(top, Plus(Returned(n), WayDown(n, top.cell)))]
    BY <1>1, <1>3 DEF CallForNeighbour
  <2>2. Added(top, Plus(Returned(n), WayDown(n, top.cell))) \in FrameType
    BY <1>1, <1>2, NextNeighbour, TopIs, AddedIs
  <2>3. frames' \in Seq(FrameType)
    <3>1. PICK f \in FrameType : f = Added(top, Plus(Returned(n), WayDown(n, top.cell)))
      BY <2>2
    <3>2. frames \in Seq(FrameType) /\ frames' = [frames EXCEPT ![Len(frames)] = f]
      BY <2>1, <3>1 DEF Types
    <3> QED  BY <1>2, <3>1, <3>2, TopIs, Replaced
  <2>4. result' \in [Cell -> Number] /\ calculated' \in SUBSET Cell
    BY <1>3, <2>1, SettleType
  <2> QED  BY <1>2, <2>1, <2>3, <2>4 DEF Types
<1>4. CASE ~ReturnsAtOnce(n)
  <2>1. Descend(n)
    BY <1>1, <1>4 DEF CallForNeighbour
  <2>2. /\ frames' \in Seq(FrameType) /\ pc' \in {"upstream", "overflow"}
        /\ calculated' = calculated /\ result' = result
    BY <2>1, DescendType
  <2> QED  BY <1>2, <2>2 DEF Types
<1> QED  BY <1>3, <1>4

LEMMA EndCallType == Types /\ EndCall => Types'
<1> SUFFICES ASSUME Types, EndCall PROVE Types'
  OBVIOUS
<1>1. /\ frames # <<>> /\ call' = call /\ cursor' = cursor /\ upstream' = upstream
      /\ calculated' = calculated \cup {top.cell} /\ frames' = Front(frames)
      /\ pc' = IF frames' = <<>> THEN "scan" ELSE "upstream"
      /\ result' = [result EXCEPT ![top.cell] =
                      IF ~top.isNonNan /\ top.isNan THEN NoData ELSE top.slopeLength]
  BY DEF EndCall
<1>2. top.cell \in Cell /\ top.slopeLength \in Int /\ call.op = "slope_length" /\ upstream = <<>>
  BY <1>1, TopIs
<1>3. Front(frames) \in Seq(FrameType)
  BY <1>1, FrontOf DEF Types
<1>4. result' \in [Cell -> Number]
  <2>1. PICK v \in Number : v = IF ~top.isNonNan /\ top.isNan THEN NoData ELSE top.slopeLength
    BY <1>2 DEF Number
  <2> QED  BY <1>1, <1>2, <2>1 DEF Types
<1> QED  BY <1>1, <1>2, <1>3, <1>4 DEF Types

LEMMA EntriesType ==
  ASSUME NEW c \in Cell, NEW id \in SUBSET Number
  PROVE  /\ Entries(c, id) \in Seq(EntryType)
         /\ \A entry \in Range(Entries(c, id)) :
              /\ entry.cell \in Cell \ {c} /\ FlowsInto(call.ldd, entry.cell, c)
              /\ entry.id = id
         /\ \A n \in Cell \ {c} : FlowsInto(call.ldd, n, c) =>
              \E entry \in Range(Entries(c, id)) : entry.cell = n
<1>1. PICK s : s = InflowFromTop(c)
  OBVIOUS
<1>2. s \in Seq(Cell) /\ Range(s) = {n \in Cell \ {c} : FlowsInto(call.ldd, n, c)}
  BY <1>1, InflowIs
<1>3. PICK e : e = [i \in 1 .. Len(s) |-> [cell |-> s[i], id |-> id]]
  OBVIOUS
<1>4. Entries(c, id) = e
  BY <1>1, <1>3 DEF Entries
<1>5. Len(s) \in Nat /\ \A i \in 1 .. Len(s) : s[i] \in Cell /\ s[i] \in Range(s)
  BY <1>2 DEF Range
<1>6. e \in Seq(EntryType) /\ Len(e) = Len(s) /\ \A i \in 1 .. Len(s) : e[i].cell = s[i] /\ e[i].id = id
  <2>1. e \in [1 .. Len(s) -> EntryType]
    BY <1>3, <1>5 DEF EntryType
  <2>2. e \in Seq(EntryType) /\ Len(e) = Len(s)
    BY <1>5, <2>1
  <2> QED  BY <1>3, <2>2
<1>7. \A n \in Range(s) : \E i \in 1 .. Len(s) : s[i] = n
  BY <1>2 DEF Range
<1>8. Range(e) = {e[i] : i \in 1 .. Len(s)}
  BY <1>6 DEF Range
<1>9. \A entry \in Range(e) : entry.cell \in Range(s) /\ entry.id = id
  BY <1>5, <1>6, <1>8
<1>10. \A n \in Range(s) : \E entry \in Range(e) : entry.cell = n
  BY <1>6, <1>7, <1>8
<1> QED  BY <1>2, <1>4, <1>6, <1>9, <1>10

LEMMA StartAtPitType == Types /\ StartAtPit => Types'
<1> SUFFICES ASSUME Types, StartAtPit PROVE Types'
  OBVIOUS
<1>1. /\ cursor \in Cell /\ cursor' \in (0 .. Rows) \X (0 .. Cols - 1)
      /\ call' = call /\ calculated' = calculated /\ frames' = frames
      /\ call.op = "catchment" /\ pc = "scan" /\ frames = <<>>
  BY NextCellInGrid DEF Types, StartAtPit
<1>2. CASE is_nodata(call.ldd, cursor)
  <2>1. result' = [result EXCEPT ![cursor] = NoData] /\ pc' = pc /\ upstream' = upstream
    BY <1>2 DEF StartAtPit
  <2>2. result' \in [Cell -> Number]
    BY <2>1 DEF Types, Number
  <2> QED  BY <1>1, <2>1, <2>2 DEF Types
<1>3. CASE ~is_nodata(call.ldd, cursor) /\ call.ldd.dir[cursor] # Pit
  BY <1>1, <1>3 DEF Types, StartAtPit
<1>4. CASE ~is_nodata(call.ldd, cursor) /\ call.ldd.dir[cursor] = Pit
  <2>1. PICK id : id = IF station[cursor] \in {0, NoData} THEN None ELSE {station[cursor]}
    OBVIOUS
  <2>2. upstream' = Entries(cursor, id) /\ pc' = "upstream" /\ result' = result
    BY <1>4, <2>1 DEF StartAtPit
  <2>3. id \in SUBSET Number
    BY <1>1, <2>1, CallFields DEF Types, station, None
  <2>4. upstream' \in Seq(EntryType)
    BY <1>1, <2>2, <2>3, EntriesType
  <2> QED  BY <1>1, <2>2, <2>4 DEF Types
<1> QED  BY <1>2, <1>3, <1>4

LEMMA VisitType ==
  ASSUME Types, VisitUpstream
  PROVE  /\ Last(upstream) \in EntryType /\ Last(upstream).cell \in Cell
         /\ IdOf(Last(upstream)) \in SUBSET Number
         /\ IdOf(Last(upstream)) # None => (CHOOSE i \in IdOf(Last(upstream)) : TRUE) \in Number
         /\ Front(upstream) \in Seq(EntryType)
         /\ Entries(Last(upstream).cell, IdOf(Last(upstream))) \in Seq(EntryType)
<1>1. Last(upstream) \in EntryType /\ Front(upstream) \in Seq(EntryType)
  BY FrontOf DEF Types, VisitUpstream
<1>2. Last(upstream).cell \in Cell /\ Last(upstream).id \in SUBSET Number
  BY <1>1 DEF EntryType
<1>3. station[Last(upstream).cell] \in Number
  BY <1>2, CallFields DEF Types, station
<1>4. IdOf(Last(upstream)) \in SUBSET Number
  BY <1>2, <1>3 DEF IdOf, None
<1>5. Entries(Last(upstream).cell, IdOf(Last(upstream))) \in Seq(EntryType)
  BY <1>2, <1>4, EntriesType
<1> QED  BY <1>1, <1>2, <1>4, <1>5 DEF None

LEMMA VisitUpstreamType == Types /\ VisitUpstream => Types'
<1> SUFFICES ASSUME Types, VisitUpstream PROVE Types'
  OBVIOUS
<1>1. PICK entry, id : entry = Last(upstream) /\ id = IdOf(Last(upstream))
  OBVIOUS
<1>2. /\ result' = IF id = None THEN result
                   ELSE [result EXCEPT ![entry.cell] = CHOOSE i \in id : TRUE]
      /\ upstream' = Front(upstream) \o Entries(entry.cell, id)
      /\ call' = call /\ pc' = pc /\ cursor' = cursor /\ calculated' = calculated
      /\ frames' = frames /\ pc = "upstream" /\ call.op = "catchment"
  BY <1>1 DEF VisitUpstream
<1>3. /\ id # None => (CHOOSE i \in id : TRUE) \in Number
      /\ Front(upstream) \in Seq(EntryType) /\ Entries(entry.cell, id) \in Seq(EntryType)
  BY <1>1, VisitType
<1>4. result' \in [Cell -> Number]
  <2>1. CASE id = None
    BY <1>2, <2>1 DEF Types
  <2>2. CASE id # None
    <3>1. PICK v \in Number : v = CHOOSE i \in id : TRUE
      BY <1>3, <2>2
    <3> QED  BY <1>2, <2>2, <3>1 DEF Types
  <2> QED  BY <2>1, <2>2
<1>5. upstream' \in Seq(EntryType)
  BY <1>2, <1>3
<1> QED  BY <1>2, <1>4, <1>5 DEF Types

LEMMA TypesNext == Types /\ [Next]_vars => Types'
<1> SUFFICES ASSUME Types, [Next]_vars PROVE Types'
  OBVIOUS
<1>1. ASSUME EndOfCatchment PROVE Types'
  BY <1>1 DEF EndOfCatchment, Types
<1>2. ASSUME Return PROVE Types'
  BY <1>2 DEF Return, EndScan, Types
<1>3. ASSUME UNCHANGED vars PROVE Types'
  BY <1>3 DEF vars, Types
<1> QED  BY <1>1, <1>2, <1>3, CallFromLoopType, CallForNeighbourType, EndCallType,
            StartAtPitType, VisitUpstreamType DEF Next

-----------------------------------------------------------------------------
(* slope_length keeps its invariant                                        *)

LEMMA SameCall ==
  ASSUME call' = call
  PROVE  /\ known' = known /\ Known' = Known /\ friction' = friction
         /\ \A c : Into(c)' = Into(c) /\ Above(c)' = Above(c) /\ Unknown(c)' = Unknown(c)
         /\ \A c : Onward(known, c)' = Onward(known, c) /\ Circles(c)' = Circles(c)
         /\ \A c : Course(known, c)' = Course(known, c)
         /\ \A n, c : WayDown(n, c)' = WayDown(n, c)
         /\ NoNegativeFriction' = NoNegativeFriction
<1>1. known' = known /\ friction' = friction /\ \A c : Unknown(c)' = Unknown(c)
  BY DEF known, Unknown, friction, is_nodata
<1>2. Known' = Known
  BY <1>1 DEF Known
<1>3. \A c : Onward(known, c)' = Onward(known, c) /\ Course(known, c)' = Course(known, c)
  BY Zenon, <1>1
<1>4. \A c : Into(c)' = Into(c)
  BY DEF Into
<1>5. \A c : Above(c)' = Above(c)
  BY <1>2, <1>3 DEF Above
<1>6. \A c : Circles(c)' = Circles(c)
  BY <1>1 DEF Circles
<1>7. \A n, c : WayDown(n, c)' = WayDown(n, c)
  BY <1>1 DEF WayDown
<1>8. NoNegativeFriction' = NoNegativeFriction
  BY <1>1 DEF NoNegativeFriction
<1> QED  BY <1>1, <1>2, <1>3, <1>4, <1>5, <1>6, <1>7, <1>8

(* A cell may be added after all that flows into it.                       *)
LEMMA OrderAdded ==
  ASSUME call \in Calls, call' = call, calculated \in SUBSET Cell, OrderInv, NEW x \in Cell,
         calculated' = calculated \cup {x},
         x \in Known => Above(x) \subseteq calculated
  PROVE  OrderInv'
<1> DEFINE New == calculated \cup {x}
<1>1. /\ \A c \in calculated \cap Known : Above(c) \subseteq calculated
      /\ \A S \in SUBSET (calculated \cap Known) : S # {} =>
           /\ \E c \in S : Onward(known, c) \cap S = {}
           /\ \E c \in S : Above(c) \cap S = {}
  BY Zenon DEF OrderInv
<1>2. \A c \in New \cap Known : Above(c) \subseteq New
  BY <1>1
<1>3. ASSUME NEW S \in SUBSET (New \cap Known), S # {}
      PROVE  /\ \E c \in S : Onward(known, c) \cap S = {}
             /\ \E c \in S : Above(c) \cap S = {}
  <2>1. CASE x \notin S \/ x \in calculated
    <3>1. S \in SUBSET (calculated \cap Known)
      BY <2>1
    <3> QED  BY <1>1, <1>3, <3>1
  <2>2. CASE x \in S /\ x \notin calculated
    <3>1. x \in Known /\ x \notin Above(x) /\ Above(x) \subseteq calculated
      BY <2>2, AboveIs
    <3>2. Onward(known, x) \cap S = {}
      <4> SUFFICES ASSUME NEW y \in Onward(known, x), y \in S PROVE FALSE
        OBVIOUS
      <4>1. y # x /\ y \in Known
        BY <3>1, KnownOnward
      <4>2. x \in Above(y) /\ y \in calculated
        BY <3>1, <4>1 DEF Above
      <4> QED  BY <1>1, <2>2, <4>1, <4>2
    <3>3. \E c \in S : Above(c) \cap S = {}
      <4>1. CASE S = {x}
        BY <3>1, <4>1
      <4>2. CASE S # {x}
        <5>1. S \ {x} \in SUBSET (calculated \cap Known) /\ S \ {x} # {}
          BY <2>2, <4>2
        <5>2. PICK c \in S \ {x} : Above(c) \cap (S \ {x}) = {}
          BY <1>1, <5>1
        <5>3. x \notin Above(c)
          BY <1>1, <2>2, <5>1, <5>2
        <5> QED  BY <5>2, <5>3
      <4> QED  BY <4>1, <4>2
    <3> QED  BY <2>2, <3>2, <3>3
  <2> QED  BY <2>1, <2>2
<1>4. Known' = Known /\ calculated' = New /\ \A c : Above(c)' = Above(c) /\ Onward(known, c)' = Onward(known, c)
  BY SameCall
<1> HIDE DEF New
<1> QED  BY <1>2, <1>3, <1>4 DEF OrderInv

LEMMA ThroughIs ==
  ASSUME call \in Calls, result \in [Cell -> Number], NEW n \in DataCells(call.ldd), NEW c \in Cell
  PROVE  /\ Through(n, c) \in Number
         /\ n \notin Known => Through(n, c) = NoData
         /\ result[n] = NoData => Through(n, c) = NoData
         /\ n \in Known /\ c \in Known /\ result[n] # NoData =>
              /\ Through(n, c) = result[n] + WayDown(n, c)
              /\ Through(n, c) # NoData /\ result[n] \in Int /\ WayDown(n, c) \in Int
<1>1. n \in Cell /\ result[n] \in Number /\ WayDown(n, c) \in Number
  BY WayDownType DEF DataCells
<1>2. Through(n, c) \in Number /\ (Through(n, c) = NoData <=> result[n] = NoData \/ WayDown(n, c) = NoData)
  BY <1>1, PlusType DEF Through
<1>3. n \notin Known => WayDown(n, c) = NoData
  BY <1>1, KnownIs, WayDownType
<1>4. n \in Known /\ c \in Known => WayDown(n, c) \in Int /\ WayDown(n, c) # NoData
  BY <1>1, KnownIs, WayDownType, LddUpstreamAssumption
<1>5. result[n] # NoData /\ WayDown(n, c) # NoData =>
        Through(n, c) = result[n] + WayDown(n, c) /\ result[n] \in Int
  BY <1>1, PlusType DEF Through
<1> QED  BY <1>2, <1>3, <1>4, <1>5

(* What is added does not change while known results do not.               *)
LEMMA ThroughSame ==
  ASSUME call \in Calls, call' = call, result \in [Cell -> Number], result' \in [Cell -> Number],
         NEW n \in DataCells(call.ldd), NEW c \in Cell, n \notin Known \/ result'[n] = result[n]
  PROVE  Through(n, c)' = Through(n, c)
<1>1. WayDown(n, c)' = WayDown(n, c)
  BY SameCall
<1>2. CASE result'[n] = result[n]
  BY <1>1, <1>2 DEF Through, Plus
<1>3. CASE n \notin Known
  <2>1. WayDown(n, c) = NoData
    BY <1>3, KnownIs, WayDownType DEF DataCells
  <2> QED  BY <1>1, <2>1 DEF Through, Plus
<1> QED  BY <1>2, <1>3

LEMMA GatheredSame ==
  ASSUME call' = call, NEW f, NEW c, NEW D, f.cell = c, \A n \in D : Through(n, c)' = Through(n, c)
  PROVE  /\ Gathered(f, D)' <=> Gathered(f, D)
         /\ \A length : LongestOf(length, c, D)' <=> LongestOf(length, c, D)
<1>1. \A length : LongestOf(length, c, D)' <=> LongestOf(length, c, D)
  BY DEF LongestOf
<1> QED  BY <1>1 DEF Gathered

LEMMA LengthSame ==
  ASSUME call' = call, NEW c, result'[c] = result[c],
         \A n \in Into(c) : Through(n, c)' = Through(n, c)
  PROVE  LengthIs(c)' <=> LengthIs(c)
<1>1. Into(c)' = Into(c)
  BY SameCall
<1>2. PICK D : D = Into(c)
  OBVIOUS
<1>3. \A length : LongestOf(length, c, D)' <=> LongestOf(length, c, D)
  BY <1>2 DEF LongestOf
<1>4. \A length : LongestOf(length, c, Into(c))' <=> LongestOf(length, c, Into(c))
  BY <1>1, <1>2, <1>3 DEF LongestOf
<1> QED  BY <1>1, <1>4 DEF LengthIs

(* A call that returns at once changes no known length.                    *)
LEMMA SettleKeeps ==
  ASSUME Types, OrderInv, LengthInv, call' = call, NEW x \in Cell, ReturnsAtOnce(x), Settle(x)
  PROVE  /\ OrderInv' /\ LengthInv'
         /\ x \in calculated' /\ calculated \subseteq calculated' /\ calculated' \in SUBSET Cell
         /\ calculated' \cap Known = calculated \cap Known
         /\ result' \in [Cell -> Number] /\ result'[x] = Returned(x)
         /\ \A c \in calculated : result'[c] = result[c]
         /\ \A n \in DataCells(call.ldd), c \in Cell : Through(n, c)' = Through(n, c)
<1>1. /\ call \in Calls /\ calculated \in SUBSET Cell /\ result \in [Cell -> Number]
      /\ Known = {c \in Cell : ~Unknown(c)}
  BY KnownIs DEF Types
<1>2. /\ calculated' = calculated \cup {x} /\ result' \in [Cell -> Number]
      /\ calculated' \in SUBSET Cell
      /\ \A c \in Cell : result'[c] = IF c = x THEN Returned(x) ELSE result[c]
  BY <1>1, SettleType
<1>3. /\ x \in calculated \/ x \notin Known
      /\ x \in calculated => Returned(x) = result[x]
      /\ x \notin calculated => Returned(x) = NoData
  BY <1>1 DEF ReturnsAtOnce, Returned
<1>4. OrderInv'
  <2>1. x \in Known => Above(x) \subseteq calculated
    BY <1>3 DEF OrderInv
  <2> QED  BY <1>1, <1>2, <2>1, OrderAdded
<1>5. \A c \in Cell : c # x \/ x \in calculated => result'[c] = result[c]
  BY <1>2, <1>3
<1>6. \A n \in DataCells(call.ldd), c \in Cell : Through(n, c)' = Through(n, c)
  <2> TAKE n \in DataCells(call.ldd), c \in Cell
  <2>1. n \notin Known \/ result'[n] = result[n]
    BY <1>3, <1>5 DEF DataCells
  <2> QED  BY <1>1, <1>2, <2>1, ThroughSame
<1>7. LengthInv'
  <2>1. /\ Known' = Known /\ NoNegativeFriction' = NoNegativeFriction
    BY SameCall
  <2>2. ASSUME NEW c \in calculated' \ Known PROVE result'[c] = NoData
    <3>1. c \in calculated => result[c] = NoData
      BY <2>2 DEF LengthInv
    <3> QED  BY <1>2, <1>3, <3>1
  <2>3. ASSUME NoNegativeFriction, NEW c \in calculated' \cap Known PROVE LengthIs(c)'
    <3>1. c \in calculated /\ LengthIs(c) /\ c \in Cell
      BY <1>1, <1>2, <1>3, <2>3 DEF LengthInv
    <3>2. result'[c] = result[c]
      BY <1>5, <3>1
    <3>3. \A n \in Into(c) : Through(n, c)' = Through(n, c)
      BY <1>6, <3>1 DEF Into
    <3> QED  BY <3>1, <3>2, <3>3, LengthSame
  <2> QED  BY <2>1, <2>2, <2>3 DEF LengthInv
<1> QED  BY <1>1, <1>2, <1>3, <1>4, <1>5, <1>6, <1>7

(* A call that goes on up the drains.                                      *)
LEMMA DescendKeeps ==
  ASSUME Types, OrderInv, FramesInv, ChainInv, LengthInv, GatherInv,
         call' = call, NEW x \in Cell, ~ReturnsAtOnce(x), Descend(x),
         pc # "overflow",
         \/ frames = <<>>
         \/ frames # <<>> /\ top.neighbours # <<>> /\ x = Head(top.neighbours)
  PROVE  /\ OrderInv' /\ FramesInv' /\ ChainInv' /\ LengthInv' /\ GatherInv'
         /\ calculated' = calculated
         /\ frames = <<>> => frames' # <<>> /\ frames'[1].cell = x
         /\ frames # <<>> => frames' # <<>> /\ frames'[1].cell = frames[1].cell
<1>1. /\ call \in Calls /\ calculated \in SUBSET Cell /\ result \in [Cell -> Number]
      /\ frames \in Seq(FrameType) /\ Rows * Cols \in Nat \ {0}
      /\ MaxDepth \in Nat /\ MaxDepth >= Rows * Cols
  BY GridAssumption, LddUpstreamAssumption DEF Types
<1>2. x \in Known \ calculated
  BY <1>1, KnownIs DEF ReturnsAtOnce
<1>3. PICK m \in Nat : m = Len(frames)
  BY <1>1
<1>4. PICK f \in FrameType : f = Frame(x)
  BY FrameOf
<1>5. /\ f.cell = x /\ Range(f.neighbours) = Into(x)
      /\ f.slopeLength = 0 /\ ~f.isNonNan /\ ~f.isNan
  BY <1>4, FrameOf
<1>6. /\ IF m < MaxDepth THEN frames' = Append(frames, f) /\ pc' = "upstream"
         ELSE pc' = "overflow" /\ frames' = frames
      /\ calculated' = calculated /\ result' = result
  BY <1>3, <1>4 DEF Descend
<1>7. /\ known' = known /\ Known' = Known /\ NoNegativeFriction' = NoNegativeFriction
      /\ \A c : Into(c)' = Into(c) /\ Above(c)' = Above(c) /\ Circles(c)' = Circles(c)
      /\ \A c : Onward(known, c)' = Onward(known, c) /\ Course(known, c)' = Course(known, c)
  BY SameCall
<1>8. OrderInv'
  BY <1>6, <1>7 DEF OrderInv
<1>9. \A n, c : Through(n, c)' = Through(n, c)
  BY <1>6, SameCall DEF Through, Plus
<1>10. LengthInv'
  <2>1. \A c \in Cell : LengthIs(c)' <=> LengthIs(c)
    <3> TAKE c \in Cell
    <3> QED  BY <1>6, <1>9, LengthSame
  <2> QED  BY <1>1, <1>6, <1>7, <2>1 DEF LengthInv
<1>11. /\ \A i \in 1 .. m : frames[i] \in FrameType
       /\ m # 0 <=> frames # <<>>
       /\ top = frames[m]
  BY <1>1, <1>3 DEF top
<1>12. \A i \in 1 .. m : /\ frames[i].cell \in Known \ calculated
                         /\ Waiting(i) \subseteq Into(frames[i].cell)
                         /\ Into(frames[i].cell) \subseteq Waiting(i) \cup calculated
                         /\ i < m => /\ frames[i].neighbours # <<>>
                                     /\ Head(frames[i].neighbours) = frames[i + 1].cell
  BY <1>3 DEF FramesInv
<1>13. \A i \in 1 .. m : \A k \in 0 .. i - 1 :
          k <= Rows * Cols => Course(known, frames[i].cell)[k] = {frames[i - k].cell}
  BY <1>3 DEF ChainInv, StepsDown
<1>14. m # 0 => /\ frames[m].cell \in Cell /\ frames[m].cell \in Known
                /\ frames[m].neighbours # <<>> /\ x = Head(frames[m].neighbours)
                /\ Onward(known, x) = {frames[m].cell}
  <2> SUFFICES ASSUME m # 0
               PROVE  /\ frames[m].cell \in Cell /\ frames[m].cell \in Known
                      /\ frames[m].neighbours # <<>> /\ x = Head(frames[m].neighbours)
                      /\ Onward(known, x) = {frames[m].cell}
    OBVIOUS
  <2>1. PICK c \in Known : c = frames[m].cell
    BY <1>12
  <2>2. frames[m].neighbours # <<>> /\ x = Head(frames[m].neighbours)
    BY <1>11
  <2>3. frames[m].neighbours \in Seq(Cell)
    BY <1>11 DEF FrameType
  <2>4. x \in Waiting(m)
    BY <2>2, <2>3, RangeHeadTail DEF Waiting
  <2>5. x \in Into(c)
    BY <1>12, <2>1, <2>4
  <2>6. c \in Onward(known, x)
    BY <1>1, <1>2, <2>1, <2>5, KnownOnward
  <2>7. Onward(known, x) = {c} /\ c \in Cell
    BY <2>6, OnwardSingle
  <2> QED  BY <2>1, <2>2, <2>7
<1>15. CASE m < MaxDepth
  <2>1. /\ frames' = Append(frames, f) /\ pc' = "upstream" /\ frames' \in Seq(FrameType)
        /\ Len(frames') = m + 1 /\ frames'[m + 1] = f /\ \A i \in 1 .. m : frames'[i] = frames[i]
    BY <1>1, <1>3, <1>6, <1>15
  <2>2. FramesInv'
    <3> SUFFICES ASSUME NEW i \in 1 .. m + 1
                 PROVE  /\ frames'[i].cell \in Known \ calculated
                        /\ Range(frames'[i].neighbours) \subseteq Into(frames'[i].cell)
                        /\ Into(frames'[i].cell) \subseteq Range(frames'[i].neighbours) \cup calculated
                        /\ i < m + 1 => /\ frames'[i].neighbours # <<>>
                                        /\ Head(frames'[i].neighbours) = frames'[i + 1].cell
      BY <1>6, <1>7, <2>1 DEF FramesInv, Waiting
    <3>1. CASE i = m + 1
      BY <1>2, <1>5, <2>1, <3>1
    <3>2. CASE i < m
      <4>1. i \in 1 .. m /\ i + 1 \in 1 .. m /\ frames'[i] = frames[i] /\ frames'[i + 1] = frames[i + 1]
        BY <2>1, <3>2
      <4> QED  BY <1>12, <3>2, <4>1 DEF Waiting
    <3>3. CASE i = m
      <4>1. i \in 1 .. m /\ m # 0 /\ frames'[i] = frames[i] /\ frames'[i + 1] = f
        BY <2>1, <3>3
      <4> QED  BY <1>5, <1>12, <1>14, <3>3, <4>1 DEF Waiting
    <3> QED  BY <3>1, <3>2, <3>3
  <2>3. ChainInv'
    <3>1. ASSUME NEW i \in 1 .. m + 1, NEW k \in 0 .. i - 1, k <= Rows * Cols
          PROVE  Course(known, frames'[i].cell)[k] = {frames'[i - k].cell}
      <4>1. CASE i \in 1 .. m
        <5>1. i - k \in 1 .. m /\ frames'[i] = frames[i] /\ frames'[i - k] = frames[i - k]
          BY <2>1, <4>1
        <5> QED  BY <1>13, <3>1, <4>1, <5>1
      <4>2. CASE i = m + 1 /\ k = 0
        BY <1>5, <2>1, <4>2, CourseDef
      <4>3. CASE i = m + 1 /\ k # 0
        <5>1. /\ m \in 1 .. m /\ k - 1 \in 0 .. m - 1 /\ k \in 1 .. Rows * Cols
              /\ i - k = m - (k - 1) /\ i - k \in 1 .. m /\ k - 1 <= Rows * Cols
          BY <1>1, <3>1, <4>3
        <5>2. PICK c \in Cell : c = frames[m].cell /\ Onward(known, x) = {c}
          BY <1>14, <5>1
        <5>3. Course(known, x)[k] = Course(known, c)[k - 1]
          BY <5>1, <5>2, CourseShift
        <5>4. Course(known, c)[k - 1] = {frames[m - (k - 1)].cell}
          BY <1>13, <5>1, <5>2
        <5>5. frames'[i].cell = x /\ frames'[i - k] = frames[m - (k - 1)]
          BY <1>5, <2>1, <4>3, <5>1
        <5> QED  BY <5>3, <5>4, <5>5
      <4> QED  BY <4>1, <4>2, <4>3
    <3>2. m + 1 <= MaxDepth
      BY <1>1, <1>15
    <3>3. StepsDown'
      BY <1>7, <2>1, <3>1 DEF StepsDown
    <3>4. pc' # "overflow" /\ Len(frames') <= MaxDepth
      BY <2>1, <3>2
    <3> QED  BY <3>3, <3>4 DEF ChainInv
  <2>4. GatherInv'
    <3> SUFFICES ASSUME NoNegativeFriction, NEW i \in 1 .. m + 1
                 PROVE  (\E D \in SUBSET calculated : /\ Into(frames[i].cell) = D \cup Waiting(i)
                                                      /\ Gathered(frames[i], D))'
      BY <1>7, <2>1 DEF GatherInv
    <3>1. CASE i = m + 1
      <4>1. frames'[i] = f
        BY <2>1, <3>1
      <4>2. Into(f.cell) = {} \cup Range(f.neighbours)
        BY <1>5
      <4>3. Gathered(f, {})'
        BY <1>5 DEF Gathered, LongestOf
      <4>4. Gathered(frames[i], {})'
        BY <4>1, <4>3 DEF Gathered
      <4>5. Into(frames[i].cell)' = {} \cup Waiting(i)'
        BY <1>7, <4>1, <4>2 DEF Waiting
      <4> QED  BY <4>4, <4>5
    <3>2. CASE i \in 1 .. m
      <4>1. PICK D \in SUBSET calculated : /\ Into(frames[i].cell) = D \cup Waiting(i)
                                           /\ Gathered(frames[i], D)
        BY <1>3, <3>2 DEF GatherInv
      <4>2. PICK g, c : g = frames[i] /\ g.cell = c
        OBVIOUS
      <4>3. frames'[i] = g
        BY <2>1, <3>2, <4>2
      <4>4. Gathered(g, D)'
        BY <1>9, <4>1, <4>2, GatheredSame
      <4>5. Gathered(frames[i], D)'
        BY <4>3, <4>4 DEF Gathered
      <4>6. Into(frames[i].cell)' = D \cup Waiting(i)'
        BY <1>7, <4>1, <4>2, <4>3 DEF Waiting
      <4> QED  BY <1>6, <4>5, <4>6
    <3> QED  BY <3>1, <3>2
  <2>5. /\ frames' # <<>>
        /\ m # 0 => frames'[1] = frames[1]
        /\ m = 0 => frames'[1] = f
    BY <1>11, <2>1
  <2> QED  BY <1>5, <1>6, <1>8, <1>10, <1>11, <2>2, <2>3, <2>4, <2>5
<1>16. CASE ~(m < MaxDepth)
  <2>1. pc' = "overflow" /\ frames' = frames /\ m # 0 /\ m >= Rows * Cols /\ m <= MaxDepth
    BY <1>1, <1>3, <1>6, <1>16 DEF ChainInv
  <2>2. FramesInv'
    BY <1>6, <1>7, <2>1 DEF FramesInv, Waiting
  <2>3. Circles(x)
    <3>1. PICK k \in 0 .. m - 1 : k = Rows * Cols - 1
      BY <1>1, <2>1
    <3>2. /\ m \in 1 .. m /\ k <= Rows * Cols /\ Rows * Cols \in 1 .. Rows * Cols
          /\ Rows * Cols - 1 = k
      BY <1>1, <2>1, <3>1
    <3>3. PICK c \in Cell : c = frames[m].cell /\ Onward(known, x) = {c}
      BY <1>14, <2>1
    <3>4. Course(known, x)[Rows * Cols] = Course(known, c)[k]
      BY <3>2, <3>3, CourseShift
    <3>5. Course(known, c)[k] = {frames[m - k].cell}
      BY <1>13, <3>2, <3>3
    <3> QED  BY <3>4, <3>5 DEF Circles
  <2>4. ChainInv'
    <3>1. StepsDown'
      BY <1>7, <2>1 DEF StepsDown, ChainInv
    <3>2. Len(frames') <= MaxDepth /\ Circles(x)' /\ x \in Known'
      BY <1>2, <1>3, <1>7, <2>1, <2>3
    <3> QED  BY <3>1, <3>2 DEF ChainInv
  <2>5. GatherInv'
    <3> SUFFICES ASSUME NoNegativeFriction, NEW i \in 1 .. m
                 PROVE  (\E D \in SUBSET calculated : /\ Into(frames[i].cell) = D \cup Waiting(i)
                                                      /\ Gathered(frames[i], D))'
      BY <1>3, <1>7, <2>1 DEF GatherInv
    <3>1. PICK D \in SUBSET calculated : /\ Into(frames[i].cell) = D \cup Waiting(i)
                                         /\ Gathered(frames[i], D)
      BY <1>3 DEF GatherInv
    <3>2. PICK g, c : g = frames[i] /\ g.cell = c
      OBVIOUS
    <3>3. frames'[i] = g
      BY <2>1, <3>2
    <3>4. Gathered(g, D)'
      BY <1>9, <3>1, <3>2, GatheredSame
    <3>5. Gathered(frames[i], D)'
      BY <3>3, <3>4 DEF Gathered
    <3>6. Into(frames[i].cell)' = D \cup Waiting(i)'
      BY <1>7, <3>1, <3>2, <3>3 DEF Waiting
    <3> QED  BY <1>6, <3>5, <3>6
  <2> QED  BY <1>6, <1>8, <1>10, <1>11, <2>1, <2>2, <2>4, <2>5
<1> QED  BY <1>1, <1>3, <1>15, <1>16

LEMMA SlopeInit == Init => SlopeInv
<1> SUFFICES ASSUME Init PROVE SlopeInv
  OBVIOUS
<1>1. /\ calculated = {} /\ frames = <<>> /\ pc = "scan" /\ cursor = <<0, 0>> /\ Len(frames) = 0
  BY DEF Init, BeginScan, FirstCell
<1>2. OrderInv
  BY <1>1 DEF OrderInv
<1>3. ScanInv
  <2>1. \A c \in Cell : c[1] >= 0 /\ c[2] >= 0 /\ c[1] \in Int /\ c[2] \in Int
    BY GridAssumption DEF Cell
  <2> QED  BY <1>1, <2>1 DEF ScanInv, Before
<1>4. FramesInv /\ GatherInv /\ StepsDown
  BY <1>1 DEF FramesInv, GatherInv, StepsDown
<1>5. ChainInv
  BY <1>1, <1>4, LddUpstreamAssumption DEF ChainInv
<1>6. LengthInv
  BY <1>1 DEF LengthInv
<1> QED  BY <1>2, <1>3, <1>4, <1>5, <1>6 DEF SlopeInv

LEMMA SlopeFromLoop == Types /\ SlopeInv /\ CallFromLoop => SlopeInv'
<1> SUFFICES ASSUME Types, SlopeInv, CallFromLoop PROVE SlopeInv'
  OBVIOUS
<1>1. /\ call.op = "slope_length" /\ pc = "scan" /\ ~PastEnd(cursor) /\ frames = <<>>
      /\ call' = call /\ cursor' = NextCell(cursor)
  BY DEF CallFromLoop, Types
<1>2. OrderInv /\ ScanInv /\ FramesInv /\ ChainInv /\ LengthInv /\ GatherInv
  BY <1>1 DEF SlopeInv
<1>3. PICK x \in Cell : x = cursor
  BY <1>1, NextCellInGrid DEF Types
<1>4. \A b \in Cell : Before(b, cursor') <=> Before(b, cursor) \/ b = x
  BY <1>1, <1>3, NextCellInGrid DEF Types
<1>5. \A b \in Cell : Before(b, cursor) => b \in calculated
  BY <1>1, <1>2 DEF ScanInv
<1>6. CASE ReturnsAtOnce(x)
  <2>1. Settle(x) /\ pc' = pc /\ frames' = frames
    BY <1>3, <1>6 DEF CallFromLoop
  <2>2. OrderInv' /\ LengthInv' /\ x \in calculated' /\ calculated \subseteq calculated'
    BY <1>1, <1>2, <1>6, <2>1, SettleKeeps
  <2>3. ScanInv'
    BY <1>4, <1>5, <2>2 DEF ScanInv
  <2>4. Len(frames') = 0 /\ frames' = <<>>
    BY <1>1, <2>1
  <2>5. FramesInv' /\ GatherInv' /\ StepsDown'
    BY <2>4 DEF FramesInv, GatherInv, StepsDown
  <2>6. ChainInv'
    BY <1>1, <2>1, <2>4, <2>5, LddUpstreamAssumption DEF ChainInv
  <2> QED  BY <2>2, <2>3, <2>5, <2>6 DEF SlopeInv
<1>7. CASE ~ReturnsAtOnce(x)
  <2>1. Descend(x) /\ pc # "overflow"
    BY <1>1, <1>3, <1>7 DEF CallFromLoop
  <2>2. /\ OrderInv' /\ FramesInv' /\ ChainInv' /\ LengthInv' /\ GatherInv'
        /\ calculated' = calculated /\ frames' # <<>> /\ frames'[1].cell = x
    BY <1>1, <1>2, <1>7, <2>1, DescendKeeps
  <2>3. ScanInv'
    BY <1>4, <1>5, <2>2 DEF ScanInv
  <2> QED  BY <2>2, <2>3 DEF SlopeInv
<1> QED  BY <1>6, <1>7

LEMMA SlopeForNeighbour == Types /\ SlopeInv /\ CallForNeighbour => SlopeInv'
<1> SUFFICES ASSUME Types, SlopeInv, CallForNeighbour PROVE SlopeInv'
  OBVIOUS
<1>1. /\ pc = "upstream" /\ frames # <<>> /\ top.neighbours # <<>>
      /\ call' = call /\ cursor' = cursor
  BY DEF CallForNeighbour
<1>2. /\ call.op = "slope_length" /\ call \in Calls /\ frames \in Seq(FrameType)
      /\ top \in FrameType /\ top.cell \in Cell /\ calculated \in SUBSET Cell
      /\ top.neighbours \in Seq(Cell)
  BY <1>1, TopIs DEF Types
<1>3. OrderInv /\ ScanInv /\ FramesInv /\ ChainInv /\ LengthInv /\ GatherInv
  BY <1>2 DEF SlopeInv
<1>4. PICK x \in Cell : x = Head(top.neighbours)
  BY NextNeighbour
<1>5. CASE ~ReturnsAtOnce(x)
  <2>1. Descend(x)
    BY <1>4, <1>5 DEF CallForNeighbour
  <2>2. /\ OrderInv' /\ FramesInv' /\ ChainInv' /\ LengthInv' /\ GatherInv'
        /\ calculated' = calculated /\ frames' # <<>> /\ frames'[1].cell = frames[1].cell
    BY <1>1, <1>3, <1>4, <1>5, <2>1, DescendKeeps
  <2>3. ScanInv'
    BY <1>1, <1>3, <2>2 DEF ScanInv
  <2> QED  BY <2>2, <2>3 DEF SlopeInv
<1>6. CASE ReturnsAtOnce(x)
  <2>1. /\ Settle(x) /\ pc' = pc
        /\ frames' = [frames EXCEPT ![Len(frames)] =
                        Added(top, Plus(Returned(x), WayDown(x, top.cell)))]
    BY <1>4, <1>6 DEF CallForNeighbour
  <2>2. /\ OrderInv' /\ LengthInv' /\ x \in calculated' /\ calculated \subseteq calculated'
        /\ calculated' \in SUBSET Cell /\ calculated' \cap Known = calculated \cap Known
        /\ result' \in [Cell -> Number] /\ result'[x] = Returned(x)
        /\ \A n \in DataCells(call.ldd), c \in Cell : Through(n, c)' = Through(n, c)
    BY <1>1, <1>3, <1>6, <2>1, SettleKeeps
  <2>3. PICK m \in Nat \ {0} : m = Len(frames) /\ m \in 1 .. Len(frames)
    BY <1>1, TopIs
  <2>4. PICK c \in Cell : c = top.cell
    BY <1>2
  <2>5. PICK v \in Number : v = Plus(Returned(x), WayDown(x, c))
    BY <1>4, <2>4, NextNeighbour
  <2>6. PICK f \in FrameType : f = Added(top, v)
    BY <1>1, <1>2, AddedIs
  <2>7. /\ f.cell = c /\ f.neighbours = Tail(top.neighbours)
        /\ v = NoData => /\ f.isNan /\ f.isNonNan = top.isNonNan
                         /\ f.slopeLength = top.slopeLength
        /\ v # NoData => /\ f.isNonNan /\ f.isNan = top.isNan
                         /\ f.slopeLength = IF v > top.slopeLength THEN v ELSE top.slopeLength
    BY <1>1, <1>2, <2>4, <2>6, AddedIs
  <2>8. /\ Len(frames') = m /\ frames' \in Seq(FrameType)
        /\ frames' = [frames EXCEPT ![m] = f]
        /\ \A i \in 1 .. m : frames'[i] = IF i = m THEN f ELSE frames[i]
        /\ top = frames[m]
    <3>1. frames' = [frames EXCEPT ![m] = f]
      BY <2>1, <2>3, <2>4, <2>5, <2>6
    <3> QED  BY <1>2, <2>3, <3>1, Replaced DEF top
  <2>9. /\ known' = known /\ Known' = Known /\ NoNegativeFriction' = NoNegativeFriction
        /\ \A d : Into(d)' = Into(d) /\ Circles(d)' = Circles(d)
        /\ WayDown(x, c)' = WayDown(x, c)
    BY <1>1, SameCall
  <2>10. \A i \in 1 .. m : /\ frames[i].cell \in Known \ calculated
                           /\ Waiting(i) \subseteq Into(frames[i].cell)
                           /\ Into(frames[i].cell) \subseteq Waiting(i) \cup calculated
                           /\ i < m => /\ frames[i].neighbours # <<>>
                                       /\ Head(frames[i].neighbours) = frames[i + 1].cell
    BY <1>3, <2>3 DEF FramesInv
  <2>11. Range(top.neighbours) = {x} \cup Range(f.neighbours)
    BY <1>4, <2>7, NextNeighbour
  <2>12. \A i \in 1 .. m : frames'[i].cell = frames[i].cell
    BY <2>4, <2>7, <2>8
  <2>13. v = Through(x, c)'
    BY <2>2, <2>5, <2>9 DEF Through, Plus
  <2>14. ScanInv'
    <3>1. frames' # <<>> /\ frames'[1].cell = frames[1].cell
      BY <2>3, <2>8, <2>12
    <3> QED  BY <1>1, <1>3, <2>2, <3>1 DEF ScanInv
  <2>15. FramesInv'
    <3> SUFFICES ASSUME NEW i \in 1 .. m
                 PROVE  /\ frames'[i].cell \in Known \ calculated'
                        /\ Range(frames'[i].neighbours) \subseteq Into(frames'[i].cell)
                        /\ Into(frames'[i].cell) \subseteq Range(frames'[i].neighbours) \cup calculated'
                        /\ i < m => /\ frames'[i].neighbours # <<>>
                                    /\ Head(frames'[i].neighbours) = frames'[i + 1].cell
      BY <2>8, <2>9 DEF FramesInv, Waiting
    <3>1. frames'[i].cell \in Known \ calculated'
      BY <2>2, <2>10, <2>12
    <3>2. CASE i = m
      BY <2>2, <2>8, <2>10, <2>11, <2>12, <3>1, <3>2 DEF Waiting
    <3>3. CASE i < m
      <4>1. i + 1 \in 1 .. m /\ frames'[i] = frames[i] /\ frames'[i + 1].cell = frames[i + 1].cell
        BY <2>8, <2>12, <3>3
      <4> QED  BY <2>2, <2>10, <3>1, <3>3, <4>1 DEF Waiting
    <3> QED  BY <3>2, <3>3
  <2>16. ChainInv'
    <3>1. StepsDown'
      <4>1. ASSUME NEW i \in 1 .. m, NEW k \in 0 .. i - 1
            PROVE  i - k \in 1 .. m /\ frames'[i - k].cell = frames[i - k].cell
        <5>1. i - k \in 1 .. m
          OBVIOUS
        <5> QED  BY <2>12, <5>1
      <4>2. StepsDown
        BY <1>3 DEF ChainInv
      <4>3. ASSUME NEW i \in 1 .. m, NEW k \in 0 .. i - 1, k <= Rows * Cols
            PROVE  Course(known, frames'[i].cell)[k] = {frames'[i - k].cell}
        <5>1. Course(known, frames[i].cell)[k] = {frames[i - k].cell}
          BY <2>3, <4>2, <4>3 DEF StepsDown
        <5> QED  BY <2>12, <4>1, <5>1
      <4> QED  BY <2>8, <2>9, <4>3 DEF StepsDown
    <3> QED  BY <1>1, <1>3, <2>1, <2>3, <2>8, <3>1 DEF ChainInv
  <2>17. GatherInv'
    <3> SUFFICES ASSUME NoNegativeFriction, NEW i \in 1 .. m
                 PROVE  (\E D \in SUBSET calculated : /\ Into(frames[i].cell) = D \cup Waiting(i)
                                                      /\ Gathered(frames[i], D))'
      BY <2>8, <2>9 DEF GatherInv
    <3>1. PICK D \in SUBSET calculated : /\ Into(frames[i].cell) = D \cup Waiting(i)
                                         /\ Gathered(frames[i], D)
      BY <1>3, <2>3 DEF GatherInv
    <3>2. PICK g, d : g = frames[i] /\ g.cell = d
      OBVIOUS
    <3>3. \A n \in D : Through(n, d)' = Through(n, d)
      <4>1. d \in Cell /\ D \subseteq DataCells(call.ldd)
        BY <1>2, <2>10, <3>1, <3>2, KnownIs DEF Into
      <4> QED  BY <2>2, <4>1
    <3>4. Gathered(g, D)'
      BY <1>1, <3>1, <3>2, <3>3, GatheredSame
    <3>5. CASE i < m
      <4>1. frames'[i] = g
        BY <2>8, <3>2, <3>5
      <4>2. Gathered(frames[i], D)'
        BY <3>4, <4>1 DEF Gathered
      <4>3. Into(frames[i].cell)' = D \cup Waiting(i)'
        BY <2>9, <3>1, <3>2, <4>1 DEF Waiting
      <4> QED  BY <2>2, <4>2, <4>3
    <3>6. CASE i = m
      <4>1. frames'[i] = f /\ g = top /\ d = c
        BY <2>4, <2>8, <3>2, <3>6
      <4>2. Into(d) = (D \cup {x}) \cup Range(f.neighbours)
        BY <2>8, <2>11, <3>1, <3>2, <3>6 DEF Waiting
      <4>3. PICK t : t = result'
        OBVIOUS
      <4> DEFINE Thro(n) == Plus(t[n], WayDown(n, c))
      <4>4. \A n : Through(n, c)' = Thro(n)
        BY <1>1, <4>3, SameCall DEF Through, Plus
      <4>5. \A n \in D \cup {x} : Thro(n) \in Number
        <5>1. D \cup {x} \subseteq Into(c)
          BY <4>1, <4>2
        <5>2. \A n \in Into(c) : t[n] \in Number /\ WayDown(n, c) \in Number
          BY <1>2, <2>2, <4>3, WayDownType DEF Into, DataCells
        <5> QED  BY <5>1, <5>2, PlusType
      <4> HIDE DEF Thro
      <4>6. /\ LongestOf(g.slopeLength, c, D)' /\ g.slopeLength \in Int
            /\ g.isNonNan <=> \E n \in D : Thro(n) # NoData
            /\ g.isNan <=> \E n \in D : Thro(n) = NoData
        BY <1>2, <3>2, <3>4, <4>1, <4>4 DEF Gathered, FrameType
      <4>7. /\ g.slopeLength >= 0
            /\ \A n \in D : Thro(n) = NoData \/ Thro(n) <= g.slopeLength
            /\ IF \E n \in D : Thro(n) # NoData THEN \E n \in D : Thro(n) = g.slopeLength
               ELSE g.slopeLength = 0
        BY <4>4, <4>6 DEF LongestOf
      <4>8. v = Thro(x)
        BY <2>13, <4>4
      <4> DEFINE E == D \cup {x}
      <4>9. /\ f.slopeLength >= 0
            /\ \A n \in E : Thro(n) = NoData \/ Thro(n) <= f.slopeLength
            /\ IF \E n \in E : Thro(n) # NoData THEN \E n \in E : Thro(n) = f.slopeLength
               ELSE f.slopeLength = 0
            /\ f.isNonNan <=> \E n \in E : Thro(n) # NoData
            /\ f.isNan <=> \E n \in E : Thro(n) = NoData
        <5>1. CASE v = NoData
          BY <2>7, <4>1, <4>6, <4>7, <4>8, <5>1
        <5>2. CASE v # NoData
          <6>1. v \in Int /\ v >= 0
            <7>1. Through(x, c)' # NoData
              BY <2>13, <5>2
            <7>2. x \in DataCells(call.ldd) /\ c \in Known
              BY <2>10, <4>1, <4>2, <3>2, <3>6 DEF Into
            <7>3. Through(x, c) = v /\ Through(x, c) # NoData
              BY <2>2, <2>13, <5>2, <7>2
            <7>4. result \in [Cell -> Number]
              BY DEF Types
            <7>5. x \in Known /\ result[x] # NoData
              BY <1>2, <7>2, <7>3, <7>4, ThroughIs
            <7>6. v = result[x] + WayDown(x, c) /\ result[x] \in Int /\ WayDown(x, c) \in Int
              BY <1>2, <7>2, <7>3, <7>4, <7>5, ThroughIs
            <7>7. x \in calculated \cap Known
              BY <1>2, <1>6, <7>5, KnownIs DEF ReturnsAtOnce
            <7>8. LengthIs(x)
              BY <1>3, <7>7 DEF LengthInv
            <7>9. result[x] >= 0
              BY <7>5, <7>8 DEF LengthIs, LongestOf
            <7>10. WayDown(x, c) >= 0
              BY <1>2, <7>2, <7>5, KnownIs, WayDownType
            <7> QED  BY <7>6, <7>9, <7>10
          <6>2. top.slopeLength \in Int /\ g = top
            BY <1>2, <4>1 DEF FrameType
          <6>3. /\ f.slopeLength = IF v > g.slopeLength THEN v ELSE g.slopeLength
                /\ f.isNonNan /\ f.isNan = g.isNan
            BY <2>7, <5>2, <6>2
          <6>4. PICK a \in Int : a = g.slopeLength
            BY <6>2
          <6>5. PICK b \in Int : b = f.slopeLength /\ b >= 0 /\ b >= a /\ b >= v /\ (b = a \/ b = v)
            BY <4>7, <6>1, <6>3, <6>4
          <6>6. \A n \in E : Thro(n) = NoData \/ Thro(n) <= b
            <7> SUFFICES ASSUME NEW n \in E, Thro(n) # NoData PROVE Thro(n) <= b
              OBVIOUS
            <7>1. CASE n = x
              BY <4>8, <6>5, <7>1
            <7>2. CASE n \in D
              <8>1. Thro(n) \in Int /\ Thro(n) <= a
                BY <4>5, <4>7, <6>4, <7>2 DEF Number
              <8> QED  BY <6>5, <8>1
            <7> QED  BY <7>1, <7>2
          <6>7. x \in E /\ Thro(x) # NoData
            BY <4>8, <5>2
          <6>8. \E n \in E : Thro(n) = b
            <7>1. CASE b = v
              BY <4>8, <6>7, <7>1
            <7>2. CASE b # v
              <8>1. b = a /\ a # 0
                BY <6>1, <6>5, <7>2
              <8>2. \E n \in D : Thro(n) = a
                BY <4>7, <6>4, <8>1
              <8> QED  BY <8>1, <8>2
            <7> QED  BY <7>1, <7>2
          <6>9. f.isNan <=> \E n \in E : Thro(n) = NoData
            BY <4>6, <4>8, <5>2, <6>3
          <6> HIDE DEF E
          <6> QED  BY <6>3, <6>5, <6>6, <6>7, <6>8, <6>9
        <5> QED  BY <5>1, <5>2
      <4>10. LongestOf(f.slopeLength, c, E)'
        BY <4>4, <4>9 DEF LongestOf
      <4>11. Gathered(frames[i], E)'
        BY <2>7, <4>1, <4>4, <4>9, <4>10 DEF Gathered
      <4>12. Into(frames[i].cell)' = E \cup Waiting(i)'
        BY <2>7, <2>9, <4>1, <4>2 DEF Waiting
      <4>13. E \in SUBSET calculated'
        BY <2>2
      <4> HIDE DEF E
      <4> QED  BY <4>11, <4>12, <4>13
    <3> QED  BY <3>5, <3>6
  <2> QED  BY <2>2, <2>14, <2>15, <2>16, <2>17 DEF SlopeInv
<1> QED  BY <1>5, <1>6

LEMMA SlopeEndCall == Types /\ SlopeInv /\ EndCall => SlopeInv'
<1> SUFFICES ASSUME Types, SlopeInv, EndCall PROVE SlopeInv'
  OBVIOUS
<1>1. /\ pc = "upstream" /\ frames # <<>> /\ top.neighbours = <<>>
      /\ call' = call /\ cursor' = cursor
      /\ calculated' = calculated \cup {top.cell} /\ frames' = Front(frames)
      /\ pc' = IF frames' = <<>> THEN "scan" ELSE "upstream"
      /\ result' = [result EXCEPT ![top.cell] =
                      IF ~top.isNonNan /\ top.isNan THEN NoData ELSE top.slopeLength]
  BY DEF EndCall
<1>2. /\ call.op = "slope_length" /\ call \in Calls /\ frames \in Seq(FrameType)
      /\ top \in FrameType /\ top.cell \in Cell /\ calculated \in SUBSET Cell
      /\ result \in [Cell -> Number] /\ top.slopeLength \in Int
  BY <1>1, TopIs DEF Types
<1>3. OrderInv /\ ScanInv /\ FramesInv /\ ChainInv /\ LengthInv /\ GatherInv
  BY <1>2 DEF SlopeInv
<1>4. PICK m \in Nat \ {0} : m = Len(frames) /\ m \in 1 .. Len(frames)
  BY <1>1, TopIs
<1>5. PICK x \in Cell : x = top.cell
  BY <1>2
<1>6. top = frames[m]
  BY <1>4 DEF top
<1>7. \A i \in 1 .. m : /\ frames[i].cell \in Known \ calculated
                        /\ Waiting(i) \subseteq Into(frames[i].cell)
                        /\ Into(frames[i].cell) \subseteq Waiting(i) \cup calculated
                        /\ i < m => /\ frames[i].neighbours # <<>>
                                    /\ Head(frames[i].neighbours) = frames[i + 1].cell
  BY <1>3, <1>4 DEF FramesInv
<1>8. Range(top.neighbours) = {} /\ Waiting(m) = {}
  BY <1>1, <1>6 DEF Waiting, Range
<1>9. x \in Known \ calculated /\ Into(x) \subseteq calculated
  BY <1>4, <1>5, <1>6, <1>7, <1>8
<1>10. Above(x) \subseteq calculated /\ x \notin Into(x)
  BY <1>2, <1>9, AboveIs DEF Into
<1>11. OrderInv'
  BY <1>1, <1>2, <1>3, <1>5, <1>10, OrderAdded
<1>12. PICK v \in Number : v = IF ~top.isNonNan /\ top.isNan THEN NoData ELSE top.slopeLength
  BY <1>2 DEF Number
<1>13. /\ result' \in [Cell -> Number] /\ result'[x] = v
       /\ \A c \in Cell : c # x => result'[c] = result[c]
  BY <1>1, <1>2, <1>5, <1>12
<1>14. \A n \in DataCells(call.ldd), c \in Cell : n # x => Through(n, c)' = Through(n, c)
  <2> TAKE n \in DataCells(call.ldd), c \in Cell
  <2>1. n # x => result'[n] = result[n]
    BY <1>13 DEF DataCells
  <2> QED  BY <1>1, <1>2, <1>13, <2>1, ThroughSame
<1>15. /\ known' = known /\ Known' = Known /\ NoNegativeFriction' = NoNegativeFriction
       /\ \A d : Into(d)' = Into(d) /\ Circles(d)' = Circles(d)
  BY <1>1, SameCall
<1>16. PICK l \in Nat : l = m - 1
  BY <1>4
<1>17. /\ frames' \in Seq(FrameType) /\ Len(frames') = l
       /\ \A i \in 1 .. l : i \in 1 .. m /\ frames'[i] = frames[i]
  BY <1>1, <1>2, <1>4, <1>16, FrontOf
<1>18. \A i \in 1 .. l : frames[i].cell # x
  <2> SUFFICES ASSUME NEW i \in 1 .. l, frames[i].cell = x PROVE FALSE
    OBVIOUS
  <2>1. i \in 1 .. m /\ i < m /\ i + 1 \in 1 .. m
    BY <1>16
  <2>2. frames[i + 1].cell \in Waiting(i)
    <3>1. frames[i].neighbours \in Seq(Cell)
      <4>1. frames[i] \in FrameType
        BY <1>2, <1>4, <2>1
      <4> QED  BY <4>1 DEF FrameType
    <3> QED  BY <1>7, <2>1, <3>1, RangeHeadTail DEF Waiting
  <2>3. frames[i + 1].cell \in calculated /\ frames[i + 1].cell \notin calculated
    BY <1>7, <1>9, <2>1, <2>2
  <2> QED  BY <2>3
<1>19. ScanInv'
  <2>1. CASE l = 0
    <3>1. frames[1].cell = x
      BY <1>5, <1>6, <1>16, <2>1
    <3> QED  BY <1>1, <1>3, <1>5, <3>1 DEF ScanInv
  <2>2. CASE l # 0
    <3>1. frames' # <<>> /\ frames'[1] = frames[1]
      BY <1>17, <2>2
    <3> QED  BY <1>1, <1>3, <3>1 DEF ScanInv
  <2> QED  BY <2>1, <2>2
<1>20. FramesInv'
  <2> SUFFICES ASSUME NEW i \in 1 .. l
               PROVE  /\ frames'[i].cell \in Known \ calculated'
                      /\ Range(frames'[i].neighbours) \subseteq Into(frames'[i].cell)
                      /\ Into(frames'[i].cell) \subseteq Range(frames'[i].neighbours) \cup calculated'
                      /\ i < l => /\ frames'[i].neighbours # <<>>
                                  /\ Head(frames'[i].neighbours) = frames'[i + 1].cell
    BY <1>15, <1>17 DEF FramesInv, Waiting
  <2>1. i \in 1 .. m /\ i < m /\ frames'[i] = frames[i]
    BY <1>16, <1>17
  <2>2. i < l => frames'[i + 1] = frames[i + 1]
    BY <1>17
  <2> QED  BY <1>1, <1>5, <1>7, <1>18, <2>1, <2>2 DEF Waiting
<1>21. ChainInv'
  <2>1. ASSUME NEW i \in 1 .. l, NEW k \in 0 .. i - 1, k <= Rows * Cols
        PROVE  Course(known, frames'[i].cell)[k] = {frames'[i - k].cell}
    <3>1. i \in 1 .. m /\ i - k \in 1 .. l /\ frames'[i] = frames[i] /\ frames'[i - k] = frames[i - k]
      BY <1>16, <1>17
    <3>2. Course(known, frames[i].cell)[k] = {frames[i - k].cell}
      BY <1>3, <1>4, <2>1, <3>1 DEF ChainInv, StepsDown
    <3> QED  BY <3>1, <3>2
  <2>2. StepsDown'
    BY <1>15, <1>17, <2>1 DEF StepsDown
  <2>3. pc' # "overflow" /\ Len(frames') <= MaxDepth
    BY <1>1, <1>3, <1>4, <1>16, <1>17, LddUpstreamAssumption DEF ChainInv
  <2> QED  BY <2>2, <2>3 DEF ChainInv
<1>22. LengthInv'
  <2>1. ASSUME NEW c \in calculated' \ Known PROVE result'[c] = NoData
    BY <1>1, <1>2, <1>3, <1>5, <1>9, <1>13, <2>1 DEF LengthInv
  <2>2. ASSUME NoNegativeFriction, NEW c \in calculated' \cap Known, c # x PROVE LengthIs(c)'
    <3>1. c \in calculated \cap Known /\ c \in Cell /\ LengthIs(c)
      BY <1>1, <1>2, <1>3, <1>5, <2>2 DEF LengthInv
    <3>2. x \notin Into(c)
      <4>1. x \in Into(c) => x \in Above(c)
        BY <1>2, <1>9, <3>1, AboveIs
      <4> QED  BY <1>3, <1>9, <3>1, <4>1 DEF OrderInv
    <3>3. \A n \in Into(c) : Through(n, c)' = Through(n, c)
      BY <1>14, <3>1, <3>2 DEF Into
    <3> QED  BY <1>1, <1>13, <2>2, <3>1, <3>3, LengthSame
  <2>3. ASSUME NoNegativeFriction PROVE LengthIs(x)'
    <3>1. PICK D \in SUBSET calculated : /\ Into(frames[m].cell) = D \cup Waiting(m)
                                         /\ Gathered(frames[m], D)
      BY <1>3, <1>4, <2>3 DEF GatherInv
    <3>2. D = Into(x) /\ Gathered(top, D)
      BY <1>5, <1>6, <1>8, <3>1
    <3>3. \A n \in Into(x) : Through(n, x)' = Through(n, x)
      BY <1>10, <1>14 DEF Into
    <3>4. PICK t : t = top
      OBVIOUS
    <3>5. /\ LongestOf(t.slopeLength, x, D)
          /\ t.isNonNan <=> \E n \in D : Through(n, x) # NoData
          /\ t.isNan <=> \E n \in D : Through(n, x) = NoData
          /\ v = IF ~t.isNonNan /\ t.isNan THEN NoData ELSE t.slopeLength
          /\ t.slopeLength \in Int
      BY <1>2, <1>5, <1>12, <3>2, <3>4 DEF Gathered
    <3>6. LongestOf(t.slopeLength, x, D)'
      BY <3>2, <3>3, <3>5 DEF LongestOf
    <3>7. LongestOf(t.slopeLength, x, Into(x))'
      BY <1>15, <3>2, <3>6 DEF LongestOf
    <3>8. /\ IF Into(x) # {} /\ \A n \in Into(x) : Through(n, x)' = NoData THEN v = NoData
             ELSE v = t.slopeLength /\ v \in Int
      BY <3>2, <3>3, <3>5
    <3> QED  BY <1>13, <1>15, <3>7, <3>8 DEF LengthIs
  <2> QED  BY <1>15, <2>1, <2>2, <2>3 DEF LengthInv
<1>23. GatherInv'
  <2> SUFFICES ASSUME NoNegativeFriction, NEW i \in 1 .. l
               PROVE  (\E D \in SUBSET calculated : /\ Into(frames[i].cell) = D \cup Waiting(i)
                                                    /\ Gathered(frames[i], D))'
    BY <1>15, <1>17 DEF GatherInv
  <2>1. i \in 1 .. m /\ frames'[i] = frames[i]
    BY <1>17
  <2>2. PICK D \in SUBSET calculated : /\ Into(frames[i].cell) = D \cup Waiting(i)
                                       /\ Gathered(frames[i], D)
    BY <1>3, <1>4, <2>1 DEF GatherInv
  <2>3. PICK g, d : g = frames[i] /\ g.cell = d
    OBVIOUS
  <2>4. \A n \in D : Through(n, d)' = Through(n, d)
    <3>1. d \in Cell /\ D \subseteq DataCells(call.ldd) /\ x \notin D
      BY <1>2, <1>7, <1>9, <2>1, <2>2, <2>3, KnownIs DEF Into
    <3> QED  BY <1>14, <3>1
  <2>5. Gathered(g, D)'
    BY <1>1, <2>2, <2>3, <2>4, GatheredSame
  <2>6. Gathered(frames[i], D)'
    BY <2>1, <2>3, <2>5 DEF Gathered
  <2>7. Into(frames[i].cell)' = D \cup Waiting(i)'
    BY <1>15, <2>1, <2>2, <2>3 DEF Waiting
  <2> QED  BY <1>1, <2>6, <2>7
<1> QED  BY <1>11, <1>19, <1>20, <1>21, <1>22, <1>23 DEF SlopeInv

(* A step that leaves the calculation as it is. *)
LEMMA SlopeSame ==
  ASSUME SlopeInv, pc' = "overflow" => pc = "overflow",
         UNCHANGED <<call, cursor, calculated, frames, result>>
  PROVE  SlopeInv'
<1> SUFFICES ASSUME call.op = "slope_length" PROVE SlopeInv'
  BY DEF SlopeInv
<1>1. OrderInv /\ ScanInv /\ FramesInv /\ ChainInv /\ LengthInv /\ GatherInv
  BY DEF SlopeInv
<1>2. /\ known' = known /\ Known' = Known /\ NoNegativeFriction' = NoNegativeFriction
      /\ \A c : Into(c)' = Into(c) /\ Above(c)' = Above(c)
      /\ \A c : Onward(known, c)' = Onward(known, c)
      /\ \A n, c : WayDown(n, c)' = WayDown(n, c)
  BY SameCall
<1>3. \A n, c : Through(n, c)' = Through(n, c)
  BY <1>2 DEF Through, Plus
<1>4. OrderInv' /\ ScanInv' /\ FramesInv'
  BY <1>1, <1>2 DEF OrderInv, ScanInv, FramesInv, Waiting
<1>5. ChainInv'
  <2>1. \A c : Circles(c)' = Circles(c)
    BY SameCall
  <2>2. StepsDown'
    BY <1>1, <1>2 DEF ChainInv, StepsDown
  <2> QED  BY <1>1, <1>2, <2>1, <2>2 DEF ChainInv
<1>6. LengthInv'
  <2>1. \A c : LengthIs(c)' <=> LengthIs(c)
    BY <1>3, LengthSame
  <2> QED  BY <1>1, <1>2, <2>1 DEF LengthInv
<1>7. GatherInv'
  <2> SUFFICES ASSUME NoNegativeFriction, NEW i \in 1 .. Len(frames)
               PROVE  (\E D \in SUBSET calculated : /\ Into(frames[i].cell) = D \cup Waiting(i)
                                                    /\ Gathered(frames[i], D))'
    BY <1>2 DEF GatherInv
  <2>1. PICK D \in SUBSET calculated : /\ Into(frames[i].cell) = D \cup Waiting(i)
                                       /\ Gathered(frames[i], D)
    BY <1>1 DEF GatherInv
  <2>2. PICK g, d : g = frames[i] /\ g.cell = d
    OBVIOUS
  <2>3. Gathered(g, D)'
    BY <1>3, <2>1, <2>2, GatheredSame
  <2>4. Gathered(frames[i], D)'
    BY <2>2, <2>3 DEF Gathered
  <2>5. Into(frames[i].cell)' = D \cup Waiting(i)'
    BY <1>2, <2>1, <2>2 DEF Waiting
  <2> QED  BY <2>1, <2>4, <2>5
<1> QED  BY <1>4, <1>5, <1>6, <1>7 DEF SlopeInv

LEMMA SlopeNext == Types /\ SlopeInv /\ [Next]_vars => SlopeInv'
<1> SUFFICES ASSUME Types, SlopeInv, [Next]_vars PROVE SlopeInv'
  OBVIOUS
<1>1. ASSUME StartAtPit \/ VisitUpstream \/ EndOfCatchment PROVE SlopeInv'
  BY <1>1 DEF StartAtPit, VisitUpstream, EndOfCatchment, SlopeInv
<1>2. ASSUME Return PROVE SlopeInv'
  BY <1>2, SlopeSame DEF Return, EndScan
<1>3. ASSUME UNCHANGED vars PROVE SlopeInv'
  BY <1>3, SlopeSame DEF vars
<1> QED  BY <1>1, <1>2, <1>3, SlopeFromLoop, SlopeForNeighbour, SlopeEndCall DEF Next

-----------------------------------------------------------------------------
(* What follows for slope_length                                           *)

LEMMA NoCircles ==
  ASSUME Types, SlopeInv, pc = "returned", call.op = "slope_length"
  PROVE  calculated = Cell /\ \A c \in Known : ~Circles(c)
<1>1. /\ call \in Calls /\ calculated \in SUBSET Cell /\ frames = <<>> /\ PastEnd(cursor)
      /\ OrderInv /\ ScanInv
  BY DEF Types, SlopeInv
<1>2. \A c \in Cell : Before(c, cursor)
  BY <1>1, GridAssumption DEF PastEnd, Before, Cell
<1>3. calculated = Cell
  BY <1>1, <1>2 DEF ScanInv
<1>4. ASSUME NEW c \in Known, Circles(c) PROVE FALSE
  <2>1. Known \in SUBSET Cell /\ \A a \in Known : Onward(known, a) \subseteq Known
    BY <1>1, KnownIs, KnownOnward
  <2>2. PICK S \in SUBSET Known : S # {} /\ \A a \in S : Onward(known, a) \cap S # {}
    BY <1>4, <2>1, CircleOfCells DEF Circles
  <2>3. S \in SUBSET (calculated \cap Known)
    BY <1>3, <2>1
  <2>4. \E a \in S : Onward(known, a) \cap S = {}
    BY <1>1, <2>2, <2>3 DEF OrderInv
  <2> QED  BY <2>2, <2>4
<1> QED  BY <1>3, <1>4

LEMMA OverflowsSound == Types /\ SlopeInv => OverflowsOnLoops
<1> SUFFICES ASSUME Types, SlopeInv PROVE OverflowsOnLoops
  OBVIOUS
<1>1. /\ call \in Calls /\ call.op \in {"slope_length", "catchment"}
      /\ call.op = "catchment" => pc # "overflow" /\ frames = <<>>
  BY CallFields DEF Types
<1>2. pc = "overflow" => \E c \in DataCells(known) : Circles(c)
  BY <1>1 DEF SlopeInv, ChainInv, Known
<1>3. pc = "returned" /\ call.op = "slope_length" => \A c \in DataCells(known) : ~Circles(c)
  BY NoCircles DEF Known
<1>4. Len(frames) <= MaxDepth
  <2>1. CASE call.op = "slope_length"
    BY <2>1 DEF SlopeInv, ChainInv
  <2>2. CASE call.op = "catchment"
    BY <1>1, <2>2, LddUpstreamAssumption
  <2> QED  BY <1>1, <2>1, <2>2
<1> QED  BY <1>2, <1>3, <1>4 DEF OverflowsOnLoops

(* Water over known cells that has not ended after n steps.                *)
LEMMA CostIs ==
  ASSUME call \in Calls, NEW s \in Known, NEW n \in 0 .. Rows * Cols, Course(known, s)[n] # {}
  PROVE  /\ Cost(s, n) \in Int
         /\ n = 0 => Cost(s, n) = 0
         /\ n # 0 => \A a \in Course(known, s)[n - 1] : \A b \in Course(known, s)[n] :
                       WayDown(a, b) \in Int /\ Cost(s, n) = Cost(s, n - 1) + WayDown(a, b)
<1> DEFINE N == Rows * Cols
<1>1. PICK way : way = Course(known, s)
  OBVIOUS
<1>2. PICK step : step = [k \in 1 .. N |-> WayDown(CHOOSE c \in way[k - 1] : TRUE,
                                                   CHOOSE c \in way[k] : TRUE)]
  OBVIOUS
<1>3. \A k : Cost(s, k) = SumFunctionOnSet(step, 1 .. k)
  BY <1>1, <1>2 DEF Cost
<1>4. N \in Nat /\ s \in Cell
  BY GridAssumption, KnownIs
<1>5. ASSUME NEW k \in 0 .. n PROVE way[k] # {} /\ way[k] \subseteq Known
  <2>1. k \in 0 .. N /\ n \in k .. N
    BY <1>4
  <2>2. Course(known, s)[k] # {}
    BY <1>4, <2>1, CourseEnded
  <2>3. \A c \in Known : Onward(known, c) \subseteq Known
    BY KnownOnward
  <2>4. Course(known, s)[k] \subseteq Known
    BY <2>1, <2>3, CourseWithin, KnownIs
  <2> QED  BY <1>1, <2>2, <2>4
<1>6. \A a, b \in Known : WayDown(a, b) \in Int
  <2> TAKE a, b \in Known
  <2>1. a \in Cell /\ b \in Cell /\ friction[a] # NoData /\ friction[b] # NoData
    BY KnownIs
  <2> QED  BY <2>1, WayDownType
<1>7. \A k \in 1 .. n : step[k] \in Int
  <2> TAKE k \in 1 .. n
  <2>1. k \in 1 .. N /\ k - 1 \in 0 .. n /\ k \in 0 .. n
    BY <1>4
  <2>2. PICK a, b : a = (CHOOSE c \in way[k - 1] : TRUE) /\ b = (CHOOSE c \in way[k] : TRUE)
    OBVIOUS
  <2>3. a \in Known /\ b \in Known
    <3>1. way[k - 1] # {} /\ way[k - 1] \subseteq Known
      BY <1>5, <2>1
    <3>2. way[k] # {} /\ way[k] \subseteq Known
      BY <1>5, <2>1
    <3> QED  BY <2>2, <3>1, <3>2
  <2>4. step[k] = WayDown(a, b)
    BY <1>2, <2>1, <2>2
  <2> QED  BY <1>6, <2>3, <2>4
<1>8. IsFiniteSet(1 .. n) /\ IsFiniteSet(1 .. n - 1)
  BY <1>4, FS_Interval
<1>9. Cost(s, n) \in Int
  BY <1>3, <1>7, <1>8, SumType
<1>10. ASSUME n = 0 PROVE Cost(s, n) = 0
  <2>1. 1 .. n = {}
    BY <1>10
  <2> QED  BY <1>3, <2>1, SumEmpty
<1>11. ASSUME n # 0, NEW a \in Course(known, s)[n - 1], NEW b \in Course(known, s)[n]
       PROVE  WayDown(a, b) \in Int /\ Cost(s, n) = Cost(s, n - 1) + WayDown(a, b)
  <2>1. n \in 1 .. n /\ n \in 1 .. N /\ n - 1 \in 0 .. N /\ n \in 0 .. N
    BY <1>4, <1>11
  <2>2. (1 .. n) \ {n} = 1 .. n - 1
    BY <1>4
  <2>3. SumFunctionOnSet(step, 1 .. n) = step[n] + SumFunctionOnSet(step, (1 .. n) \ {n})
    BY <1>7, <1>8, <2>1, SumRemove
  <2>4. way[n - 1] = {a} /\ way[n] = {b} /\ a \in Cell /\ b \in Cell
    BY <1>1, <1>4, <1>11, <2>1, CourseSingle
  <2>5. (CHOOSE c \in way[n - 1] : TRUE) = a /\ (CHOOSE c \in way[n] : TRUE) = b
    BY <2>4
  <2>6. step[n] = WayDown(a, b)
    BY <1>2, <2>1, <2>5
  <2>7. step[n] \in Int
    BY <1>7, <2>1
  <2>8. Cost(s, n - 1) = SumFunctionOnSet(step, 1 .. n - 1) /\ Cost(s, n) = SumFunctionOnSet(step, 1 .. n)
    BY <1>3
  <2>9. Cost(s, n - 1) \in Int
    <3>1. \A k \in 1 .. n - 1 : step[k] \in Int
      BY <1>7
    <3> QED  BY <1>8, <2>8, <3>1, SumType
  <2>10. Cost(s, n) = step[n] + Cost(s, n - 1)
    BY Zenon, <2>2, <2>3, <2>8
  <2>11. PICK p \in Int, q \in Int : p = step[n] /\ q = Cost(s, n - 1)
    BY <2>7, <2>9
  <2> QED  BY <2>6, <2>10, <2>11
<1> QED  BY <1>9, <1>10, <1>11

(* The ways to a cell come from a spring there or by the cells above.      *)
LEMMA LengthsAre ==
  ASSUME call \in Calls, NEW c \in Known, \A a \in Known : ~Circles(a)
  PROVE  /\ LengthsTo(c) \in SUBSET Int
         /\ Into(c) = {} => LengthsTo(c) = {0}
         /\ Into(c) # {} => \A l : l \in LengthsTo(c) <=>
              \E n \in Above(c) : \E k \in LengthsTo(n) : l = k + WayDown(n, c)
<1> DEFINE N == Rows * Cols
           Springs == {s \in Known : Into(s) = {}}
<1>1. N \in Nat \ {0} /\ Known \in SUBSET Cell /\ c \in Cell
  BY GridAssumption, KnownIs
<1>2. \A s : IsSpring(s) <=> Into(s) = {}
  BY DEF IsSpring, Into
<1>3. \A d, l : l \in LengthsTo(d) <=> \E s \in Springs : \E n \in 0 .. N :
                                         d \in Course(known, s)[n] /\ l = Cost(s, n)
  <2> TAKE d, l
  <2>1. LengthsTo(d) = UNION {{Cost(s, n) : n \in {k \in 0 .. N : d \in Course(known, s)[k]}} :
                                s \in Springs}
    BY <1>2 DEF LengthsTo, Known
  <2> HIDE DEF Springs, N
  <2> QED  BY <2>1
<1>4. \A s \in Springs : s \in Known /\ s \in Cell /\ Into(s) = {}
  BY <1>1
<1> HIDE DEF Springs
<1>5. LengthsTo(c) \in SUBSET Int
  <2> SUFFICES ASSUME NEW l \in LengthsTo(c) PROVE l \in Int
    OBVIOUS
  <2>1. PICK s \in Springs : \E n \in 0 .. N : c \in Course(known, s)[n] /\ l = Cost(s, n)
    BY <1>3
  <2>2. PICK n \in 0 .. N : c \in Course(known, s)[n] /\ l = Cost(s, n)
    BY <2>1
  <2>3. Course(known, s)[n] # {}
    BY <2>2
  <2> QED  BY <1>4, <2>2, <2>3, CostIs
<1>6. ASSUME NEW s \in Springs, NEW n \in 0 .. N, c \in Course(known, s)[n], n # 0
      PROVE  \E a \in Above(c) : /\ a \in Course(known, s)[n - 1]
                                 /\ Cost(s, n) = Cost(s, n - 1) + WayDown(a, c)
  <2>1. n \in 1 .. N /\ s \in Known /\ s \in Cell
    BY <1>1, <1>4, <1>6
  <2>2. Course(known, s)[n] = UNION {Onward(known, b) : b \in Course(known, s)[n - 1]}
    BY <2>1, CourseDef
  <2>3. PICK a \in Course(known, s)[n - 1] : c \in Onward(known, a)
    BY <1>6, <2>2
  <2>4. a \in Known
    <3>1. \A b \in Known : Onward(known, b) \subseteq Known
      BY KnownOnward
    <3>2. n - 1 \in 0 .. N
      BY <1>1, <2>1
    <3>3. Course(known, s)[n - 1] \subseteq Known
      BY <1>1, <2>1, <3>1, <3>2, CourseWithin
    <3> QED  BY <3>3
  <2>5. a \in Above(c)
    BY <2>3, <2>4 DEF Above
  <2>6. Course(known, s)[n] # {}
    BY <1>6
  <2>7. Cost(s, n) = Cost(s, n - 1) + WayDown(a, c)
    BY <1>6, <2>1, <2>3, <2>6, CostIs
  <2> QED  BY <2>3, <2>5, <2>7
<1>7. ASSUME Into(c) = {} PROVE LengthsTo(c) = {0}
  <2>1. Above(c) = {}
    BY <1>7, AboveIs
  <2>2. c \in Springs
    BY <1>7 DEF Springs
  <2>3. 0 \in LengthsTo(c)
    <3>1. Course(known, c)[0] = {c} /\ 0 \in 0 .. N
      BY <1>1, CourseDef
    <3>2. Cost(c, 0) = 0
      BY <3>1, CostIs
    <3> QED  BY <1>3, <2>2, <3>1, <3>2
  <2>4. \A l \in LengthsTo(c) : l = 0
    <3> TAKE l \in LengthsTo(c)
    <3>1. PICK s \in Springs : \E n \in 0 .. N : c \in Course(known, s)[n] /\ l = Cost(s, n)
      BY <1>3
    <3>2. PICK n \in 0 .. N : c \in Course(known, s)[n] /\ l = Cost(s, n)
      BY <3>1
    <3>3. n = 0
      BY <1>6, <2>1, <3>2
    <3>4. Course(known, s)[n] # {}
      BY <3>2
    <3> QED  BY <1>4, <3>2, <3>3, <3>4, CostIs
  <2> QED  BY <2>3, <2>4
<1>8. ASSUME Into(c) # {}, NEW l \in LengthsTo(c)
      PROVE  \E n \in Above(c) : \E k \in LengthsTo(n) : l = k + WayDown(n, c)
  <2>1. PICK s \in Springs : \E n \in 0 .. N : c \in Course(known, s)[n] /\ l = Cost(s, n)
    BY <1>3
  <2>2. PICK n \in 0 .. N : c \in Course(known, s)[n] /\ l = Cost(s, n)
    BY <2>1
  <2>3. n # 0
    BY <1>4, <1>8, <2>2, CourseDef
  <2>4. PICK a \in Above(c) : /\ a \in Course(known, s)[n - 1]
                              /\ Cost(s, n) = Cost(s, n - 1) + WayDown(a, c)
    BY <1>6, <2>2, <2>3
  <2>5. n - 1 \in 0 .. N
    BY <1>1, <2>3
  <2>6. Cost(s, n - 1) \in LengthsTo(a)
    BY <1>3, <2>4, <2>5
  <2> QED  BY <2>2, <2>4, <2>6
<1>9. ASSUME NEW a \in Above(c), NEW k \in LengthsTo(a) PROVE k + WayDown(a, c) \in LengthsTo(c)
  <2>1. PICK s \in Springs : \E n \in 0 .. N : a \in Course(known, s)[n] /\ k = Cost(s, n)
    BY <1>3
  <2>2. PICK n \in 0 .. N : a \in Course(known, s)[n] /\ k = Cost(s, n)
    BY <2>1
  <2>3. a \in Known /\ c \in Onward(known, a)
    BY DEF Above
  <2>4. n # N
    BY <1>4, <2>2 DEF Circles
  <2>5. n + 1 \in 1 .. N /\ n + 1 \in 0 .. N /\ (n + 1) - 1 = n
    BY <1>1, <2>4
  <2>6. PICK m \in 1 .. N : m = n + 1 /\ m - 1 = n /\ m \in 0 .. N
    BY <2>5
  <2>7. c \in Course(known, s)[m]
    <3>1. Course(known, s)[m] = UNION {Onward(known, b) : b \in Course(known, s)[m - 1]}
      BY <1>4, CourseDef
    <3> QED  BY <2>2, <2>3, <2>6, <3>1
  <2>8. Course(known, s)[m] # {} /\ m # 0 /\ a \in Course(known, s)[m - 1]
    BY <2>2, <2>6, <2>7
  <2>9. Cost(s, m) = Cost(s, m - 1) + WayDown(a, c)
    BY <1>4, <2>6, <2>7, <2>8, CostIs
  <2>10. Cost(s, m) = k + WayDown(a, c)
    BY <2>2, <2>6, <2>9
  <2> QED  BY <1>3, <2>6, <2>7, <2>10
<1> QED  BY <1>5, <1>7, <1>8, <1>9

LEMMA LengthsSound == Types /\ SlopeInv => SlopeLengthExact
<1> SUFFICES ASSUME Types, SlopeInv, pc = "returned", call.op = "slope_length",
                    NoNegativeFriction, NEW cell \in Cell
             PROVE  LET lengths == LengthsTo(cell)
                    IN  IF lengths = {} THEN result[cell] = NoData
                        ELSE result[cell] \in lengths /\ \A l \in lengths : l <= result[cell]
  BY DEF SlopeLengthExact, NoNegativeFriction
<1> DEFINE Right(c) == IF LengthsTo(c) = {} THEN result[c] = NoData
                       ELSE result[c] \in LengthsTo(c) /\ \A l \in LengthsTo(c) : l <= result[c]
           Bad == {c \in Known : ~Right(c)}
<1>1. /\ call \in Calls /\ OrderInv /\ LengthInv /\ result \in [Cell -> Number]
      /\ calculated = Cell /\ \A c \in Known : ~Circles(c)
      /\ Known \in SUBSET Cell /\ NoData \notin Int
  BY NoCircles, KnownIs, LddUpstreamAssumption DEF Types, SlopeInv
<1>2. CASE cell \notin Known
  <2>1. result[cell] = NoData
    BY <1>1, <1>2 DEF LengthInv
  <2>2. LengthsTo(cell) = {}
    <3>1. ASSUME NEW s \in Known, NEW n \in 0 .. Rows * Cols PROVE cell \notin Course(known, s)[n]
      <4>1. \A b \in Known : Onward(known, b) \subseteq Known
        BY <1>1, KnownOnward
      <4>2. Course(known, s)[n] \subseteq Known
        BY <1>1, <4>1, CourseWithin
      <4> QED  BY <1>2, <4>2
    <3>2. \A s \in Known : {n \in 0 .. Rows * Cols : cell \in Course(known, s)[n]} = {}
      BY <3>1
    <3>3. ASSUME NEW l \in LengthsTo(cell) PROVE FALSE
      <4>1. PICK s \in Known : l \in {Cost(s, n) : n \in {k \in 0 .. Rows * Cols : cell \in Course(known, s)[k]}}
        BY <3>3 DEF LengthsTo, Known
      <4> QED  BY <3>2, <4>1
    <3> QED  BY <3>3
  <2> QED  BY <2>1, <2>2
<1>3. CASE cell \in Known
  <2>1. SUFFICES Bad = {}
    BY <1>3
  <2>2. SUFFICES ASSUME Bad # {} PROVE FALSE
    OBVIOUS
  <2>3. PICK c \in Bad : Above(c) \cap Bad = {}
    <3>1. Bad \in SUBSET (calculated \cap Known)
      BY <1>1
    <3> HIDE DEF Bad
    <3> QED  BY <1>1, <2>2, <3>1 DEF OrderInv
  <2>4. c \in Known /\ c \in Cell /\ ~Right(c)
    BY <1>1
  <2>5. \A n \in Above(c) : n \in Known /\ Right(n)
    BY <2>3 DEF Above
  <2> HIDE DEF Bad
  <2>6. LengthIs(c)
    BY <1>1, <2>4 DEF LengthInv
  <2>7. /\ LengthsTo(c) \in SUBSET Int
        /\ Into(c) = {} => LengthsTo(c) = {0}
        /\ Into(c) # {} => \A l : l \in LengthsTo(c) <=>
             \E n \in Above(c) : \E k \in LengthsTo(n) : l = k + WayDown(n, c)
    BY <1>1, <2>4, LengthsAre
  <2>8. Above(c) = Into(c) \cap Known /\ Into(c) \subseteq DataCells(call.ldd)
    BY <1>1, <2>4, AboveIs DEF Into
  <2>9. \A n \in Above(c) : LengthsTo(n) \in SUBSET Int
    BY <1>1, <2>5, LengthsAre
  <2>10. CASE Into(c) = {}
    <3>1. result[c] = 0
      BY <2>6, <2>10 DEF LengthIs, LongestOf
    <3>2. LengthsTo(c) = {0}
      BY <2>7, <2>10
    <3> QED  BY <2>4, <3>1, <3>2
  <2>11. CASE Into(c) # {} /\ \A n \in Into(c) : Through(n, c) = NoData
    <3>1. result[c] = NoData
      BY <2>6, <2>11 DEF LengthIs
    <3>2. ASSUME NEW n \in Above(c) PROVE LengthsTo(n) = {}
      <4>1. Through(n, c) = NoData /\ n \in DataCells(call.ldd) /\ n \in Known
        BY <2>8, <2>11
      <4>2. result[n] = NoData
        BY <1>1, <2>4, <4>1, ThroughIs
      <4> QED  BY <1>1, <2>5, <2>9, <4>2
    <3>3. LengthsTo(c) = {}
      BY <2>7, <2>11, <3>2
    <3> QED  BY <2>4, <3>1, <3>3
  <2>12. CASE Into(c) # {} /\ \E n \in Into(c) : Through(n, c) # NoData
    <3>1. /\ result[c] \in Int
          /\ \A n \in Into(c) : Through(n, c) = NoData \/ Through(n, c) <= result[c]
          /\ \E n \in Into(c) : Through(n, c) = result[c]
      BY <2>6, <2>12 DEF LengthIs, LongestOf
    <3>2. ASSUME NEW n \in Into(c), Through(n, c) # NoData
          PROVE  /\ n \in Above(c) /\ result[n] \in LengthsTo(n)
                 /\ Through(n, c) = result[n] + WayDown(n, c)
                 /\ result[n] \in Int /\ WayDown(n, c) \in Int
      <4>1. n \in DataCells(call.ldd) /\ n \in Known /\ n \in Above(c)
        BY <1>1, <2>4, <2>8, <3>2, ThroughIs
      <4>2. result[n] # NoData /\ Through(n, c) = result[n] + WayDown(n, c)
            /\ result[n] \in Int /\ WayDown(n, c) \in Int
        BY <1>1, <2>4, <3>2, <4>1, ThroughIs
      <4> QED  BY <2>5, <4>1, <4>2
    <3>3. result[c] \in LengthsTo(c)
      <4>1. PICK n \in Into(c) : Through(n, c) = result[c]
        BY <3>1
      <4>2. Through(n, c) # NoData
        BY <1>1, <3>1, <4>1
      <4> QED  BY <2>7, <2>12, <3>2, <4>1, <4>2
    <3>4. ASSUME NEW l \in LengthsTo(c) PROVE l <= result[c]
      <4>1. PICK n \in Above(c) : \E k \in LengthsTo(n) : l = k + WayDown(n, c)
        BY <2>7, <2>12
      <4>2. PICK k \in LengthsTo(n) : l = k + WayDown(n, c)
        BY <4>1
      <4>3. k \in Int /\ result[n] \in Int /\ k <= result[n]
        BY <2>5, <2>9, <4>2
      <4>4. n \in DataCells(call.ldd) /\ n \in Known /\ result[n] # NoData
        BY <1>1, <2>8, <4>3
      <4>5. Through(n, c) = result[n] + WayDown(n, c) /\ Through(n, c) # NoData /\ WayDown(n, c) \in Int
        BY <1>1, <2>4, <4>4, ThroughIs
      <4>6. Through(n, c) <= result[c]
        BY <2>8, <3>1, <4>5
      <4> QED  BY <3>1, <4>2, <4>3, <4>5, <4>6
    <3> QED  BY <2>4, <3>3, <3>4
  <2> QED  BY <2>10, <2>11, <2>12
<1> QED  BY <1>2, <1>3

-----------------------------------------------------------------------------
(* Stations on the way                                                     *)

LEMMA ReachesOnward ==
  ASSUME NEW map, NEW a \in Cell, NEW d \in Cell, Reaches(map, a, d), NEW x \in Onward(map, d)
  PROVE  Reaches(map, a, x) /\ x \in Cell
<1>1. x \in Cell
  BY OnwardSingle
<1>2. SUFFICES ASSUME NEW S \in SUBSET Cell, a \in S, x \notin S,
                      \A e \in S \ {x} : Onward(map, e) \subseteq S
               PROVE  FALSE
  BY <1>1 DEF Reaches
<1>3. d \in S
  BY <1>2 DEF Reaches
<1> QED  BY <1>2, <1>3

LEMMA ReachesItself ==
  ASSUME NEW map, NEW a \in Cell
  PROVE  Reaches(map, a, a)
BY DEF Reaches

(* Water that comes to another cell comes there from one next to it.       *)
LEMMA ReachesThrough ==
  ASSUME NEW map, NEW a \in Cell, NEW b \in Cell, a # b, Reaches(map, a, b)
  PROVE  \E n \in Cell : b \in Onward(map, n) /\ Reaches(map, a, n)
<1>1. SUFFICES ASSUME \A n \in Cell : Reaches(map, a, n) => b \notin Onward(map, n)
               PROVE  FALSE
  OBVIOUS
<1> DEFINE S == {d \in Cell : Reaches(map, a, d)} \ {b}
<1>2. S \in SUBSET Cell /\ a \in S
  BY ReachesItself
<1>3. \A d \in S : Onward(map, d) \subseteq S
  BY <1>1, ReachesOnward
<1>4. b \in S
  <2> HIDE DEF S
  <2> QED  BY <1>2, <1>3 DEF Reaches
<1> QED  BY <1>4

LEMMA DrainsToPit ==
  ASSUME NEW map, NEW a \in Cell, Drains(map, a)
  PROVE  \E p \in Cell : map.dir[p] = Pit /\ Reaches(map, a, p)
<1>1. SUFFICES ASSUME \A p \in Cell : Reaches(map, a, p) => map.dir[p] # Pit PROVE FALSE
  OBVIOUS
<1> DEFINE S == {d \in Cell : Reaches(map, a, d)}
<1>2. S \in SUBSET Cell /\ a \in S /\ \A d \in S : map.dir[d] # Pit
  BY <1>1, ReachesItself
<1>3. \A d \in S : Onward(map, d) \subseteq S
  BY ReachesOnward
<1> HIDE DEF S
<1> QED  BY <1>2, <1>3, TrappedNeverDrains

(* A neighbour that drains into a labelled cell or a pit.                  *)
LEMMA InflowLabelled ==
  ASSUME call \in Calls, NEW c \in Data, Drains(call.ldd, c),
         NEW n \in Cell, n # c, FlowsInto(call.ldd, n, c)
  PROVE  n \in Labelled /\ Onward(call.ldd, n) = {c}
<1>1. call.ldd.nodata \notin 1 .. 9 /\ c \in Cell /\ ~is_nodata(call.ldd, c)
  BY CallFields DEF Data, DataCells
<1>2. ~is_nodata(call.ldd, n) /\ call.ldd.dir[n] # Pit
  BY <1>1, UpstreamHasData
<1>3. c \in Onward(call.ldd, n)
  BY <1>1, <1>2 DEF Onward
<1>4. Onward(call.ldd, n) = {c}
  BY <1>3, OnwardSingle
<1>5. Drains(call.ldd, n)
  BY <1>3, DrainsThrough
<1> QED  BY <1>2, <1>4, <1>5 DEF Labelled, Data, DataCells

LEMMA LastIs ==
  ASSUME NEW c
  PROVE  /\ PassedAt(c) # {} => LastPassed(c) \in PassedAt(c) /\ \A k \in PassedAt(c) : k <= LastPassed(c)
         /\ \A m \in PassedAt(c) : (\A k \in PassedAt(c) : k <= m) => LastPassed(c) = m
<1> DEFINE N == Rows * Cols
<1>1. PICK P : P = PassedAt(c)
  OBVIOUS
<1>2. N \in Nat /\ P \in SUBSET (0 .. N)
  BY <1>1, GridAssumption DEF PassedAt
<1>3. LastPassed(c) = CHOOSE n \in P : \A k \in P : k <= n
  BY <1>1 DEF LastPassed
<1> HIDE DEF N
<1>4. ASSUME P # {} PROVE \E n \in P : \A k \in P : k <= n
  <2> DEFINE Q == {N - k : k \in P}
  <2>1. Q \in SUBSET Nat /\ Q # {}
    <3>1. \A k \in P : N - k \in Nat
      BY <1>2
    <3> QED  BY <1>4, <3>1
  <2>2. PICK q \in Q : \A j \in Q : q <= j
    <3> HIDE DEF Q
    <3> QED  BY <2>1, LeastNatural
  <2>3. PICK n \in P : q = N - n
    OBVIOUS
  <2>4. \A k \in P : k <= n
    <3> TAKE k \in P
    <3>1. N - n <= N - k
      BY <2>2, <2>3
    <3> QED  BY <1>2, <3>1
  <2> QED  BY <2>4
<1>5. P # {} => LastPassed(c) \in P /\ \A k \in P : k <= LastPassed(c)
  BY <1>3, <1>4
<1>6. ASSUME NEW m \in P, \A k \in P : k <= m PROVE LastPassed(c) = m
  <2>1. LastPassed(c) \in P /\ m <= LastPassed(c) /\ LastPassed(c) <= m
    BY <1>5, <1>6
  <2>2. LastPassed(c) \in Int /\ m \in Int
    <3>1. \A k \in P : k \in Int
      BY <1>2
    <3> QED  BY <1>6, <2>1, <3>1
  <2> QED  BY <2>1, <2>2
<1> QED  BY <1>1, <1>5, <1>6

LEMMA IdAtPit ==
  ASSUME call \in Calls, NEW p \in Cell, call.ldd.dir[p] = Pit
  PROVE  IdFrom(p) = IF station[p] \in {0, NoData} THEN None ELSE {station[p]}
<1> DEFINE N == Rows * Cols
<1>1. N \in Nat \ {0}
  BY GridAssumption
<1>2. Course(call.ldd, p)[0] = {p}
  BY CourseDef
<1>3. Onward(call.ldd, p) = {}
  BY DEF Onward
<1>4. Course(call.ldd, p)[1] = {}
  <2>1. 1 \in 1 .. N /\ 1 - 1 = 0
    BY <1>1
  <2>2. Course(call.ldd, p)[1] = UNION {Onward(call.ldd, c) : c \in Course(call.ldd, p)[1 - 1]}
    BY <2>1, CourseDef
  <2> QED  BY <1>2, <1>3, <2>1, <2>2
<1>5. \A k \in 0 .. N : k # 0 => Course(call.ldd, p)[k] = {}
  <2>1. \A k \in 1 .. N : Course(call.ldd, p)[k] = {}
    BY <1>1, <1>4, CourseEnded
  <2> QED  BY <1>1, <2>1
<1>6. StationAt(p) <=> station[p] \notin {0, NoData}
  BY DEF StationAt
<1>7. CASE StationAt(p)
  <2>1. PassedAt(p) = {0}
    BY <1>1, <1>2, <1>5, <1>7 DEF PassedAt
  <2>2. LastPassed(p) = 0
    BY <2>1, LastIs
  <2> QED  BY <1>2, <1>6, <1>7, <2>1, <2>2 DEF IdFrom
<1>8. CASE ~StationAt(p)
  <2>1. PassedAt(p) = {}
    BY <1>1, <1>2, <1>5, <1>8 DEF PassedAt
  <2> QED  BY <1>6, <1>8, <2>1 DEF IdFrom
<1> QED  BY <1>7, <1>8

LEMMA IdAbove ==
  ASSUME call \in Calls, NEW n \in Labelled, NEW d \in Cell, Onward(call.ldd, n) = {d}
  PROVE  IdFrom(n) = IF IdFrom(d) # None THEN IdFrom(d)
                     ELSE IF station[n] # 0 THEN {station[n]} ELSE None
<1> DEFINE N == Rows * Cols
<1>1. N \in Nat \ {0} /\ n \in Cell /\ call.ldd.dir[n] # Pit /\ Drains(call.ldd, n)
  BY GridAssumption DEF Labelled, Data, DataCells
<1>2. Drains(call.ldd, d)
  BY <1>1, DrainsThrough
<1>3. /\ Course(call.ldd, n)[0] = {n}
      /\ \A k \in 1 .. N : Course(call.ldd, n)[k] = Course(call.ldd, d)[k - 1]
      /\ Course(call.ldd, d)[N] = {}
  BY <1>1, <1>2, CourseDef, CourseShift, DrainedAtLast
<1>4. StationAt(n) <=> station[n] # 0
  BY <1>1 DEF StationAt
<1>5. PICK P, Q : P = PassedAt(n) /\ Q = PassedAt(d)
  OBVIOUS
<1>6. \A k \in 0 .. N : (k \in P <=> \E s \in Course(call.ldd, n)[k] : StationAt(s))
                     /\ (k \in Q <=> \E s \in Course(call.ldd, d)[k] : StationAt(s))
  BY <1>5 DEF PassedAt
<1>7. P \subseteq 0 .. N /\ Q \subseteq 0 .. N
  BY <1>5 DEF PassedAt
<1>8. 0 \in P <=> station[n] # 0
  BY <1>1, <1>3, <1>4, <1>6
<1>9. N \notin Q
  BY <1>1, <1>3, <1>6
<1>10. \A k \in 1 .. N : k \in P <=> k - 1 \in Q
  <2> TAKE k \in 1 .. N
  <2>1. k \in 0 .. N /\ k - 1 \in 0 .. N
    BY <1>1
  <2> QED  BY <1>3, <1>6, <2>1
<1>11. CASE Q = {}
  <2>1. IdFrom(d) = None
    BY <1>5, <1>11 DEF IdFrom
  <2>2. P \subseteq {0}
    BY <1>1, <1>7, <1>10, <1>11
  <2>3. CASE station[n] # 0
    <3>1. P = {0}
      BY <1>8, <2>2, <2>3
    <3>2. LastPassed(n) = 0
      BY <1>5, <3>1, LastIs
    <3>3. IdFrom(n) = {station[n]}
      BY <1>3, <1>5, <3>1, <3>2 DEF IdFrom
    <3> QED  BY <2>1, <2>3, <3>3
  <2>4. CASE ~(station[n] # 0)
    <3>1. P = {}
      BY <1>8, <2>2, <2>4
    <3>2. IdFrom(n) = None
      BY <1>5, <3>1 DEF IdFrom
    <3> QED  BY <2>1, <2>4, <3>2
  <2> QED  BY <2>3, <2>4
<1>12. CASE Q # {}
  <2>1. PICK m \in Q : m = LastPassed(d) /\ \A k \in Q : k <= m
    BY <1>5, <1>12, LastIs
  <2>2. PICK l \in 1 .. N : l = m + 1 /\ l - 1 = m
    <3>1. m \in 0 .. N /\ m # N
      BY <1>7, <1>9
    <3> QED  BY <1>1, <3>1
  <2>3. l \in P /\ \A k \in P : k <= l
    <3>1. l \in P
      BY <1>10, <2>2
    <3>2. ASSUME NEW k \in P PROVE k <= l
      <4>1. k \in 0 .. N
        BY <1>7
      <4>2. CASE k = 0
        BY <2>2, <4>2
      <4>3. CASE k # 0
        <5>1. k \in 1 .. N /\ k - 1 \in Q
          BY <1>1, <1>10, <4>1, <4>3
        <5>2. k - 1 <= m
          BY <2>1, <5>1
        <5> QED  BY <1>1, <1>7, <2>2, <5>1, <5>2
      <4> QED  BY <4>2, <4>3
    <3> QED  BY <3>1, <3>2
  <2>4. LastPassed(n) = l
    BY <1>5, <2>3, LastIs
  <2>5. Course(call.ldd, n)[l] = Course(call.ldd, d)[m]
    BY <1>3, <2>2
  <2>6. IdFrom(n) = IdFrom(d)
    BY <1>5, <1>12, <2>1, <2>3, <2>4, <2>5 DEF IdFrom
  <2>7. IdFrom(d) # None
    <3>1. \E s \in Course(call.ldd, d)[m] : StationAt(s)
      BY <1>6, <1>7, <2>1
    <3> QED  BY <1>5, <1>12, <2>1, <3>1 DEF IdFrom, None
  <2> QED  BY <2>6, <2>7
<1> QED  BY <1>11, <1>12

-----------------------------------------------------------------------------
(* catchment keeps its invariant                                           *)

LEMMA SameCatchment ==
  ASSUME call' = call
  PROVE  /\ Data' = Data /\ Labelled' = Labelled
         /\ \A c : IdFrom(c)' = IdFrom(c) /\ Answer(c)' = Answer(c)
         /\ \A c : Onward(call.ldd, c)' = Onward(call.ldd, c)
         /\ \A c, d : Reaches(call.ldd, c, d)' <=> Reaches(call.ldd, c, d)
<1>1. Data' = Data
  BY DEF Data
<1>2. Labelled' = Labelled
  BY <1>1 DEF Labelled
<1>3. station' = station
  BY DEF station
<1>4. \A c : StationAt(c)' <=> StationAt(c)
  BY <1>3 DEF StationAt
<1>5. \A c : PassedAt(c)' = PassedAt(c)
  BY <1>4 DEF PassedAt
<1>6. \A c : LastPassed(c)' = LastPassed(c)
  BY <1>5 DEF LastPassed
<1>7. \A c : IdFrom(c)' = IdFrom(c)
  BY <1>3, <1>5, <1>6 DEF IdFrom
<1>8. \A c : Answer(c)' = Answer(c)
  <2> TAKE c
  <2>1. PICK id : id = IdFrom(c) /\ id = IdFrom(c)'
    BY <1>7
  <2> QED  BY <2>1 DEF Answer
<1> QED  BY Zenon, <1>1, <1>2, <1>7, <1>8

LEMMA CatchmentInit == Init => CatchmentInv
<1> SUFFICES ASSUME Init PROVE CatchmentInv
  OBVIOUS
<1>1. /\ call \in Calls /\ upstream = <<>> /\ cursor = <<0, 0>> /\ result = [c \in Cell |-> 0]
  BY DEF Init, BeginScan, FirstCell
<1>2. Range(upstream) = {}
  BY <1>1 DEF Range
<1>3. EntryInv
  BY <1>2 DEF EntryInv
<1>4. Data \in SUBSET Cell /\ Labelled \in SUBSET Data /\ call.ldd.nodata # Pit
  BY <1>1, CallFields DEF Data, DataCells, Labelled, Pit
<1>5. ASSUME NEW c \in Labelled
      PROVE  \E p \in Data : /\ call.ldd.dir[p] = Pit /\ ~Before(p, cursor)
                             /\ Reaches(call.ldd, c, p)
  <2>1. c \in Cell /\ Drains(call.ldd, c)
    BY <1>4 DEF Labelled
  <2>2. PICK p \in Cell : call.ldd.dir[p] = Pit /\ Reaches(call.ldd, c, p)
    BY <2>1, DrainsToPit
  <2>3. p \in Data
    BY <1>4, <2>2 DEF Data, DataCells, is_nodata
  <2>4. ~Before(p, cursor)
    <3>1. p[1] >= 0 /\ p[2] >= 0 /\ p[1] \in Int /\ p[2] \in Int
      BY GridAssumption DEF Cell
    <3> QED  BY <1>1, <3>1 DEF Before
  <2> QED  BY <2>2, <2>3, <2>4
<1>6. AnswerInv
  <2>1. \A c \in Data : result[c] = 0
    BY <1>1, <1>4
  <2> QED  BY <1>4, <1>5, <2>1 DEF AnswerInv
<1> QED  BY <1>3, <1>6 DEF CatchmentInv

(* The entries put on the stack for a cell with its id.                    *)
LEMMA EntriesLabelled ==
  ASSUME call \in Calls, NEW c \in Data, Drains(call.ldd, c), IdFrom(c) \in SUBSET Number
  PROVE  /\ Entries(c, IdFrom(c)) \in Seq(EntryType)
         /\ \A entry \in Range(Entries(c, IdFrom(c))) :
              /\ entry.cell \in Labelled
              /\ \A d \in Onward(call.ldd, entry.cell) : entry.id = IdFrom(d)
         /\ \A b \in Labelled : b # c /\ Reaches(call.ldd, b, c) =>
              \E entry \in Range(Entries(c, IdFrom(c))) : Reaches(call.ldd, b, entry.cell)
<1>1. c \in Cell /\ Labelled \in SUBSET Cell
  BY DEF Data, DataCells, Labelled
<1>2. PICK id \in SUBSET Number : id = IdFrom(c)
  OBVIOUS
<1>3. PICK s : s = Entries(c, id)
  OBVIOUS
<1>4. /\ s \in Seq(EntryType)
      /\ \A entry \in Range(s) : /\ entry.cell \in Cell \ {c} /\ FlowsInto(call.ldd, entry.cell, c)
                                 /\ entry.id = id
      /\ \A n \in Cell \ {c} : FlowsInto(call.ldd, n, c) => \E entry \in Range(s) : entry.cell = n
  BY <1>1, <1>3, EntriesType
<1>5. \A n \in Cell \ {c} : FlowsInto(call.ldd, n, c) => n \in Labelled /\ Onward(call.ldd, n) = {c}
  BY InflowLabelled
<1>6. \A entry \in Range(s) :
        /\ entry.cell \in Labelled
        /\ \A d \in Onward(call.ldd, entry.cell) : entry.id = IdFrom(d)
  BY <1>2, <1>4, <1>5
<1>7. ASSUME NEW b \in Labelled, b # c, Reaches(call.ldd, b, c)
      PROVE  \E entry \in Range(s) : Reaches(call.ldd, b, entry.cell)
  <2>1. PICK n \in Cell : c \in Onward(call.ldd, n) /\ Reaches(call.ldd, b, n)
    BY <1>1, <1>7, ReachesThrough
  <2>2. FlowsInto(call.ldd, n, c)
    BY <2>1 DEF Onward
  <2>3. n # c
    <3> SUFFICES ASSUME n = c PROVE FALSE
      OBVIOUS
    <3>1. call.ldd.dir[c] # Pit /\ Onward(call.ldd, c) = {c}
      BY <1>1, <2>1, OnwardSingle
    <3>2. ~Drains(call.ldd, c)
      <4>1. {c} \in SUBSET Cell /\ c \in {c}
            /\ \A d \in {c} : call.ldd.dir[d] # Pit /\ Onward(call.ldd, d) \subseteq {c}
        BY <1>1, <3>1
      <4> QED  BY <1>1, <4>1, TrappedNeverDrains
    <3> QED  BY <3>2
  <2> QED  BY <1>4, <2>1, <2>2, <2>3
<1> QED  BY <1>2, <1>3, <1>4, <1>6, <1>7

LEMMA CatchmentStart == Types /\ CatchmentInv /\ StartAtPit => CatchmentInv'
<1> SUFFICES ASSUME Types, CatchmentInv, StartAtPit PROVE CatchmentInv'
  OBVIOUS
<1>1. /\ call \in Calls /\ call' = call /\ call.op = "catchment" /\ pc = "scan"
      /\ upstream = <<>> /\ EntryInv /\ AnswerInv /\ result \in [Cell -> Number]
      /\ cursor \in Cell /\ cursor' = NextCell(cursor)
      /\ \A b \in Cell : Before(b, cursor') <=> Before(b, cursor) \/ b = cursor
  BY NextCellInGrid DEF Types, CatchmentInv, StartAtPit
<1>2. PICK x \in Cell : x = cursor
  BY <1>1
<1>3. Data \in SUBSET Cell /\ Labelled \in SUBSET Data /\ Range(upstream) = {}
  BY <1>1 DEF Data, DataCells, Labelled, Range
<1>4. \A c \in Labelled :
        \/ result[c] = Answer(c)
        \/ \E p \in Data : /\ call.ldd.dir[p] = Pit /\ ~Before(p, cursor)
                           /\ Reaches(call.ldd, c, p)
  BY <1>1, <1>3 DEF AnswerInv
<1>5. /\ Data' = Data /\ Labelled' = Labelled
      /\ \A c : IdFrom(c)' = IdFrom(c) /\ Answer(c)' = Answer(c)
      /\ \A c : Onward(call.ldd, c)' = Onward(call.ldd, c)
      /\ \A c, d : Reaches(call.ldd, c, d)' <=> Reaches(call.ldd, c, d)
  BY <1>1, SameCatchment
<1>6. CASE x \notin Data \/ call.ldd.dir[x] # Pit
  <2>1. /\ upstream' = upstream
        /\ \A c \in Data : result'[c] = result[c]
    <3>1. CASE is_nodata(call.ldd, x)
      <4>1. result' = [result EXCEPT ![x] = NoData] /\ upstream' = upstream /\ x \notin Data
        BY <1>2, <3>1 DEF StartAtPit, Data, DataCells
      <4> QED  BY <1>1, <1>3, <4>1
    <3>2. CASE ~is_nodata(call.ldd, x)
      <4>1. call.ldd.dir[x] # Pit
        BY <1>6, <3>2 DEF Data, DataCells
      <4> QED  BY <1>2, <3>2, <4>1 DEF StartAtPit
    <3> QED  BY <3>1, <3>2
  <2>2. \A p \in Data : call.ldd.dir[p] = Pit /\ ~Before(p, cursor) => ~Before(p, cursor')
    BY <1>1, <1>2, <1>3, <1>6
  <2>3. EntryInv'
    BY <1>3, <2>1 DEF EntryInv
  <2>4. AnswerInv'
    <3>1. \A c \in Data \ Labelled : result'[c] = 0
      BY <1>1, <2>1 DEF AnswerInv
    <3>2. \A c \in Labelled : result'[c] \in {0, Answer(c)}
      BY <1>1, <1>3, <2>1 DEF AnswerInv
    <3>3. \A c \in Labelled :
            \/ result'[c] = Answer(c)
            \/ \E p \in Data : /\ call.ldd.dir[p] = Pit /\ ~Before(p, cursor')
                               /\ Reaches(call.ldd, c, p)
      BY <1>3, <1>4, <2>1, <2>2
    <3> QED  BY <1>1, <1>5, <3>1, <3>2, <3>3 DEF AnswerInv
  <2> QED  BY <2>3, <2>4 DEF CatchmentInv
<1>7. CASE x \in Data /\ call.ldd.dir[x] = Pit
  <2>1. IdFrom(x) = IF station[x] \in {0, NoData} THEN None ELSE {station[x]}
    BY <1>1, <1>7, IdAtPit
  <2>2. upstream' = Entries(x, IdFrom(x)) /\ result' = result
    <3>1. ~is_nodata(call.ldd, x)
      BY <1>7 DEF Data, DataCells
    <3> QED  BY <1>2, <1>7, <2>1, <3>1 DEF StartAtPit
  <2>3. IdFrom(x) \in SUBSET Number
    BY <1>1, <2>1, CallFields DEF station, None
  <2>4. Drains(call.ldd, x)
    BY <1>7, PitsDrain
  <2>5. PICK s : s = Entries(x, IdFrom(x))
    OBVIOUS
  <2>6. /\ \A entry \in Range(s) :
             /\ entry.cell \in Labelled
             /\ \A d \in Onward(call.ldd, entry.cell) : entry.id = IdFrom(d)
        /\ \A b \in Labelled : b # x /\ Reaches(call.ldd, b, x) =>
             \E entry \in Range(s) : Reaches(call.ldd, b, entry.cell)
    BY <1>1, <1>7, <2>3, <2>4, <2>5, EntriesLabelled
  <2>7. upstream' = s
    BY <2>2, <2>5
  <2>8. EntryInv'
    <3>1. \A entry \in Range(s) :
             /\ entry.cell \in Labelled'
             /\ \A d \in Onward(call'.ldd, entry.cell) : entry.id = IdFrom(d)'
      BY <1>1, <1>5, <2>6
    <3> QED  BY <2>7, <3>1 DEF EntryInv
  <2>9. AnswerInv'
    <3>1. ASSUME NEW c \in Labelled
          PROVE  \/ result[c] = Answer(c)
                 \/ \E entry \in Range(s) : Reaches(call.ldd, c, entry.cell)
                 \/ \E p \in Data : /\ call.ldd.dir[p] = Pit /\ ~Before(p, cursor')
                                    /\ Reaches(call.ldd, c, p)
      <4>1. c # x
        BY <1>7 DEF Labelled
      <4> QED  BY <1>1, <1>2, <1>3, <1>4, <2>6, <4>1
    <3> QED  BY <1>1, <1>5, <2>2, <2>7, <3>1 DEF AnswerInv
  <2> QED  BY <2>8, <2>9 DEF CatchmentInv
<1> QED  BY <1>6, <1>7

LEMMA RangeFront ==
  ASSUME NEW S, NEW s \in Seq(S), s # <<>>
  PROVE  Range(s) = Range(Front(s)) \cup {Last(s)}
<1>1. /\ Len(s) \in Nat \ {0} /\ Last(s) = s[Len(s)]
      /\ Front(s) \in Seq(S) /\ Len(Front(s)) = Len(s) - 1
      /\ \A i \in 1 .. Len(s) - 1 : Front(s)[i] = s[i]
  BY FrontOf
<1>2. PICK t : t = Front(s)
  OBVIOUS
<1>3. PICK n \in Nat \ {0} : n = Len(s)
  BY <1>1
<1>4. DOMAIN s = 1 .. n /\ DOMAIN t = 1 .. n - 1 /\ \A i \in 1 .. n - 1 : t[i] = s[i]
  BY <1>1, <1>2, <1>3
<1>5. 1 .. n = (1 .. n - 1) \cup {n}
  OBVIOUS
<1>6. Range(s) = {s[i] : i \in 1 .. n} /\ Range(t) = {s[i] : i \in 1 .. n - 1}
  BY <1>4 DEF Range
<1>7. Range(s) = Range(t) \cup {s[n]}
  BY <1>5, <1>6
<1> QED  BY <1>1, <1>2, <1>3, <1>7

LEMMA CatchmentVisit == Types /\ CatchmentInv /\ VisitUpstream => CatchmentInv'
<1> SUFFICES ASSUME Types, CatchmentInv, VisitUpstream PROVE CatchmentInv'
  OBVIOUS
<1>1. /\ call \in Calls /\ call' = call /\ call.op = "catchment" /\ upstream # <<>>
      /\ EntryInv /\ AnswerInv /\ result \in [Cell -> Number] /\ cursor' = cursor
      /\ upstream \in Seq(EntryType)
  BY DEF Types, CatchmentInv, VisitUpstream
<1>2. PICK entry, id, rest : entry = Last(upstream) /\ id = IdOf(Last(upstream)) /\ rest = Front(upstream)
  OBVIOUS
<1>3. /\ Range(upstream) = Range(rest) \cup {entry} /\ rest \in Seq(EntryType)
      /\ id \in SUBSET Number
  BY <1>1, <1>2, RangeFront, VisitType
<1>4. PICK x : x = entry.cell
  OBVIOUS
<1>5. /\ result' = IF id = None THEN result ELSE [result EXCEPT ![x] = CHOOSE i \in id : TRUE]
      /\ upstream' = rest \o Entries(x, id)
  BY <1>2, <1>4 DEF VisitUpstream
<1>6. x \in Labelled /\ \A d \in Onward(call.ldd, x) : entry.id = IdFrom(d)
  BY <1>1, <1>3, <1>4 DEF EntryInv
<1>7. /\ Data \in SUBSET Cell /\ Labelled \in SUBSET Data /\ x \in Data /\ x \in Cell
      /\ call.ldd.dir[x] # Pit /\ Drains(call.ldd, x)
  BY <1>6 DEF Data, DataCells, Labelled
<1>8. id = IdFrom(x)
  <2>1. PICK d \in Onward(call.ldd, x) : d \in Cell /\ Onward(call.ldd, x) = {d}
    BY <1>7, DrainsOnward, OnwardSingle
  <2>2. IdFrom(x) = IF IdFrom(d) # None THEN IdFrom(d)
                    ELSE IF station[x] # 0 THEN {station[x]} ELSE None
    BY <1>1, <1>6, <2>1, IdAbove
  <2>3. id = IF entry.id # None THEN entry.id
             ELSE IF station[x] # 0 THEN {station[x]} ELSE None
    BY <1>2, <1>4 DEF IdOf
  <2> QED  BY <1>6, <2>1, <2>2, <2>3
<1>9. PICK s : s = Entries(x, IdFrom(x))
  OBVIOUS
<1>10. /\ s \in Seq(EntryType)
       /\ \A e \in Range(s) : /\ e.cell \in Labelled
                              /\ \A d \in Onward(call.ldd, e.cell) : e.id = IdFrom(d)
       /\ \A b \in Labelled : b # x /\ Reaches(call.ldd, b, x) =>
            \E e \in Range(s) : Reaches(call.ldd, b, e.cell)
  BY <1>1, <1>3, <1>7, <1>8, <1>9, EntriesLabelled
<1>11. upstream' = rest \o s /\ Range(rest \o s) = Range(rest) \cup Range(s)
  BY <1>3, <1>5, <1>8, <1>9, <1>10, RangeConcat
<1>12. /\ Data' = Data /\ Labelled' = Labelled
       /\ \A c : IdFrom(c)' = IdFrom(c) /\ Answer(c)' = Answer(c)
       /\ \A c : Onward(call.ldd, c)' = Onward(call.ldd, c)
       /\ \A c, d : Reaches(call.ldd, c, d)' <=> Reaches(call.ldd, c, d)
  BY <1>1, SameCatchment
<1>13. EntryInv'
  <2>1. \A e \in Range(rest \o s) :
          /\ e.cell \in Labelled'
          /\ \A d \in Onward(call'.ldd, e.cell) : e.id = IdFrom(d)'
    <3>1. \A e \in Range(rest) : /\ e.cell \in Labelled
                                 /\ \A d \in Onward(call.ldd, e.cell) : e.id = IdFrom(d)
      BY <1>1, <1>3 DEF EntryInv
    <3> QED  BY <1>1, <1>10, <1>11, <1>12, <3>1
  <2> QED  BY <1>11, <2>1 DEF EntryInv
<1>14. result' \in [Cell -> Number] /\ \A c \in Cell : c # x => result'[c] = result[c]
  <2>1. id # None => (CHOOSE i \in id : TRUE) \in Number
    BY <1>3 DEF None
  <2> QED  BY <1>1, <1>5, <2>1
<1>15. result'[x] = Answer(x)
  <2>1. CASE id = None
    <3>1. result[x] \in {0, Answer(x)} /\ Answer(x) = 0
      BY <1>1, <1>6, <1>8, <2>1 DEF AnswerInv, Answer
    <3> QED  BY <1>5, <2>1, <3>1
  <2>2. CASE id # None
    <3>1. result'[x] = CHOOSE i \in id : TRUE
      BY <1>1, <1>5, <1>7, <2>2
    <3> QED  BY <1>8, <2>2, <3>1 DEF Answer
  <2> QED  BY <2>1, <2>2
<1>16. AnswerInv'
  <2>1. ASSUME NEW c \in Data \ Labelled PROVE result'[c] = 0
    BY <1>1, <1>6, <1>7, <1>14 DEF AnswerInv
  <2>2. ASSUME NEW c \in Labelled PROVE result'[c] \in {0, Answer(c)}
    BY <1>1, <1>7, <1>14, <1>15 DEF AnswerInv
  <2>3. ASSUME NEW c \in Labelled
        PROVE  \/ result'[c] = Answer(c)
               \/ \E e \in Range(rest \o s) : Reaches(call.ldd, c, e.cell)
               \/ \E p \in Data : /\ call.ldd.dir[p] = Pit /\ ~Before(p, cursor)
                                  /\ Reaches(call.ldd, c, p)
    <3>1. CASE c = x
      BY <1>15, <3>1
    <3>2. CASE c # x
      <4>1. result'[c] = result[c]
        BY <1>7, <1>14, <3>2
      <4>2. \/ result[c] = Answer(c)
            \/ \E e \in Range(upstream) : Reaches(call.ldd, c, e.cell)
            \/ \E p \in Data : /\ call.ldd.dir[p] = Pit /\ ~Before(p, cursor)
                               /\ Reaches(call.ldd, c, p)
        BY <1>1 DEF AnswerInv
      <4>3. ASSUME NEW e \in Range(upstream), Reaches(call.ldd, c, e.cell)
            PROVE  \E f \in Range(rest \o s) : Reaches(call.ldd, c, f.cell)
        <5>1. CASE e \in Range(rest)
          BY <1>11, <4>3, <5>1
        <5>2. CASE e = entry
          BY <1>4, <1>10, <1>11, <3>2, <4>3, <5>2
        <5> QED  BY <1>3, <5>1, <5>2
      <4> QED  BY <4>1, <4>2, <4>3
    <3> QED  BY <3>1, <3>2
  <2> QED  BY <1>1, <1>11, <1>12, <2>1, <2>2, <2>3 DEF AnswerInv
<1> QED  BY <1>13, <1>16 DEF CatchmentInv

LEMMA CatchmentSame ==
  ASSUME CatchmentInv, UNCHANGED <<call, cursor, upstream, result>>
  PROVE  CatchmentInv'
<1>1. /\ Data' = Data /\ Labelled' = Labelled
      /\ \A c : IdFrom(c)' = IdFrom(c) /\ Answer(c)' = Answer(c)
      /\ \A c : Onward(call.ldd, c)' = Onward(call.ldd, c)
      /\ \A c, d : Reaches(call.ldd, c, d)' <=> Reaches(call.ldd, c, d)
  BY SameCatchment
<1>2. EntryInv => EntryInv'
  BY <1>1 DEF EntryInv
<1>3. AnswerInv => AnswerInv'
  BY <1>1 DEF AnswerInv
<1> QED  BY <1>2, <1>3 DEF CatchmentInv

LEMMA CatchmentNext == Types /\ CatchmentInv /\ [Next]_vars => CatchmentInv'
<1> SUFFICES ASSUME Types, CatchmentInv, [Next]_vars PROVE CatchmentInv'
  OBVIOUS
<1>1. ASSUME CallFromLoop \/ CallForNeighbour \/ EndCall PROVE CatchmentInv'
  <2>1. call' = call /\ call.op # "catchment"
    BY <1>1, TopIs DEF CallFromLoop, CallForNeighbour, EndCall
  <2> QED  BY <2>1 DEF CatchmentInv
<1>2. ASSUME EndOfCatchment \/ Return \/ UNCHANGED vars PROVE CatchmentInv'
  BY <1>2, CatchmentSame DEF EndOfCatchment, Return, EndScan, vars
<1> QED  BY <1>1, <1>2, CatchmentStart, CatchmentVisit DEF Next

LEMMA CatchmentSound == Types /\ CatchmentInv => CatchmentExact
<1> SUFFICES ASSUME Types, CatchmentInv, pc = "returned", call.op = "catchment",
                    NEW c \in DataCells(call.ldd)
             PROVE  LET course == Course(call.ldd, c)
                        passed == {n \in 0 .. Rows * Cols : \E s \in course[n] : StationAt(s)}
                        last == CHOOSE n \in passed : \A k \in passed : k <= n
                    IN  IF call.ldd.dir[c] = Pit \/ ~Drains(call.ldd, c) \/ passed = {}
                          THEN result[c] = 0
                          ELSE result[c] \in {station[s] : s \in course[last]}
  BY DEF CatchmentExact
<1>1. /\ AnswerInv /\ upstream = <<>> /\ PastEnd(cursor)
      /\ \A p \in Cell : p[1] < Rows
  BY GridAssumption DEF Types, CatchmentInv, Cell
<1>2. Range(upstream) = {} /\ \A p \in Data : Before(p, cursor)
  BY <1>1 DEF Range, Data, DataCells, PastEnd, Before
<1>3. CASE c \notin Labelled
  <2>1. result[c] = 0 /\ (call.ldd.dir[c] = Pit \/ ~Drains(call.ldd, c))
    BY <1>1, <1>3 DEF AnswerInv, Labelled, Data
  <2> QED  BY <2>1
<1>4. CASE c \in Labelled
  <2>1. result[c] = Answer(c) /\ call.ldd.dir[c] # Pit /\ Drains(call.ldd, c)
    BY <1>1, <1>2, <1>4 DEF AnswerInv, Labelled
  <2>2. CASE PassedAt(c) = {}
    <3>1. result[c] = 0
      BY <2>1, <2>2 DEF Answer, IdFrom
    <3> QED  BY <2>2, <3>1 DEF PassedAt
  <2>3. CASE PassedAt(c) # {}
    <3>1. IdFrom(c) = {station[s] : s \in Course(call.ldd, c)[LastPassed(c)]}
      BY <2>3 DEF IdFrom
    <3>2. \E s \in Course(call.ldd, c)[LastPassed(c)] : StationAt(s)
      BY <2>3, LastIs DEF PassedAt
    <3>3. IdFrom(c) # None
      BY <3>1, <3>2 DEF None
    <3>4. Answer(c) \in IdFrom(c)
      BY <3>3 DEF Answer, None
    <3> QED  BY <2>1, <2>3, <3>1, <3>4 DEF PassedAt, LastPassed
  <2> QED  BY <2>2, <2>3
<1> QED  BY <1>3, <1>4

-----------------------------------------------------------------------------
(* The theorems                                                            *)

(* The call, the frames of its recursion, the stack of the traversal and   *)
(* the result have their types (accuflux.h:284-360, 795-910).              *)
THEOREM UpstreamTypeCorrect == Spec => []Types
BY TypesInit, TypesNext, PTL DEF Spec

LEMMA SlopeHolds == Spec => []SlopeInv
BY UpstreamTypeCorrect, SlopeInit, SlopeNext, PTL DEF Spec

LEMMA CatchmentHolds == Spec => []CatchmentInv
BY UpstreamTypeCorrect, CatchmentInit, CatchmentNext, PTL DEF Spec

(* calculateSlopeLength overflows the stack if cells with friction drain   *)
(* into each other in a circle, and on no other map: its calls are nested  *)
(* at most once per cell (accuflux.h:323-345).                             *)
THEOREM OnlyLoopsOverflow == Spec => []OverflowsOnLoops
BY UpstreamTypeCorrect, SlopeHolds, OverflowsSound, PTL

(* slope_length returns the length of the longest way that comes from a    *)
(* spring over cells of known friction, whatever the order of its calls.   *)
THEOREM SlopeLengthIsLongest == Spec => []SlopeLengthExact
BY UpstreamTypeCorrect, SlopeHolds, LengthsSound, PTL

(* catchment gives a cell the id of the last station that its water        *)
(* passes, whichever pits and tributaries are visited first.               *)
THEOREM CatchmentIsLast == Spec => []CatchmentExact
BY UpstreamTypeCorrect, CatchmentHolds, CatchmentSound, PTL
=============================================================================
