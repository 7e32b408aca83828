----------------------------- MODULE LddUpstream -----------------------------
(***************************************************************************)
(* The functions of accuflux.h that go up the drains.  slope_length calls  *)
(* itself for the cells that drain into a cell, each once, and takes the   *)
(* longest way; catchment starts at the pits, keeps a stack of cells, and  *)
(* hands the id of the most downstream station up.                         *)
(*                                                                         *)
(* Rasters of float hold a NaN where they have nodata, so that unknown     *)
(* friction is contagious in sums.  MaxDepth stands for the size of the    *)
(* thread's stack.  The calls have no bytes above 9 and do not use a       *)
(* direction for nodata.                                                   *)
(***************************************************************************)
EXTENDS LddScan, SequencesExt

CONSTANTS NoData,
          StraightStep, DiagStep,  \* the cell size and sqrt(2) times it
          MaxDepth,                \* calls that fit on the stack
          Calls

Number == Int \cup {NoData}

\* layer is the friction or station map
CallType == [op : {"slope_length", "catchment"}, ldd : LddMap,
             layer : [Cell -> Number]]

ASSUME LddUpstreamAssumption ==
  /\ NoData \notin Int
  /\ StraightStep \in Nat \ {0} /\ StraightStep % 2 = 0
  /\ DiagStep \in Nat \ {0} /\ DiagStep % 2 = 0
  /\ MaxDepth \in Nat /\ MaxDepth >= Rows * Cols
  /\ Calls \subseteq CallType
  /\ \A c \in Calls : /\ c.ldd.nodata \notin 1 .. 9
                      /\ \A cell \in DataCells(c.ldd) : InTable(c.ldd.dir[cell])

\* pc is "scan", "upstream", "returned" or "overflow"
VARIABLES call,
          calculated,  \* the cells where calcMap is 1
          frames,      \* calls of calculateSlopeLength, outermost first
          upstream     \* traverse_ldd_upstream: cells to visit with their ids

vars == <<call, pc, cursor, calculated, frames, upstream, result>>

(* The neighbour in a direction, if it is on the map and drains here.      *)
IfInflow(cell, direction, map) ==
  LET n == getNeighbour(direction, cell)
  IN  IF n \in map /\ FlowsInto(call.ldd, n, cell) THEN <<n>> ELSE <<>>

(* The cells that drain into a cell, in the order in which they are met:   *)
(* bottom first in neighbourLookup, where nodata is left out, and top      *)
(* first when put on the stack.                                            *)
InflowFromBottom(cell) ==
  LET If(direction) == IfInflow(cell, direction, DataCells(call.ldd))
  IN  (If(1) \o If(2) \o If(3) \o If(4)) \o (If(6) \o If(7) \o If(8) \o If(9))

InflowFromTop(cell) ==
  LET If(direction) == IfInflow(cell, direction, Cell)
  IN  (If(7) \o If(8) \o If(9) \o If(4)) \o (If(6) \o If(1) \o If(2) \o If(3))

Init ==
  /\ call \in Calls
  /\ BeginScan
  /\ calculated = {} /\ frames = <<>> /\ upstream = <<>>
  /\ result = [c \in Cell |-> 0]

Return == EndScan /\ UNCHANGED <<call, calculated, frames, upstream>>

-----------------------------------------------------------------------------
(* slope_length                                                            *)

friction == call.layer

Plus(a, b) == IF NoData \in {a, b} THEN NoData ELSE a + b

WayDown(n, cell) ==
  IF NoData \in {friction[n], friction[cell]} THEN NoData
  ELSE ((IF Straight(n, cell) THEN StraightStep ELSE DiagStep)
          * (friction[n] + friction[cell])) \div 2

Unknown(cell) == friction[cell] = NoData \/ is_nodata(call.ldd, cell)

\* Mutant: a cell without friction does not end the way up.
ReturnsAtOnceOnNoData(cell) == cell \in calculated \/ is_nodata(call.ldd, cell)

(* The early returns: what a call for this cell returns at once.           *)
ReturnsAtOnce(cell) == cell \in calculated \/ Unknown(cell)

Returned(cell) == IF cell \in calculated THEN result[cell] ELSE NoData

(* A call for a cell that returns at once leaves these behind.             *)
Settle(cell) ==
  /\ calculated' = calculated \cup {cell}
  /\ result' = [result EXCEPT ![cell] = Returned(cell)]

Frame(c) ==
  [cell |-> c, neighbours |-> InflowFromBottom(c),
   slopeLength |-> 0, isNonNan |-> FALSE, isNan |-> FALSE]

(* A call that does not return at once. *)
Descend(cell) ==
  /\ IF Len(frames) < MaxDepth
       THEN /\ frames' = Append(frames, Frame(cell))
            /\ pc' = "upstream"
       ELSE /\ pc' = "overflow"
            /\ UNCHANGED frames
  /\ UNCHANGED <<calculated, result>>

CallFromLoop ==
  /\ call.op = "slope_length" /\ pc = "scan" /\ ~PastEnd(cursor)
  /\ cursor' = NextCell(cursor)
  /\ IF ReturnsAtOnce(cursor)
       THEN Settle(cursor) /\ UNCHANGED <<pc, frames>>
       ELSE Descend(cursor)
  /\ UNCHANGED <<call, upstream>>

top == frames[Len(frames)]

\* Mutant: the values that are NaN take part in std::max.
AddedEvenNan(f, value) ==
  [f EXCEPT !.neighbours = Tail(@),
            !.slopeLength = IF NoData \in {value, @} THEN NoData
                            ELSE IF value > @ THEN value ELSE @,
            !.isNonNan = TRUE]

(* The neighbour's length and the way down from it go into the maximum.    *)
Added(f, value) ==
  IF value = NoData THEN [f EXCEPT !.neighbours = Tail(@), !.isNan = TRUE]
  ELSE [f EXCEPT !.neighbours = Tail(@), !.isNonNan = TRUE,
                 !.slopeLength = IF value > @ THEN value ELSE @]

(* The call for the next neighbour.  One that does not return at once is   *)
(* left to Descend; once it has ended, its neighbour returns at once.      *)
CallForNeighbour ==
  /\ pc = "upstream" /\ frames # <<>> /\ top.neighbours # <<>>
  /\ LET n == Head(top.neighbours)
     IN  IF ReturnsAtOnce(n)
           THEN /\ Settle(n)
                /\ frames' = [frames EXCEPT ![Len(frames)] =
                                Added(top, Plus(Returned(n), WayDown(n, top.cell)))]
                /\ UNCHANGED pc
           ELSE Descend(n)
  /\ UNCHANGED <<call, cursor, upstream>>

EndCall ==
  /\ pc = "upstream" /\ frames # <<>> /\ top.neighbours = <<>>
  /\ calculated' = calculated \cup {top.cell}
  /\ result' = [result EXCEPT ![top.cell] =
                  IF ~top.isNonNan /\ top.isNan THEN NoData ELSE top.slopeLength]
  /\ frames' = Front(frames)
  /\ pc' = IF frames' = <<>> THEN "scan" ELSE "upstream"
  /\ UNCHANGED <<call, cursor, upstream>>

-----------------------------------------------------------------------------
(* catchment                                                               *)

station == call.layer

\* No id yet: an empty std::optional.
None == {}

Entries(cell, id) ==
  LET cells == InflowFromTop(cell)
  IN  [i \in 1 .. Len(cells) |-> [cell |-> cells[i], id |-> id]]

StartAtPit ==
  /\ call.op = "catchment" /\ pc = "scan" /\ ~PastEnd(cursor)
  /\ cursor' = NextCell(cursor)
  /\ IF is_nodata(call.ldd, cursor) THEN
       /\ result' = [result EXCEPT ![cursor] = NoData]
       /\ UNCHANGED <<pc, upstream>>
     ELSE IF call.ldd.dir[cursor] # Pit THEN UNCHANGED <<pc, upstream, result>>
     ELSE /\ upstream' = Entries(cursor, IF station[cursor] \in {0, NoData} THEN None
                                         ELSE {station[cursor]})
          /\ pc' = "upstream"
          /\ UNCHANGED result
  /\ UNCHANGED <<call, calculated, frames>>

\* Mutant: the nearest station wins.
IdOfNearest(entry) ==
  IF station[entry.cell] # 0 THEN {station[entry.cell]} ELSE entry.id

(* The callback's answer: an id from further downstream goes first.  What  *)
(* is stored for a station that is nodata is an id, taken not to be zero.  *)
IdOf(entry) ==
  IF entry.id # None THEN entry.id
  ELSE IF station[entry.cell] # 0 THEN {station[entry.cell]} ELSE None

VisitUpstream ==
  /\ call.op = "catchment" /\ pc = "upstream" /\ upstream # <<>>
  /\ LET entry == Last(upstream)
         id == IdOf(entry)
     IN  /\ result' = IF id = None THEN result
                      ELSE [result EXCEPT ![entry.cell] = CHOOSE i \in id : TRUE]
         /\ upstream' = Front(upstream) \o Entries(entry.cell, id)
  /\ UNCHANGED <<call, pc, cursor, calculated, frames>>

EndOfCatchment ==
  /\ call.op = "catchment" /\ pc = "upstream" /\ upstream = <<>>
  /\ pc' = "scan"
  /\ UNCHANGED <<call, cursor, calculated, frames, upstream, result>>

-----------------------------------------------------------------------------

Next == \/ CallFromLoop \/ CallForNeighbour \/ EndCall
        \/ StartAtPit \/ VisitUpstream \/ EndOfCatchment \/ Return

Spec == Init /\ [][Next]_vars

-----------------------------------------------------------------------------
(* Properties                                                              *)

(* The map that slope_length sees: cells without friction are nodata, and  *)
(* a zero, which points at its own cell, is not met among the neighbours.  *)
known ==
  [dir |-> [c \in Cell |-> IF Unknown(c) THEN call.ldd.nodata
                           ELSE IF call.ldd.dir[c] = 0 THEN Pit ELSE call.ldd.dir[c]],
   nodata |-> call.ldd.nodata]

(* Water from the cell goes round in a circle. *)
Circles(cell) == Course(known, cell)[Rows * Cols] # {}

(* The recursion overflows the stack if some cells with friction drain     *)
(* into each other in a circle, and on no other map: calls are nested at   *)
(* most once per cell (accuflux.h:340).                                    *)
OverflowsOnLoops ==
  /\ pc = "overflow" => \E c \in DataCells(known) : Circles(c)
  /\ pc = "returned" /\ call.op = "slope_length" => \A c \in DataCells(known) : ~Circles(c)
  /\ pc # "overflow" => Len(frames) <= MaxDepth

(* What the first n steps of the water from a cell cost. *)
Cost(cell, n) ==
  LET way == Course(known, cell)
      step == [k \in 1 .. Rows * Cols |->
                 WayDown(CHOOSE c \in way[k - 1] : TRUE, CHOOSE c \in way[k] : TRUE)]
  IN  SumFunctionOnSet(step, 1 .. n)

(* Nothing drains into the cell, not even water of unknown length.         *)
IsSpring(cell) == \A n \in DataCells(call.ldd) \ {cell} : ~FlowsInto(call.ldd, n, cell)

(* The lengths of the ways from springs over known cells to the cell.      *)
LengthsTo(cell) ==
  UNION {{Cost(s, n) : n \in {k \in 0 .. Rows * Cols : cell \in Course(known, s)[k]}} :
           s \in {c \in DataCells(known) : IsSpring(c)}}

(* slope_length is the longest way from a spring, and nodata where all     *)
(* ways come from, or through, cells of unknown friction.  It starts with  *)
(* a length of zero: friction must not be negative.                        *)
SlopeLengthExact ==
  /\ pc = "returned" /\ call.op = "slope_length"
  /\ \A c \in Cell : friction[c] = NoData \/ friction[c] >= 0
  => \A c \in Cell :
      LET lengths == LengthsTo(c)
      IN  IF lengths = {} THEN result[c] = NoData
          ELSE result[c] \in lengths /\ \A l \in lengths : l <= result[c]

(* Water from a cell passes these stations; a pit counts as one only if it *)
(* has an id.                                                              *)
StationAt(cell) ==
  IF call.ldd.dir[cell] = Pit THEN station[cell] \notin {0, NoData} ELSE station[cell] # 0

(* catchment gives each cell the id of the last station its water passes,  *)
(* in whatever order pits and tributaries are visited; a pit itself, and a *)
(* cell whose water passes none or never ends, keeps zero                  *)
(* (accuflux.h:875).                                                       *)
CatchmentExact ==
  pc = "returned" /\ call.op = "catchment" =>
    \A c \in DataCells(call.ldd) :
      LET course == Course(call.ldd, c)
          passed == {n \in 0 .. Rows * Cols : \E s \in course[n] : StationAt(s)}
          last == CHOOSE n \in passed : \A k \in passed : k <= n
      IN  IF call.ldd.dir[c] = Pit \/ ~Drains(call.ldd, c) \/ passed = {}
            THEN result[c] = 0
            ELSE result[c] \in {station[s] : s \in course[last]}
=============================================================================
