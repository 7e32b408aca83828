----------------------------- MODULE FlowProofs -----------------------------
(***************************************************************************)
(* For every grid, map and call: the types are kept; the functions that    *)
(* follow the drains throw on unsound maps only, and those that follow     *)
(* every flow to its end throw on all of them; and what they return is     *)
(* what the ways of the water define, in whatever order the scan starts    *)
(* its traversals and wherever it breaks them off.                         *)
(***************************************************************************)
EXTENDS Flow, GridProofs

(* The functions whose callback never stops a traversal.                   *)
FollowsToTheEnd == call.op \in {"accuflux", "accufractionflux"}

(* A distance is a number, whatever nodata there is.                       *)
LoadInv == call.op = "max_upstream_dist" => load \in Int

(* A traversal stands where the water from its start has come to.          *)
WalkInv ==
  /\ pc = "flow" => cursor \in Data
  /\ pc = "flow" /\ ~halted => OnTheWay(call.ldd, cursor, traversedCells, curCell)

(* No cell the scan has left behind was let through without draining, and  *)
(* what was thrown for is there.                                           *)
ScanInv ==
  /\ FollowsToTheEnd => /\ halted = FALSE
                        /\ \A c \in Data : Before(c, cursor) => Drains(call.ldd, c)
  /\ pc = "returned" => PastEnd(cursor)
  /\ pc = "thrown" => \E c \in Data : ~Drains(call.ldd, c)

FlowInv == WalkInv /\ ScanInv

-----------------------------------------------------------------------------
(* Type correctness                                                        *)

LEMMA Arithmetic ==
  ASSUME NEW a \in Number, NEW b \in Number
  PROVE  Plus(a, b) \in Number /\ Times(a, b) \in Number
<1>1. CASE NoData \in {a, b}
  BY <1>1 DEF Plus, Times, Number
<1>2. CASE NoData \notin {a, b}
  <2>1. a \in Int /\ b \in Int
    BY <1>2 DEF Number
  <2>2. a + b \in Int /\ a * b \in Int
    BY <2>1
  <2> QED  BY <1>2, <2>2 DEF Plus, Times, Number
<1> QED  BY <1>1, <1>2

LEMMA StepType ==
  ASSUME NEW a, NEW b
  PROVE  Step(a, b) \in Nat /\ Step(a, b) \in Number
BY FlowAssumption DEF Step, Number

LEMMA CallFields ==
  ASSUME TypeOK
  PROVE  /\ call.op \in Operations /\ call.ldd \in LddMap
         /\ \A c \in Cell : /\ call.freight[c] \in Number /\ call.factor[c] \in Number
                            /\ call.station[c] \in Number
         /\ Data \subseteq Cell
BY DEF TypeOK, CallType, Data, DataCells

LEMMA TypeInit == Init => TypeOK /\ LoadInv
<1> SUFFICES ASSUME Init PROVE TypeOK /\ LoadInv
  OBVIOUS
<1>1. FirstCell \in Cell /\ FirstCell \in (0 .. Rows) \X (0 .. Cols - 1)
  BY GridAssumption DEF FirstCell, Cell
<1>2. call \in CallType
  BY FlowAssumption DEF Init
<1>3. result \in [Cell -> Number]
  <2>1. \A c \in Cell : /\ call.freight[c] \in Number
                        /\ Times(call.freight[c], call.factor[c]) \in Number
                        /\ call.station[c] \in Number /\ 0 \in Number
    <3>1. \A c \in Cell : /\ call.freight[c] \in Number /\ call.factor[c] \in Number
                          /\ call.station[c] \in Number
      BY <1>2 DEF CallType
    <3>2. \A a, b \in Number : Times(a, b) \in Number
      BY Arithmetic
    <3>3. 0 \in Number
      BY DEF Number
    <3> QED  BY <3>1, <3>2, <3>3
  <2> QED  BY <2>1 DEF Init
<1>4. load \in Int /\ load \in Number
  BY DEF Init, Number
<1> QED  BY <1>1, <1>2, <1>3, <1>4 DEF TypeOK, LoadInv, Init

(* What the callbacks leave behind. *)
LEMMA CallbackType ==
  ASSUME TypeOK, LoadInv, NEW to \in Cell, visitCb(to)
  PROVE  /\ load' \in Number /\ result' \in [Cell -> Number]
         /\ halted' \in BOOLEAN /\ stoppedInTruePoint' \in BOOLEAN
         /\ call.op = "max_upstream_dist" => load' \in Int
         /\ FollowsToTheEnd => halted' = halted
<1> USE DEF TypeOK
<1>1. /\ call.freight[to] \in Number /\ call.factor[to] \in Number
      /\ call.station[to] \in Number /\ call.factor[curCell] \in Number
  BY CallFields
<1>2. \A a, b \in Number : Plus(a, b) \in Number /\ Times(a, b) \in Number
  BY Arithmetic
<1>3. ASSUME NEW c, NEW x \in Number, result' = [result EXCEPT ![c] = x]
      PROVE  result' \in [Cell -> Number]
  BY <1>3
<1> HIDE DEF TypeOK
<1>4. /\ load \in Number /\ result \in [Cell -> Number] /\ result[to] \in Number
      /\ halted \in BOOLEAN /\ stoppedInTruePoint \in BOOLEAN
  BY DEF TypeOK
<1>5. CASE accuflux(to)
  <2>1. Plus(result[to], load) \in Number
    BY <1>2, <1>4
  <2> QED  BY <1>3, <1>4, <1>5, <2>1 DEF accuflux
<1>6. CASE accufractionflux(to)
  <2>1. load' \in Number
    BY <1>1, <1>2, <1>4, <1>6 DEF accufractionflux
  <2>2. Plus(result[to], load') \in Number
    BY <1>2, <1>4, <2>1
  <2> QED  BY <1>3, <1>4, <1>6, <2>1, <2>2 DEF accufractionflux
<1>7. CASE flux_origin(to)
  <2>1. load' \in Number
    BY <1>1, <1>2, <1>4, <1>7 DEF flux_origin
  <2> QED  BY <1>3, <1>4, <1>7, <2>1 DEF flux_origin, FollowsToTheEnd
<1>8. CASE ldd_cluster(to)
  BY <1>1, <1>3, <1>4, <1>8 DEF ldd_cluster, FollowsToTheEnd
<1>9. CASE ldd_dist(to)
  <2>1. load' \in Number
    <3>1. Plus(call.factor[curCell], call.factor[to]) \in Number /\ Step(curCell, to) \in Number
      BY <1>1, <1>2, StepType
    <3>2. Plus(load, Times(Step(curCell, to), Plus(call.factor[curCell], call.factor[to]))) \in Number
      BY <1>2, <1>4, <3>1
    <3> QED  BY <1>4, <1>9, <3>2 DEF ldd_dist
  <2> QED  BY <1>4, <1>9, <2>1 DEF ldd_dist, FollowsToTheEnd
<1>10. CASE max_upstream_dist(to)
  <2>1. load' \in Int
    BY <1>10, StepType DEF LoadInv, max_upstream_dist
  <2>2. load' \in Number
    BY <2>1 DEF Number
  <2>3. halted' \in BOOLEAN
    BY <1>10 DEF max_upstream_dist
  <2> QED  BY <1>3, <1>4, <1>10, <2>1, <2>2, <2>3 DEF max_upstream_dist, FollowsToTheEnd
<1> QED  BY <1>5, <1>6, <1>7, <1>8, <1>9, <1>10 DEF visitCb

LEMMA TypeNext == TypeOK /\ LoadInv /\ [Next]_vars => (TypeOK /\ LoadInv)'
<1> SUFFICES ASSUME TypeOK, LoadInv, [Next]_vars PROVE (TypeOK /\ LoadInv)'
  OBVIOUS
<1>1. CASE SkipCell
  <2>1. cursor \in Cell /\ cursor' \in (0 .. Rows) \X (0 .. Cols - 1)
    BY <1>1, NextCellInGrid DEF SkipCell, TypeOK
  <2>2. SkippedValue(cursor) \in Number
    <3>1. result[cursor] \in Number /\ NoData \in Number
      BY <2>1 DEF TypeOK, Number
    <3>2. Times(call.freight[cursor], call.factor[cursor]) \in Number
      BY <2>1, CallFields, Arithmetic
    <3> QED  BY <3>1, <3>2 DEF SkippedValue
  <2>3. result' \in [Cell -> Number]
    BY <1>1, <2>1, <2>2 DEF SkipCell, TypeOK
  <2> QED  BY <1>1, <2>1, <2>3 DEF SkipCell, TypeOK, LoadInv, walk
<1>2. CASE EnterFlow
  <2>1. cursor \in Cell
    BY <1>2, NextCellInGrid DEF EnterFlow, TypeOK
  <2>2. load' \in Number /\ (call.op = "max_upstream_dist" => load' \in Int)
    <3>1. /\ Times(call.freight[cursor], call.factor[cursor]) \in Number
          /\ call.freight[cursor] \in Number
      BY <2>1, CallFields, Arithmetic
    <3> QED  BY <1>2, <3>1 DEF EnterFlow, Number
  <2> QED  BY <1>2, <2>1, <2>2 DEF EnterFlow, TypeOK, LoadInv
<1>3. CASE FollowFlow
  <2>1. PICK to \in Cell : /\ visitCb(to) /\ curCell' = to
                           /\ traversedCells' = traversedCells \cup {curCell}
                           /\ pc = "flow" /\ pc' \in {"thrown", "flow"}
                           /\ UNCHANGED <<call, cursor>>
    BY <1>3 DEF FollowFlow
  <2> QED  BY <2>1, CallbackType DEF TypeOK, LoadInv
<1>4. CASE Throw
  BY <1>4 DEF Throw, TypeOK, LoadInv, walk
<1>5. CASE LeaveFlow
  <2>1. cursor' \in (0 .. Rows) \X (0 .. Cols - 1)
    <3>1. ~PastEnd(cursor)
      BY <1>5, GridAssumption DEF LeaveFlow, TypeOK, PastEnd, Cell
    <3> QED  BY <1>5, <3>1, NextCellInGrid DEF LeaveFlow, TypeOK
  <2>2. result' \in [Cell -> Number]
    BY <1>5 DEF LeaveFlow, TypeOK, Number
  <2> QED  BY <1>5, <2>1, <2>2 DEF LeaveFlow, TypeOK, LoadInv, walk
<1>6. CASE Return
  BY <1>6 DEF Return, TypeOK, LoadInv, walk
<1>7. CASE UNCHANGED vars
  BY <1>7 DEF vars, TypeOK, LoadInv, walk
<1> QED  BY <1>1, <1>2, <1>3, <1>4, <1>5, <1>6, <1>7 DEF Next

(* The functions keep their types on every map and with every input,       *)
(* nodata among them (accuflux.h:285-930).                                 *)
THEOREM TypeCorrect == Spec => []TypeOK
<1>1. Spec => [](TypeOK /\ LoadInv)
  BY TypeInit, TypeNext, PTL DEF Spec
<1> QED  BY <1>1, PTL

-----------------------------------------------------------------------------
(* The invariant                                                           *)

(* What the water does next, from the cell a traversal stands in. *)
LEMMA OnwardIs ==
  ASSUME NEW map, NEW c \in Cell, map.dir[c] # Pit
  PROVE  /\ \A to \in Onward(map, c) :
              InTable(map.dir[c]) /\ to = getNeighbour(map.dir[c], c) /\ to \in Cell
              /\ ~is_nodata(map, to)
         /\ \A to \in Cell : InTable(map.dir[c]) /\ to = getNeighbour(map.dir[c], c)
              /\ ~is_nodata(map, to) => to \in Onward(map, c)
BY DEF Onward, FlowsInto

LEMMA FlowInit == Init => FlowInv
<1> SUFFICES ASSUME Init PROVE FlowInv
  OBVIOUS
<1>1. \A c \in Cell : ~Before(c, cursor)
  BY GridAssumption DEF Init, FirstCell, Cell, Before
<1>2. Data \subseteq Cell
  BY DEF Data, DataCells
<1> QED  BY <1>1, <1>2 DEF Init, FlowInv, WalkInv, ScanInv

LEMMA FlowNext == TypeOK /\ LoadInv /\ FlowInv /\ [Next]_vars => FlowInv'
<1> SUFFICES ASSUME TypeOK, LoadInv, FlowInv, [Next]_vars PROVE FlowInv'
  OBVIOUS
<1> DEFINE map == call.ldd
<1>0. UNCHANGED call /\ Data' = Data /\ Data \subseteq Cell /\ FollowsToTheEnd' = FollowsToTheEnd
  <2>1. UNCHANGED call
    BY DEF Next, vars, SkipCell, EnterFlow, FollowFlow, Throw, LeaveFlow, Return
  <2> QED  BY <2>1 DEF Data, DataCells, FollowsToTheEnd
<1>1. CASE SkipCell
  <2>1. /\ cursor \in Cell
        /\ \A b \in Cell : Before(b, cursor') <=> Before(b, cursor) \/ b = cursor
    BY <1>1, NextCellInGrid DEF SkipCell, TypeOK
  <2>2. FollowsToTheEnd => cursor \notin Data
    BY <1>1 DEF SkipCell, Skips, AtStation, FollowsToTheEnd, Data, DataCells
  <2> QED  BY <1>0, <1>1, <2>1, <2>2 DEF SkipCell, FlowInv, WalkInv, ScanInv, walk
<1>2. CASE EnterFlow
  <2>1. cursor \in Cell
    BY <1>2, NextCellInGrid DEF EnterFlow, TypeOK
  <2>2. cursor \in Data
    BY <1>2, <2>1 DEF EnterFlow, Skips, Data, DataCells
  <2>3. OnTheWay(map, cursor, {}, cursor)
    BY <2>1, WayStarts
  <2>4. WalkInv'
    BY <1>0, <1>2, <2>2, <2>3 DEF EnterFlow, WalkInv
  <2> QED  BY <1>0, <1>2, <2>4 DEF EnterFlow, FlowInv, ScanInv
<1>3. CASE FollowFlow
  <2> DEFINE to == getNeighbour(dir, curCell)
  <2>1. /\ pc = "flow" /\ ~halted /\ dir # Pit /\ InTable(dir)
        /\ to \in Cell /\ visitCb(to)
        /\ traversedCells' = traversedCells \cup {curCell}
        /\ curCell' = to /\ UNCHANGED cursor
        /\ pc' = IF ~halted' /\ UnsoundAfter(to) THEN "thrown" ELSE "flow"
    BY <1>3 DEF FollowFlow
  <2>2. OnTheWay(map, cursor, traversedCells, curCell) /\ cursor \in Data
    BY <2>1 DEF FlowInv, WalkInv
  <2>3. curCell \in Cell /\ dir = map.dir[curCell]
    BY DEF TypeOK, dir
  <2>4. FollowsToTheEnd => halted' = halted
    BY <2>1, CallbackType
  <2>5. CASE UnsoundAfter(to)
    <3>1. Onward(map, curCell) \subseteq traversedCells \cup {curCell}
      BY <2>1, <2>3, <2>5, OnwardIs DEF UnsoundAfter
    <3>2. ~Drains(map, cursor)
      BY <2>1, <2>2, <2>3, <3>1, WayIsBlocked
    <3>3. pc' = (IF ~halted' THEN "thrown" ELSE "flow")
      BY <2>1, <2>5
    <3>4. WalkInv'
      BY <1>0, <2>1, <2>2, <3>3 DEF WalkInv
    <3>5. ScanInv'
      BY <1>0, <2>1, <2>2, <2>4, <3>2, <3>3 DEF FlowInv, ScanInv
    <3> QED  BY <3>4, <3>5 DEF FlowInv
  <2>6. CASE ~UnsoundAfter(to)
    <3>1. to \in Onward(map, curCell) /\ to \notin traversedCells \cup {curCell}
      BY <2>1, <2>3, <2>6, OnwardIs DEF UnsoundAfter
    <3>2. OnTheWay(map, cursor, traversedCells \cup {curCell}, to)
      BY <2>2, <3>1, WayGoesOn
    <3>3. pc' = "flow"
      BY <2>1, <2>6
    <3>4. WalkInv'
      BY <1>0, <2>1, <2>2, <3>2 DEF WalkInv
    <3>5. ScanInv'
      BY <1>0, <2>1, <2>4, <3>3 DEF FlowInv, ScanInv
    <3> QED  BY <3>4, <3>5 DEF FlowInv
  <2> QED  BY <2>5, <2>6
<1>4. CASE Throw
  <2>1. OnTheWay(map, cursor, traversedCells, curCell) /\ cursor \in Data
    BY <1>4 DEF Throw, FlowInv, WalkInv
  <2>2. dir = map.dir[curCell] /\ curCell \in Cell /\ map.dir[curCell] # Pit
    BY <1>4 DEF TypeOK, dir, Throw
  <2>3. Onward(map, curCell) \subseteq traversedCells \cup {curCell}
    BY <1>4, <2>2, OnwardIs DEF Throw
  <2>4. ~Drains(map, cursor)
    BY <2>1, <2>2, <2>3, WayIsBlocked
  <2> QED  BY <1>0, <1>4, <2>1, <2>4 DEF Throw, FlowInv, WalkInv, ScanInv, walk
<1>5. CASE LeaveFlow
  <2>1. cursor \in Data /\ cursor \in Cell /\ ~PastEnd(cursor)
    BY <1>0, <1>5, GridAssumption DEF LeaveFlow, FlowInv, WalkInv, PastEnd, Cell
  <2>2. \A b \in Cell : Before(b, cursor') <=> Before(b, cursor) \/ b = cursor
    BY <1>5, <2>1, NextCellInGrid DEF LeaveFlow, TypeOK
  <2>3. FollowsToTheEnd => Drains(map, cursor)
    <3> SUFFICES ASSUME FollowsToTheEnd PROVE Drains(map, cursor)
      OBVIOUS
    <3>1. ~halted
      BY DEF FlowInv, ScanInv
    <3>2. map.dir[curCell] = Pit /\ OnTheWay(map, cursor, traversedCells, curCell)
      BY <1>5, <3>1 DEF LeaveFlow, dir, FlowInv, WalkInv
    <3> QED  BY <3>2, WayEndsInPit
  <2> QED  BY <1>0, <1>5, <2>2, <2>3 DEF LeaveFlow, FlowInv, WalkInv, ScanInv, walk
<1>6. CASE Return
  <2>1. PastEnd(cursor) /\ UNCHANGED cursor /\ pc' = "returned"
    BY <1>6 DEF Return
  <2>2. PastEnd(cursor')
    BY <2>1 DEF PastEnd
  <2>3. ScanInv'
    BY <1>0, <1>6, <2>1, <2>2 DEF Return, FlowInv, ScanInv, walk
  <2> QED  BY <2>1, <2>3 DEF FlowInv, WalkInv
<1>7. CASE UNCHANGED vars
  BY <1>0, <1>7 DEF vars, FlowInv, WalkInv, ScanInv, walk
<1> QED  BY <1>1, <1>2, <1>3, <1>4, <1>5, <1>6, <1>7 DEF Next

LEMMA Invariance == Spec => [](TypeOK /\ LoadInv /\ FlowInv)
BY TypeInit, TypeNext, FlowInit, FlowNext, PTL DEF Spec

(* The tests of traverse_ldd after each step (accuflux.h:203-232) find     *)
(* every unsound flow that accuflux and accufractionflux enter, and what   *)
(* any of the functions throws for is there.                               *)
THEOREM UnsoundMapsAreThrown == Spec => []ThrowsOnUnsound
<1>1. TypeOK /\ FlowInv => ThrowsOnUnsound
  <2> SUFFICES ASSUME TypeOK, FlowInv PROVE ThrowsOnUnsound
    OBVIOUS
  <2>1. ASSUME PastEnd(cursor), NEW c \in Data PROVE Before(c, cursor)
    BY <2>1, GridAssumption, CallFields DEF PastEnd, Cell, Before
  <2> QED  BY <2>1 DEF FlowInv, ScanInv, ThrowsOnUnsound, FollowsToTheEnd
<1> QED  BY <1>1, Invariance, PTL

-----------------------------------------------------------------------------
(* Factors along a way                                                     *)

(* What is left of a number after the factors of the cells of a way.       *)
Kept(of, number, w) == FoldLeft(LAMBDA left, c : Times(left, of.factor[c]), number, w)

LEMMA KeptSteps ==
  ASSUME NEW of, \A c \in Cell : of.factor[c] \in Number,
         NEW number \in Number, NEW w \in Seq(Cell)
  PROVE  \E g : /\ g[1 .. 0] = number
                /\ \A k \in 1 .. Len(w) : g[1 .. k] = Times(g[1 .. k - 1], of.factor[w[k]])
                /\ Kept(of, number, w) = g[1 .. Len(w)]
<1> DEFINE n == Len(w)
           F == [p \in (1 .. n) \X Number |-> Times(p[2], of.factor[w[p[1]]])]
           Keeps(g) == g = [s \in SUBSET (1 .. n) |->
                              IF s = {} THEN number
                              ELSE Times(g[s \ {Max(s)}], of.factor[w[Max(s)]])]
           g == CHOOSE g : Keeps(g)
<1>1. n \in Nat /\ DOMAIN w = 1 .. n
  OBVIOUS
<1>2. \A i \in 1 .. n : of.factor[w[i]] \in Number
  OBVIOUS
<1>3. F \in [(1 .. n) \X Number -> Number]
  <2>1. ASSUME NEW p \in (1 .. n) \X Number
        PROVE  Times(p[2], of.factor[w[p[1]]]) \in Number
    <3>1. p[2] \in Number /\ of.factor[w[p[1]]] \in Number
      BY <1>2
    <3> QED  BY <3>1, Arithmetic
  <2> HIDE DEF n
  <2> QED  BY <2>1
<1>4. \A i \in 1 .. n : \A x \in Number : F[<<i, x>>] = Times(x, of.factor[w[i]])
  OBVIOUS
<1>5. Kept(of, number, w) = g[1 .. n]
  <2>1. DOMAIN w = 1 .. n
    BY <1>1
  <2> HIDE DEF n
  <2> QED  BY <2>1 DEF Kept, FoldLeft, MapThenFoldSet
<1> HIDE DEF n, F
<1>6. \E h : Keeps(h)
  <2>1. PICK h \in [SUBSET (1 .. n) -> Number] : Folds(h, 1 .. n, number, F, Latest(n))
    BY <1>1, <1>3, LeftFoldExists
  <2>2. ASSUME NEW s \in SUBSET (1 .. n)
        PROVE  h[s] = IF s = {} THEN number
                      ELSE Times(h[s \ {Max(s)}], of.factor[w[Max(s)]])
    <3>1. \A r \in SUBSET (1 .. n) :
            h[r] = IF r = {} THEN number
                   ELSE F[<<Latest(n)[r], h[r \ {Latest(n)[r]}]>>]
      <4>1. h = [r \in SUBSET (1 .. n) |->
                   IF r = {} THEN number
                   ELSE F[<<Latest(n)[r], h[r \ {Latest(n)[r]}]>>]]
        BY <2>1 DEF Folds
      <4> QED  BY <4>1, Zenon
    <3>2. CASE s # {}
      <4>1. Latest(n)[s] = Max(s)
        BY DEF Latest
      <4>2. Max(s) \in 1 .. n /\ h[s \ {Max(s)}] \in Number
        BY <1>1, <3>2, MaxIs
      <4> QED  BY <1>4, <3>1, <3>2, <4>1, <4>2
    <3> QED  BY <3>1, <3>2
  <2>3. h = [s \in SUBSET (1 .. n) |->
               IF s = {} THEN number ELSE Times(h[s \ {Max(s)}], of.factor[w[Max(s)]])]
    BY <2>1, <2>2
  <2> QED  BY <2>3
<1>7. Keeps(g)
  BY <1>6
<1> HIDE DEF g
<1>8. \A s \in SUBSET (1 .. n) :
        g[s] = IF s = {} THEN number ELSE Times(g[s \ {Max(s)}], of.factor[w[Max(s)]])
  BY <1>7, Zenon
<1>9. g[1 .. 0] = number
  <2>1. 1 .. 0 = {} /\ {} \in SUBSET (1 .. n)
    OBVIOUS
  <2> QED  BY <1>8, <2>1, Zenon
<1>10. ASSUME NEW k \in 1 .. n PROVE g[1 .. k] = Times(g[1 .. k - 1], of.factor[w[k]])
  <2>1. /\ 1 .. k \in SUBSET (1 .. n) /\ 1 .. k # {}
        /\ (1 .. k) \ {k} = 1 .. k - 1
    BY <1>1, Segment
  <2>2. Max(1 .. k) = k
    BY <1>1, MaxIs
  <2> QED  BY <1>8, <2>1, <2>2, Zenon
<1> QED  BY <1>5, <1>9, <1>10 DEF n

(* It is reckoned along the way.                                           *)
LEMMA KeptAlong ==
  ASSUME NEW of, \A c \in Cell : of.factor[c] \in Number,
         NEW number \in Number, NEW w \in Seq(Cell), NEW c \in Cell
  PROVE  /\ Kept(of, number, w) \in Number
         /\ Kept(of, number, <<>>) = number
         /\ Kept(of, number, Append(w, c)) = Times(Kept(of, number, w), of.factor[c])
<1> DEFINE n == Len(w)
           v == Append(w, c)
           Along(g, u) == /\ g[1 .. 0] = number
                          /\ \A k \in 1 .. Len(u) :
                               g[1 .. k] = Times(g[1 .. k - 1], of.factor[u[k]])
                          /\ Kept(of, number, u) = g[1 .. Len(u)]
<1>1. PICK g : Along(g, w)
  BY KeptSteps
<1>2. PICK h : Along(h, v)
  <2>1. v \in Seq(Cell)
    OBVIOUS
  <2> HIDE DEF v
  <2> QED  BY <2>1, KeptSteps
<1>3. /\ n \in Nat /\ Len(v) = n + 1 /\ v[n + 1] = c
      /\ \A k \in 1 .. n : v[k] = w[k] /\ w[k] \in Cell
  OBVIOUS
<1> DEFINE Differ == {k \in Nat : k <= n /\ (g[1 .. k] # h[1 .. k] \/ g[1 .. k] \notin Number)}
<1>4. Differ = {}
  <2> SUFFICES ASSUME Differ # {} PROVE FALSE
    OBVIOUS
  <2>1. PICK k \in Differ : \A j \in Differ : k <= j
    <3>1. Differ \in SUBSET Nat
      OBVIOUS
    <3> HIDE DEF Differ
    <3> QED  BY <3>1, LeastNatural
  <2> HIDE DEF v
  <2>2. CASE k = 0
    BY <1>1, <1>2, <2>1, <2>2
  <2>3. CASE k # 0
    <3>1. k \in 1 .. n /\ k - 1 \in Nat /\ k - 1 <= n /\ k - 1 \notin Differ
      BY <1>3, <2>1, <2>3
    <3>2. g[1 .. k - 1] = h[1 .. k - 1] /\ g[1 .. k - 1] \in Number
      BY <3>1
    <3>3. /\ g[1 .. k] = Times(g[1 .. k - 1], of.factor[w[k]])
          /\ h[1 .. k] = Times(h[1 .. k - 1], of.factor[v[k]])
      BY <1>1, <1>2, <1>3, <3>1
    <3>4. Times(g[1 .. k - 1], of.factor[w[k]]) \in Number
      BY <1>3, <3>1, <3>2, Arithmetic
    <3> QED  BY <1>3, <2>1, <3>1, <3>2, <3>3, <3>4
  <2> QED  BY <2>2, <2>3
<1>5. g[1 .. n] = h[1 .. n] /\ g[1 .. n] \in Number
  BY <1>3, <1>4
<1>6. h[1 .. n + 1] = Times(h[1 .. n + 1 - 1], of.factor[c])
  BY <1>2, <1>3
<1>7. n + 1 - 1 = n
  BY <1>3
<1>8. Kept(of, number, <<>>) = number
  <2>1. <<>> \in Seq(Cell) /\ Len(<<>>) = 0
    OBVIOUS
  <2> DEFINE u == <<>>
  <2> HIDE DEF u
  <2>2. PICK k : Along(k, u)
    <3>1. u \in Seq(Cell)
      BY <2>1 DEF u
    <3> QED  BY <3>1, KeptSteps
  <2>3. Kept(of, number, u) = number
    BY <2>1, <2>2 DEF u
  <2> QED  BY <2>3 DEF u
<1> QED  BY <1>1, <1>2, <1>3, <1>5, <1>6, <1>7, <1>8

-----------------------------------------------------------------------------
(* The ways of the water                                                   *)

Toward(map, c) ==
  IF map.dir[c] = Pit THEN {} ELSE {to \in Cell : FlowsInto(map, c, to)}

IsWay(map, w) ==
  /\ w \in Seq(Cell) /\ Len(w) \in 1 .. Rows * Cols
  /\ \A i \in 1 .. Len(w) - 1 : w[i + 1] \in Toward(map, w[i])

Ways(map, starts) == {w \in Seq(Cell) : IsWay(map, w) /\ w[1] \in starts}

LEMMA TowardSingle ==
  ASSUME NEW map, NEW c, NEW a \in Toward(map, c), NEW b \in Toward(map, c)
  PROVE  a = b
BY DEF Toward, FlowsInto

LEMMA WayGrows ==
  ASSUME NEW map, NEW starts, NEW w \in Ways(map, starts), NEW to \in Toward(map, Last(w)),
         Len(w) < Rows * Cols
  PROVE  /\ Append(w, to) \in Ways(map, starts) /\ Append(w, to)[1] = w[1]
         /\ Len(Append(w, to)) = Len(w) + 1 /\ Last(Append(w, to)) = to
<1> DEFINE v == Append(w, to)
           N == Rows * Cols
<1>1. w \in Seq(Cell) /\ Len(w) \in 1 .. N /\ w[1] \in starts
  BY DEF Ways, IsWay
<1>2. to \in Cell
  BY DEF Toward
<1>3. N \in Nat
  BY GridAssumption
<1> HIDE DEF N
<1>4. /\ v \in Seq(Cell) /\ Len(v) = Len(w) + 1 /\ v[Len(w) + 1] = to
      /\ \A i \in 1 .. Len(w) : v[i] = w[i]
  BY <1>1, <1>2
<1> HIDE DEF v
<1>5. Len(v) \in 1 .. N
  BY <1>1, <1>3, <1>4 DEF N
<1>6. ASSUME NEW i \in 1 .. Len(v) - 1 PROVE v[i + 1] \in Toward(map, v[i])
  <2>1. CASE i = Len(w)
    <3>1. v[i] = Last(w) /\ v[i + 1] = to
      BY <1>1, <1>4, <2>1 DEF Last
    <3> QED  BY <3>1
  <2>2. CASE i # Len(w)
    <3>1. i \in 1 .. Len(w) - 1 /\ i + 1 \in 1 .. Len(w) /\ i \in 1 .. Len(w)
      BY <1>1, <1>4, <2>2
    <3>2. v[i] = w[i] /\ v[i + 1] = w[i + 1]
      BY <1>4, <3>1
    <3> QED  BY <3>1, <3>2 DEF Ways, IsWay
  <2> QED  BY <2>1, <2>2
<1>7. v[1] = w[1] /\ Last(v) = to
  BY <1>1, <1>4 DEF Last
<1> QED  BY <1>1, <1>4, <1>5, <1>6, <1>7 DEF Ways, IsWay, v, N

LEMMA WayBefore ==
  ASSUME NEW map, NEW starts, NEW w \in Ways(map, starts), Len(w) >= 2
  PROVE  /\ Front(w) \in Ways(map, starts) /\ Front(w)[1] = w[1]
         /\ Len(Front(w)) = Len(w) - 1 /\ Last(w) \in Toward(map, Last(Front(w)))
         /\ w = Append(Front(w), Last(w))
<1> DEFINE n == Len(w)
           v == Front(w)
           N == Rows * Cols
<1>1. w \in Seq(Cell) /\ n \in 1 .. N /\ w[1] \in starts
  BY DEF Ways, IsWay
<1>2. N \in Nat
  BY GridAssumption
<1> HIDE DEF N
<1>3. v \in Seq(Cell) /\ Len(v) = n - 1 /\ \A i \in 1 .. n - 1 : v[i] = w[i]
  BY <1>1 DEF Front
<1> HIDE DEF v
<1>4. w = Append(v, Last(w))
  BY <1>1, <1>3 DEF Last
<1>5. ASSUME NEW i \in 1 .. n - 2 PROVE v[i + 1] \in Toward(map, v[i])
  <2>1. i \in 1 .. n - 1 /\ i + 1 \in 1 .. n - 1
    BY <1>1
  <2> QED  BY <1>3, <2>1 DEF Ways, IsWay
<1>6. Len(v) \in 1 .. N /\ Len(v) - 1 = n - 2
  BY <1>1, <1>2, <1>3
<1>7. v[1] = w[1] /\ Last(v) = w[n - 1]
  BY <1>1, <1>3 DEF Last
<1>8. Last(w) \in Toward(map, Last(v))
  <2>1. n - 1 \in 1 .. n - 1 /\ (n - 1) + 1 = n
    BY <1>1
  <2>2. w[(n - 1) + 1] \in Toward(map, w[n - 1])
    BY <2>1 DEF Ways, IsWay
  <2> QED  BY <1>7, <2>1, <2>2 DEF Last
<1> QED  BY <1>1, <1>3, <1>4, <1>5, <1>6, <1>7, <1>8 DEF Ways, IsWay, v, N

(* There is only one way to go.                                            *)
LEMMA WaysAgree ==
  ASSUME NEW map, NEW v, IsWay(map, v), NEW w, IsWay(map, w), v[1] = w[1],
         NEW i \in 1 .. Len(v), i <= Len(w)
  PROVE  v[i] = w[i]
<1> DEFINE Differ == {k \in Nat : k >= 1 /\ k <= Len(v) /\ k <= Len(w) /\ v[k] # w[k]}
<1>1. v \in Seq(Cell) /\ w \in Seq(Cell) /\ Len(v) \in Nat /\ Len(w) \in Nat
  BY DEF IsWay
<1>2. Differ = {}
  <2> SUFFICES ASSUME Differ # {} PROVE FALSE
    OBVIOUS
  <2>1. PICK k \in Differ : \A j \in Differ : k <= j
    <3>1. Differ \in SUBSET Nat
      OBVIOUS
    <3> HIDE DEF Differ
    <3> QED  BY <3>1, LeastNatural
  <2>2. k # 1 /\ k \in Nat /\ k >= 1
    BY <2>1
  <2>3. k - 1 \in Nat /\ k - 1 >= 1 /\ k - 1 \notin Differ
    BY <2>1, <2>2
  <2>4. v[k - 1] = w[k - 1] /\ k - 1 \in 1 .. Len(v) - 1 /\ k - 1 \in 1 .. Len(w) - 1
    BY <1>1, <2>1, <2>3
  <2>5. (k - 1) + 1 = k
    BY <2>2
  <2>6. v[k] \in Toward(map, v[k - 1]) /\ w[k] \in Toward(map, w[k - 1])
    BY <2>4, <2>5 DEF IsWay
  <2>7. v[k] = w[k]
    BY <2>4, <2>6, TowardSingle
  <2> QED  BY <2>1, <2>7
<1> QED  BY <1>1, <1>2

LEMMA WaysEqual ==
  ASSUME NEW map, NEW v, IsWay(map, v), NEW w, IsWay(map, w), v[1] = w[1], Len(v) = Len(w)
  PROVE  v = w
<1>1. v \in Seq(Cell) /\ w \in Seq(Cell)
  BY DEF IsWay
<1>2. \A i \in 1 .. Len(v) : v[i] = w[i]
  <2> TAKE i \in 1 .. Len(v)
  <2>1. i <= Len(w)
    BY <1>1
  <2> QED  BY <2>1, WaysAgree
<1> QED  BY <1>1, <1>2

LEMMA WaysFinite ==
  ASSUME NEW map, NEW starts, starts \subseteq Cell
  PROVE  IsFiniteSet(Ways(map, starts))
<1> DEFINE N == Rows * Cols
           D == Cell \X (1 .. N)
           f == [w \in Ways(map, starts) |-> <<w[1], Len(w)>>]
<1>1. N \in Nat
  BY GridAssumption
<1>2. IsFiniteSet(D)
  <2>1. IsFiniteSet(1 .. N)
    BY <1>1, FS_Interval
  <2> HIDE DEF N
  <2> QED  BY <2>1, CellsFinite, FS_Product, Zenon
<1>3. \A w \in Ways(map, starts) : <<w[1], Len(w)>> \in D
  BY DEF Ways, IsWay
<1>4. \A v, w \in Ways(map, starts) : <<v[1], Len(v)>> = <<w[1], Len(w)>> => v = w
  <2> SUFFICES ASSUME NEW v \in Ways(map, starts), NEW w \in Ways(map, starts), v[1] = w[1], Len(v) = Len(w)
               PROVE  v = w
    OBVIOUS
  <2> QED  BY WaysEqual DEF Ways
<1> HIDE DEF D
<1>5. f \in Injection(Ways(map, starts), D)
  BY <1>3, <1>4 DEF Injection, IsInjective
<1> QED  BY <1>2, <1>5, FS_Injection

(* They are those that the properties speak of.                            *)
LEMMA WaysFromIs ==
  ASSUME NEW starts, starts \subseteq Cell
  PROVE  WaysFrom(starts) = {w \in Ways(call.ldd, starts) : Len(w) >= 2}
<1> DEFINE N == Rows * Cols
           map == call.ldd
           Grow(w) == {Append(w, to) : to \in Toward(map, Last(w))}
           F == [A \in SUBSET Seq(Cell) |-> UNION {Grow(w) : w \in A}]
           first == {<<c>> : c \in starts}
           Round(g, n) == IF n = 0 THEN first ELSE UNION {Grow(w) : w \in g[n - 1]}
           IsLong(g) == g = [n \in 0 .. N - 1 |-> Round(g, n)]
           ways == CHOOSE g : IsLong(g)
           Long(k) == {w \in Ways(map, starts) : Len(w) = k}
<1>1. N \in Nat /\ N >= 1
  BY GridAssumption
<1>2. WaysFrom(starts) = UNION {ways[n] : n \in 1 .. N - 1}
  BY DEF WaysFrom, Toward
<1>3. F \in [SUBSET Seq(Cell) -> SUBSET Seq(Cell)]
  <2>1. ASSUME NEW A \in SUBSET Seq(Cell) PROVE UNION {Grow(w) : w \in A} \in SUBSET Seq(Cell)
    <3>1. ASSUME NEW w \in A, NEW to \in Toward(map, Last(w)) PROVE Append(w, to) \in Seq(Cell)
      <4>1. to \in Cell /\ w \in Seq(Cell)
        BY DEF Toward
      <4> QED  BY <4>1
    <3> QED  BY <3>1
  <2> HIDE DEF Grow
  <2> QED  BY <2>1
<1>4. first \in SUBSET Seq(Cell)
  <2>1. \A c \in starts : <<c>> \in Seq(Cell)
    OBVIOUS
  <2> QED  BY <2>1
<1> HIDE DEF N, Grow
<1>5. \A A \in SUBSET Seq(Cell) : F[A] = UNION {Grow(w) : w \in A}
  OBVIOUS
<1> HIDE DEF F, first
<1>6. \E g : IsLong(g)
  <2>1. N - 1 \in Nat
    BY <1>1
  <2>2. PICK g : Iterates(g, SUBSET Seq(Cell), F, first, N - 1)
    BY <1>3, <1>4, <2>1, Iteration
  <2>3. g \in [0 .. N - 1 -> SUBSET Seq(Cell)] /\ g[0] = first
    BY <2>2 DEF Iterates
  <2>4. \A n \in 0 .. N - 1 : g[n] = Round(g, n)
    <3> SUFFICES ASSUME NEW n \in 0 .. N - 1, n # 0 PROVE g[n] = UNION {Grow(w) : w \in g[n - 1]}
      BY <2>3
    <3>1. n \in 1 .. N - 1 /\ n - 1 \in 0 .. N - 1
      BY <1>1
    <3>2. g[n] = F[g[n - 1]]
      BY <2>2, <3>1 DEF Iterates
    <3>3. g[n - 1] \in SUBSET Seq(Cell)
      BY <2>3, <3>1
    <3> QED  BY <1>5, <3>2, <3>3
  <2> HIDE DEF Round
  <2>5. g = [n \in 0 .. N - 1 |-> Round(g, n)]
    BY <2>3, <2>4
  <2> QED  BY <2>5
<1>7. IsLong(ways)
  BY <1>6
<1> HIDE DEF ways
<1>8. \A n \in 0 .. N - 1 : ways[n] = Round(ways, n)
  <2> HIDE DEF Round
  <2> QED  BY <1>7
<1>9. Long(1) = first
  <2>1. ASSUME NEW w \in Long(1) PROVE w \in first
    <3>1. w \in Seq(Cell) /\ Len(w) = 1 /\ w[1] \in starts
      BY DEF Ways
    <3>2. w = <<w[1]>>
      BY <3>1
    <3> QED  BY <3>1, <3>2 DEF first
  <2>2. ASSUME NEW c \in starts PROVE <<c>> \in Long(1)
    <3>1. /\ <<c>> \in Seq(Cell) /\ Len(<<c>>) = 1 /\ <<c>>[1] = c
          /\ 1 \in 1 .. Rows * Cols /\ 1 .. 0 = {}
      BY <1>1 DEF N
    <3> QED  BY <3>1 DEF Ways, IsWay
  <2> QED  BY <2>1, <2>2 DEF first
<1>10. ASSUME NEW k \in 1 .. N - 1 PROVE Long(k + 1) = UNION {Grow(w) : w \in Long(k)}
  <2>1. k \in Nat /\ k < N /\ k >= 1
    BY <1>1
  <2>2. ASSUME NEW w \in Long(k), NEW to \in Toward(map, Last(w)) PROVE Append(w, to) \in Long(k + 1)
    BY <2>1, WayGrows DEF N
  <2>3. ASSUME NEW v \in Long(k + 1) PROVE v \in UNION {Grow(w) : w \in Long(k)}
    <3>1. Len(v) >= 2 /\ Len(v) - 1 = k
      BY <2>1
    <3>2. Front(v) \in Long(k)
      BY <3>1, WayBefore
    <3>3. v \in Grow(Front(v))
      BY <3>1, WayBefore DEF Grow
    <3> QED  BY <3>2, <3>3
  <2>4. \A w \in Long(k) : \A v \in Grow(w) : v \in Long(k + 1)
    BY <2>2 DEF Grow
  <2> HIDE DEF Long
  <2> QED  BY <2>3, <2>4
<1> DEFINE Odd == {n \in Nat : n <= N - 1 /\ ways[n] # Long(n + 1)}
<1> HIDE DEF Long
<1>11. Odd = {}
  <2> SUFFICES ASSUME Odd # {} PROVE FALSE
    OBVIOUS
  <2>1. PICK n \in Odd : \A j \in Odd : n <= j
    <3>1. Odd \in SUBSET Nat
      OBVIOUS
    <3> HIDE DEF Odd
    <3> QED  BY <3>1, LeastNatural
  <2>2. n \in Nat /\ n <= N - 1 /\ ways[n] # Long(n + 1) /\ n \in 0 .. N - 1
    BY <1>1, <2>1
  <2>3. n # 0
    <3>1. ways[0] = Long(0 + 1)
      <4>1. 0 \in 0 .. N - 1 /\ 0 + 1 = 1
        BY <1>1
      <4> QED  BY <1>8, <1>9, <4>1
    <3> QED  BY <2>2, <3>1
  <2>4. n - 1 \in Nat /\ n - 1 <= N - 1 /\ n - 1 \notin Odd /\ n \in 1 .. N - 1
    BY <1>1, <2>1, <2>2, <2>3
  <2>5. ways[n - 1] = Long(n - 1 + 1) /\ n - 1 + 1 = n
    BY <2>2, <2>4
  <2>6. ways[n] = UNION {Grow(w) : w \in ways[n - 1]}
    BY <1>8, <2>2, <2>3
  <2> QED  BY <1>10, <2>2, <2>4, <2>5, <2>6
<1>12. \A n \in 1 .. N - 1 : ways[n] = Long(n + 1)
  BY <1>11
<1>13. ASSUME NEW w \in Ways(map, starts), Len(w) >= 2
       PROVE  \E n \in 1 .. N - 1 : w \in Long(n + 1)
  <2>1. Len(w) \in 1 .. N
    BY DEF Ways, IsWay, N
  <2>2. Len(w) - 1 \in 1 .. N - 1 /\ Len(w) = (Len(w) - 1) + 1
    BY <1>1, <1>13, <2>1
  <2>3. w \in Long((Len(w) - 1) + 1)
    BY <2>2 DEF Long
  <2> QED  BY <2>2, <2>3
<1>14. ASSUME NEW n \in 1 .. N - 1, NEW w \in Long(n + 1)
       PROVE  w \in Ways(map, starts) /\ Len(w) >= 2
  BY <1>1 DEF Long
<1> QED  BY <1>2, <1>12, <1>13, <1>14

-----------------------------------------------------------------------------
(* What arrives                                                            *)

LEMMA PlusLaws ==
  ASSUME NEW a \in Number
  PROVE  /\ Plus(a, 0) = a /\ Plus(0, a) = a
         /\ \A b, c \in Number : Plus(Plus(a, b), c) = Plus(a, Plus(b, c))
<1>1. NoData # 0
  BY FlowAssumption
<1>2. Plus(a, 0) = a /\ Plus(0, a) = a
  BY <1>1 DEF Plus, Number
<1>3. ASSUME NEW b \in Number, NEW c \in Number
      PROVE  Plus(Plus(a, b), c) = Plus(a, Plus(b, c))
  <2>1. CASE NoData \in {a, b, c}
    BY <2>1 DEF Plus
  <2>2. CASE NoData \notin {a, b, c}
    <3>1. a \in Int /\ b \in Int /\ c \in Int
      BY <2>2 DEF Number
    <3>2. a + b # NoData /\ b + c # NoData /\ (a + b) + c = a + (b + c)
      BY <3>1, FlowAssumption
    <3> QED  BY <2>2, <3>2 DEF Plus
  <2> QED  BY <2>1, <2>2
<1> QED  BY <1>2, <1>3

TotalOf(f, S) == IF \E w \in S : f[w] = NoData THEN NoData ELSE SumFunctionOnSet(f, S)

LEMMA TotalEmpty ==
  ASSUME NEW f
  PROVE  TotalOf(f, {}) = 0
BY SumEmpty DEF TotalOf

LEMMA TotalAdds ==
  ASSUME NEW S, IsFiniteSet(S), NEW x, x \notin S, NEW f, \A w \in S \cup {x} : f[w] \in Number
  PROVE  /\ TotalOf(f, S) \in Number
         /\ TotalOf(f, S \cup {x}) = Plus(TotalOf(f, S), f[x])
<1>1. CASE \E w \in S \cup {x} : f[w] = NoData
  <2>1. TotalOf(f, S \cup {x}) = NoData
    BY <1>1 DEF TotalOf
  <2>2. CASE \E w \in S : f[w] = NoData
    <3>1. TotalOf(f, S) = NoData
      BY <2>2 DEF TotalOf
    <3> QED  BY <2>1, <3>1 DEF Plus, Number
  <2>3. CASE ~\E w \in S : f[w] = NoData
    <3>1. f[x] = NoData
      BY <1>1, <2>3
    <3>2. \A w \in S : f[w] \in Int
      BY <2>3 DEF Number
    <3>3. SumFunctionOnSet(f, S) \in Int
      BY <3>2, SumType
    <3>4. TotalOf(f, S) \in Number
      BY <2>3, <3>3 DEF TotalOf, Number
    <3> QED  BY <2>1, <3>1, <3>4 DEF Plus
  <2> QED  BY <2>2, <2>3
<1>2. CASE ~\E w \in S \cup {x} : f[w] = NoData
  <2> DEFINE T == S \cup {x}
  <2>1. IsFiniteSet(T) /\ x \in T /\ T \ {x} = S
    BY FS_AddElement
  <2>2. \A w \in T : f[w] \in Int
    BY <1>2 DEF Number
  <2> HIDE DEF T
  <2>3. SumFunctionOnSet(f, T) = f[x] + SumFunctionOnSet(f, T \ {x})
    BY <2>1, <2>2, SumRemove
  <2>4. SumFunctionOnSet(f, S) \in Int /\ f[x] \in Int
    <3>1. \A w \in S : f[w] \in Int
      BY <2>1, <2>2
    <3> QED  BY <2>1, <2>2, <3>1, SumType
  <2>5. TotalOf(f, S) = SumFunctionOnSet(f, S)
    BY <1>2 DEF TotalOf
  <2>6. TotalOf(f, T) = SumFunctionOnSet(f, T)
    BY <1>2 DEF TotalOf, T
  <2>7. TotalOf(f, T) = TotalOf(f, S) + f[x] /\ TotalOf(f, S) \in Int
    <3>1. SumFunctionOnSet(f, T) = f[x] + SumFunctionOnSet(f, S)
      BY <2>1, <2>3, Zenon
    <3> QED  BY <2>4, <2>5, <2>6, <3>1
  <2>8. NoData \notin {TotalOf(f, S), f[x]}
    BY <2>4, <2>7, FlowAssumption
  <2> QED  BY <2>7, <2>8 DEF Plus, Number, T
<1> QED  BY <1>1, <1>2

LEMMA TotalIs ==
  ASSUME NEW S, IsFiniteSet(S), NEW f, \A x \in S : f[x] \in Number,
         NEW h, DOMAIN h = S, \A x \in S : h[x] = f[x]
  PROVE  Total(h) = TotalOf(f, S)
<1>1. NoData \in Range(h) <=> \E x \in S : f[x] = NoData
  BY DEF Range
<1>2. CASE \E x \in S : f[x] = NoData
  BY <1>1, <1>2 DEF Total, TotalOf
<1>3. CASE ~\E x \in S : f[x] = NoData
  <2>1. \A x \in S : f[x] \in Int /\ h[x] \in Int
    BY <1>3 DEF Number
  <2>2. SumFunctionOnSet(h, S) = SumFunctionOnSet(f, S)
    BY <2>1, SumSame
  <2>3. SumFunction(h) = SumFunctionOnSet(h, S)
    BY Zenon DEF SumFunction
  <2> QED  BY <1>1, <1>3, <2>2, <2>3 DEF Total, TotalOf
<1> QED  BY <1>2, <1>3

(* What is left of the freight at the end of each way.                     *)
Remains(of) ==
  [w \in Ways(of.ldd, DataCells(of.ldd)) |->
     IF of.op = "accuflux" THEN of.freight[w[1]] ELSE Kept(of, of.freight[w[1]], w)]

LEMMA RemainsAlong ==
  ASSUME NEW of \in CallType, NEW w \in Ways(of.ldd, DataCells(of.ldd))
  PROVE  /\ Remains(of)[w] \in Number
         /\ Len(w) = 1 => Remains(of)[w] = IF of.op = "accuflux" THEN of.freight[w[1]]
                            ELSE Times(of.freight[w[1]], of.factor[w[1]])
         /\ \A to \in Toward(of.ldd, Last(w)) : Len(w) < Rows * Cols =>
              Remains(of)[Append(w, to)] =
                IF of.op = "accuflux" THEN Remains(of)[w]
                ELSE Times(Remains(of)[w], of.factor[to])
<1> DEFINE map == of.ldd
           own == of.freight[w[1]]
<1>1. w \in Seq(Cell) /\ Len(w) \in Nat /\ Len(w) >= 1 /\ w[1] \in Cell /\ own \in Number
  <2>1. w \in Seq(Cell) /\ Len(w) \in Nat /\ Len(w) >= 1
    BY DEF Ways, IsWay
  <2>2. w[1] \in Cell
    BY <2>1
  <2> QED  BY <2>1, <2>2 DEF CallType
<1>2. \A c \in Cell : of.factor[c] \in Number
  BY DEF CallType
<1>3. Kept(of, own, w) \in Number
  BY <1>1, <1>2, KeptAlong
<1>4. \A v \in Ways(map, DataCells(map)) :
        Remains(of)[v] = IF of.op = "accuflux" THEN of.freight[v[1]]
                         ELSE Kept(of, of.freight[v[1]], v)
  BY DEF Remains
<1>5. Remains(of)[w] \in Number
  BY <1>1, <1>3, <1>4
<1>6. ASSUME Len(w) = 1
      PROVE  Remains(of)[w] = IF of.op = "accuflux" THEN own ELSE Times(own, of.factor[w[1]])
  <2>1. w = Append(<<>>, w[1]) /\ <<>> \in Seq(Cell)
    BY <1>1, <1>6
  <2>2. Kept(of, own, <<>>) = own /\ Kept(of, own, Append(<<>>, w[1])) = Times(Kept(of, own, <<>>), of.factor[w[1]])
    BY <1>1, <1>2, <2>1, KeptAlong
  <2>3. Kept(of, own, w) = Times(own, of.factor[w[1]])
    BY <2>1, <2>2, Zenon
  <2> QED  BY <1>4, <2>3
<1>7. ASSUME NEW to \in Toward(map, Last(w)), Len(w) < Rows * Cols
      PROVE  Remains(of)[Append(w, to)] = IF of.op = "accuflux" THEN Remains(of)[w]
                                          ELSE Times(Remains(of)[w], of.factor[to])
  <2> DEFINE v == Append(w, to)
  <2>1. v \in Ways(map, DataCells(map)) /\ v[1] = w[1]
    BY <1>7, WayGrows
  <2>2. to \in Cell
    BY DEF Toward
  <2>3. Kept(of, own, v) = Times(Kept(of, own, w), of.factor[to])
    BY <1>1, <1>2, <2>2, KeptAlong
  <2> HIDE DEF v
  <2>4. of.freight[v[1]] = own
    BY <2>1
  <2>5. Remains(of)[v] = IF of.op = "accuflux" THEN own ELSE Kept(of, own, v)
    BY <1>4, <2>1, <2>4
  <2> QED  BY <1>4, <2>3, <2>5 DEF v
<1> QED  BY <1>5, <1>6, <1>7

(* The ways that end in c of the traversals started before the one of      *)
(* start, and those of n cells at most of that one.                        *)
Arrived(map, c, start, n) ==
  {w \in Ways(map, DataCells(map)) :
     /\ Len(w) >= 2 /\ Last(w) = c
     /\ Before(w[1], start) \/ (w[1] = start /\ Len(w) <= n)}

LEMMA ArrivedFinite ==
  ASSUME NEW map, NEW c, NEW start, NEW n
  PROVE  IsFiniteSet(Arrived(map, c, start, n))
<1>1. IsFiniteSet(Ways(map, DataCells(map)))
  BY WaysFinite DEF DataCells
<1>2. Arrived(map, c, start, n) \in SUBSET Ways(map, DataCells(map))
  BY DEF Arrived
<1> QED  BY <1>1, <1>2, FS_Subset

(* A step adds one way, to the cell it comes to.                           *)
LEMMA ArrivedStep ==
  ASSUME NEW map, NEW p \in Ways(map, DataCells(map)), NEW to \in Toward(map, Last(p)),
         Len(p) < Rows * Cols, NEW c \in Cell
  PROVE  LET before == Arrived(map, c, p[1], Len(p))
             after == Arrived(map, c, p[1], Len(p) + 1)
         IN  IF c = to THEN Append(p, to) \notin before /\ after = before \cup {Append(p, to)}
             ELSE after = before
<1> DEFINE q == Append(p, to)
           start == p[1]
           before == Arrived(map, c, start, Len(p))
           after == Arrived(map, c, start, Len(p) + 1)
<1>1. IsWay(map, p) /\ Len(p) \in Nat /\ Len(p) >= 1 /\ start \in Cell
  BY DEF Ways, IsWay
<1>2. q \in Ways(map, DataCells(map)) /\ q[1] = start /\ Len(q) = Len(p) + 1 /\ Last(q) = to
  BY WayGrows
<1>3. ~Before(start, start)
  BY <1>1 DEF Before, Cell
<1> HIDE DEF q
<1>4. ASSUME NEW w \in Ways(map, DataCells(map)), w[1] = start, Len(w) = Len(p) + 1
      PROVE  w = q
  BY <1>2, <1>4, WaysEqual DEF Ways
<1>5. \A w \in Ways(map, DataCells(map)) : Len(w) \in Nat
  BY DEF Ways
<1>6. \A w \in Ways(map, DataCells(map)) :
        w \in after <=> w \in before \/ (w = q /\ c = to)
  <2> SUFFICES ASSUME NEW w \in Ways(map, DataCells(map))
               PROVE  w \in after <=> w \in before \/ (w = q /\ c = to)
    OBVIOUS
  <2>1. CASE w = q
    BY <1>1, <1>2, <1>3, <2>1 DEF Arrived
  <2>2. CASE w # q
    <3>1. w[1] = start /\ Len(w) <= Len(p) + 1 => Len(w) <= Len(p)
      BY <1>1, <1>4, <1>5, <2>2
    <3>2. Len(w) <= Len(p) => Len(w) <= Len(p) + 1
      BY <1>1, <1>5
    <3> QED  BY <2>2, <3>1, <3>2 DEF Arrived
  <2> QED  BY <2>1, <2>2
<1>7. q \notin before
  BY <1>1, <1>2, <1>3 DEF Arrived
<1>8. before \subseteq Ways(map, DataCells(map)) /\ after \subseteq Ways(map, DataCells(map))
  BY DEF Arrived
<1> HIDE DEF before, after
<1>9. CASE c = to
  <2>1. after = before \cup {q}
    BY <1>2, <1>6, <1>8, <1>9
  <2> QED  BY <1>7, <1>9, <2>1 DEF before, after, q
<1>10. CASE c # to
  <2>1. after = before
    BY <1>6, <1>8, <1>10
  <2> QED  BY <1>10, <2>1 DEF before, after
<1> QED  BY <1>9, <1>10

(* Nothing arrives between two traversals.                                 *)
LEMMA ArrivedNext ==
  ASSUME NEW map, NEW start \in Cell, NEW next \in (0 .. Rows) \X (0 .. Cols - 1),
         \A b \in Cell : Before(b, next) <=> Before(b, start) \/ b = start,
         NEW n \in Nat,
         \A w \in Ways(map, DataCells(map)) : w[1] = start => Len(w) <= n,
         NEW c \in Cell
  PROVE  Arrived(map, c, next, 1) = Arrived(map, c, start, n)
<1>1. \A w \in Ways(map, DataCells(map)) : w[1] \in Cell /\ Len(w) \in Nat
  BY DEF Ways, IsWay
<1>2. ASSUME NEW w \in Ways(map, DataCells(map)), Len(w) >= 2
      PROVE  (Before(w[1], next) \/ (w[1] = next /\ Len(w) <= 1))
               <=> (Before(w[1], start) \/ (w[1] = start /\ Len(w) <= n))
  <2>1. ~(Len(w) <= 1) /\ (w[1] = start => Len(w) <= n) /\ w[1] \in Cell
    BY <1>1, <1>2
  <2> QED  BY <2>1
<1> QED  BY <1>2 DEF Arrived

LEMMA WayCannotGoOn ==
  ASSUME NEW map, NEW starts, NEW p \in Ways(map, starts), Toward(map, Last(p)) = {},
         NEW w \in Ways(map, starts), w[1] = p[1]
  PROVE  Len(w) <= Len(p)
<1> SUFFICES ASSUME ~(Len(w) <= Len(p)) PROVE FALSE
  OBVIOUS
<1>1. IsWay(map, p) /\ IsWay(map, w) /\ Len(p) \in Nat /\ Len(w) \in Nat /\ Len(p) >= 1
  BY DEF Ways, IsWay
<1>2. Len(p) \in 1 .. Len(p) /\ Len(p) <= Len(w) /\ Len(p) \in 1 .. Len(w) - 1
  BY <1>1
<1>3. p[Len(p)] = w[Len(p)]
  BY <1>1, <1>2, WaysAgree
<1>4. w[Len(p) + 1] \in Toward(map, w[Len(p)])
  BY <1>1, <1>2 DEF IsWay
<1> QED  BY <1>3, <1>4 DEF Last

-----------------------------------------------------------------------------
(* What accuflux and accufractionflux have written so far                  *)

StepsTaken == IF pc = "flow" THEN Cardinality(traversedCells) + 1 ELSE 1

Arrivals(c) == Arrived(call.ldd, c, cursor, StepsTaken)

FluxInv ==
  FollowsToTheEnd /\ pc # "thrown" =>
    /\ \A c \in Data :
         result[c] = Plus(Remains(call)[<<c>>], TotalOf(Remains(call), Arrivals(c)))
    /\ \A c \in Cell \ Data : Before(c, cursor) => result[c] = NoData
    /\ pc = "flow" => \E p \in Ways(call.ldd, Data) :
         /\ p[1] = cursor /\ Len(p) = StepsTaken
         /\ Last(p) = curCell /\ load = Remains(call)[p]

LEMMA OwnFreight ==
  ASSUME NEW of \in CallType, NEW c \in DataCells(of.ldd)
  PROVE  /\ <<c>> \in Ways(of.ldd, DataCells(of.ldd)) /\ Last(<<c>>) = c
         /\ Remains(of)[<<c>>] \in Number
         /\ Remains(of)[<<c>>] = IF of.op = "accuflux" THEN of.freight[c]
                                 ELSE Times(of.freight[c], of.factor[c])
<1>1. /\ <<c>> \in Seq(Cell) /\ Len(<<c>>) = 1 /\ <<c>>[1] = c
      /\ 1 \in 1 .. Rows * Cols /\ 1 .. 0 = {}
  BY GridAssumption DEF DataCells
<1>2. <<c>> \in Ways(of.ldd, DataCells(of.ldd))
  BY <1>1 DEF Ways, IsWay
<1>3. Last(<<c>>) = c
  BY <1>1 DEF Last
<1> DEFINE w == <<c>>
<1> HIDE DEF w
<1>4. w \in Ways(of.ldd, DataCells(of.ldd)) /\ Len(w) = 1 /\ w[1] = c
  BY <1>1, <1>2 DEF w
<1>5. /\ Remains(of)[w] \in Number
      /\ Remains(of)[w] = IF of.op = "accuflux" THEN of.freight[c]
                          ELSE Times(of.freight[c], of.factor[c])
  BY <1>4, RemainsAlong
<1> QED  BY <1>2, <1>3, <1>5 DEF w

LEMMA FluxInit == Init => FluxInv
<1> SUFFICES ASSUME Init, FollowsToTheEnd PROVE FluxInv
  BY DEF FluxInv
<1>1. call \in CallType /\ Data \subseteq Cell /\ Data = DataCells(call.ldd)
  BY FlowAssumption DEF Init, Data, DataCells
<1>2. \A c \in Cell : ~Before(c, cursor)
  BY GridAssumption DEF Init, FirstCell, Cell, Before
<1>3. \A c \in Data : Arrivals(c) = {}
  <2>1. StepsTaken = 1
    BY DEF Init, StepsTaken
  <2>2. \A w \in Ways(call.ldd, DataCells(call.ldd)) : w[1] \in Cell /\ Len(w) \in Nat
    BY DEF Ways, IsWay
  <2> QED  BY <1>2, <2>1, <2>2 DEF Arrivals, Arrived
<1>4. ASSUME NEW c \in Data
      PROVE  result[c] = Plus(Remains(call)[<<c>>], TotalOf(Remains(call), Arrivals(c)))
  <2>1. /\ Remains(call)[<<c>>] \in Number
        /\ Remains(call)[<<c>>] = IF call.op = "accuflux" THEN call.freight[c]
                                  ELSE Times(call.freight[c], call.factor[c])
    BY <1>1, OwnFreight
  <2>2. result[c] = Remains(call)[<<c>>]
    BY <1>1, <2>1 DEF Init, FollowsToTheEnd
  <2>3. TotalOf(Remains(call), Arrivals(c)) = 0
    BY <1>3, TotalEmpty
  <2> QED  BY <2>1, <2>2, <2>3, PlusLaws
<1> QED  BY <1>1, <1>2, <1>4 DEF FluxInv, Init

(* A cell without data is left as it is found.                             *)
LEMMA FluxSkip == TypeOK /\ FluxInv /\ SkipCell => FluxInv'
<1> SUFFICES ASSUME TypeOK, FluxInv, SkipCell, FollowsToTheEnd PROVE FluxInv'
  BY DEF FluxInv, SkipCell, FollowsToTheEnd
<1>1. /\ UNCHANGED <<call, pc>> /\ pc = "scan" /\ ~PastEnd(cursor)
      /\ result' = [result EXCEPT ![cursor] = SkippedValue(cursor)]
      /\ cursor' = NextCell(cursor)
  BY DEF SkipCell
<1>2. cursor \in Cell /\ cursor' \in (0 .. Rows) \X (0 .. Cols - 1)
  BY <1>1, NextCellInGrid DEF TypeOK
<1>3. \A b \in Cell : Before(b, cursor') <=> Before(b, cursor) \/ b = cursor
  BY <1>1, NextCellInGrid DEF TypeOK
<1>4. cursor \notin Data /\ SkippedValue(cursor) = NoData
  BY DEF SkipCell, Skips, SkippedValue, AtStation, FollowsToTheEnd, Data, DataCells
<1>5. Data' = Data /\ Data \subseteq Cell /\ Data = DataCells(call.ldd)
  BY <1>1 DEF Data, DataCells
<1>6. ASSUME NEW c \in Data PROVE Arrivals(c)' = Arrivals(c)
  <2>1. StepsTaken = 1 /\ StepsTaken' = 1
    BY <1>1 DEF StepsTaken
  <2>2. \A w \in Ways(call.ldd, DataCells(call.ldd)) : w[1] = cursor => Len(w) <= 1
    BY <1>4, <1>5 DEF Ways
  <2>3. Arrived(call.ldd, c, cursor', 1) = Arrived(call.ldd, c, cursor, 1)
    BY <1>2, <1>3, <1>5, <2>2, ArrivedNext
  <2> QED  BY <1>1, <2>1, <2>3 DEF Arrivals
<1>7. ASSUME NEW c \in Data
      PROVE  result'[c] = Plus(Remains(call')[<<c>>], TotalOf(Remains(call'), Arrivals(c)'))
  <2>1. result'[c] = result[c]
    BY <1>1, <1>4, <1>5 DEF TypeOK
  <2>2. result[c] = Plus(Remains(call)[<<c>>], TotalOf(Remains(call), Arrivals(c)))
    BY <1>1 DEF FluxInv
  <2> QED  BY <1>1, <1>6, <2>1, <2>2
<1>8. ASSUME NEW c \in Cell \ Data, Before(c, cursor') PROVE result'[c] = NoData
  <2>1. CASE c = cursor
    BY <1>1, <1>2, <1>4, <2>1 DEF TypeOK
  <2>2. CASE c # cursor
    <3>1. Before(c, cursor)
      BY <1>3, <1>8, <2>2
    <3> QED  BY <1>1, <2>2, <3>1 DEF TypeOK, FluxInv
  <2> QED  BY <2>1, <2>2
<1> QED  BY <1>1, <1>5, <1>7, <1>8 DEF FluxInv

LEMMA FluxEnter == TypeOK /\ FluxInv /\ EnterFlow => FluxInv'
<1> SUFFICES ASSUME TypeOK, FluxInv, EnterFlow, FollowsToTheEnd PROVE FluxInv'
  BY DEF FluxInv, EnterFlow, FollowsToTheEnd
<1>1. /\ UNCHANGED <<call, cursor, result>> /\ pc = "scan" /\ pc' = "flow"
      /\ curCell' = cursor /\ traversedCells' = {}
      /\ load' = IF call.op = "accuflux" THEN call.freight[cursor]
                 ELSE Times(call.freight[cursor], call.factor[cursor])
  BY DEF EnterFlow, FollowsToTheEnd
<1>2. cursor \in Data
  <2>1. cursor \in Cell
    BY NextCellInGrid DEF EnterFlow, TypeOK
  <2> QED  BY <2>1 DEF EnterFlow, Skips, Data, DataCells
<1>3. Data' = Data /\ Data = DataCells(call.ldd) /\ call \in CallType
  BY <1>1 DEF Data, TypeOK
<1>4. StepsTaken = 1 /\ StepsTaken' = 1
  BY <1>1, FS_EmptySet DEF StepsTaken
<1>5. \A c : Arrivals(c)' = Arrivals(c)
  BY <1>1, <1>4 DEF Arrivals
<1>6. /\ <<cursor>> \in Ways(call.ldd, Data) /\ Last(<<cursor>>) = cursor
      /\ load' = Remains(call)[<<cursor>>]
  BY <1>1, <1>2, <1>3, OwnFreight
<1>7. <<cursor>>[1] = cursor /\ Len(<<cursor>>) = 1
  OBVIOUS
<1>8. \E p \in Ways(call.ldd, Data) :
         /\ p[1] = cursor /\ Len(p) = 1 /\ Last(p) = cursor /\ load' = Remains(call)[p]
  BY <1>6, <1>7
<1> QED  BY <1>1, <1>3, <1>4, <1>5, <1>8 DEF FluxInv

(* What comes along is added to what is there.                             *)
LEMMA FluxFollow == TypeOK /\ FlowInv /\ FluxInv /\ FollowFlow => FluxInv'
<1> SUFFICES ASSUME TypeOK, FlowInv, FluxInv, FollowFlow, FollowsToTheEnd, pc' # "thrown"
             PROVE  FluxInv'
  BY DEF FluxInv, FollowFlow, FollowsToTheEnd
<1> DEFINE to == getNeighbour(dir, curCell)
           map == call.ldd
<1>1. /\ pc = "flow" /\ pc' = "flow" /\ ~halted /\ dir # Pit /\ InTable(dir)
      /\ to \in Cell /\ visitCb(to) /\ ~(~halted' /\ UnsoundAfter(to))
      /\ traversedCells' = traversedCells \cup {curCell} /\ curCell' = to
      /\ UNCHANGED <<call, cursor>>
  BY DEF FollowFlow
<1>2. /\ curCell \in Cell /\ dir = map.dir[curCell] /\ call \in CallType
      /\ \A c \in Cell : result[c] \in Number
  BY DEF TypeOK, dir
<1>3. curCell \in Cell \ traversedCells /\ traversedCells \subseteq Cell
  BY <1>1 DEF FlowInv, WalkInv, OnTheWay
<1>4. /\ call.op = "accuflux" => load' = load
      /\ call.op # "accuflux" => load' = Times(load, call.factor[to])
      /\ result' = [result EXCEPT ![to] = Plus(@, load')]
      /\ halted' = halted
  BY <1>1 DEF FollowsToTheEnd, visitCb, accuflux, accufractionflux, flux_origin, ldd_cluster,
              ldd_dist, max_upstream_dist
<1>5. to \in Data /\ to \notin traversedCells'
  BY <1>1, <1>4 DEF UnsoundAfter, Data, DataCells
<1>6. to \in Toward(map, curCell)
  BY <1>1, <1>2 DEF Toward, FlowsInto
<1>7. Data' = Data /\ Data = DataCells(map) /\ Data \subseteq Cell
  BY <1>1 DEF Data, DataCells
<1> HIDE DEF to
<1>8. PICK p \in Ways(map, Data) : /\ p[1] = cursor /\ Len(p) = StepsTaken
                                   /\ Last(p) = curCell /\ load = Remains(call)[p]
  BY <1>1 DEF FluxInv
<1>9. StepsTaken' = StepsTaken + 1 /\ StepsTaken < Rows * Cols
  <2>1. /\ Cardinality(traversedCells) \in Nat
        /\ Cardinality(traversedCells \cup {curCell}) = Cardinality(traversedCells) + 1
    BY <1>3, SeenBound
  <2>2. traversedCells' \subseteq Cell /\ to \in Cell \ traversedCells'
    BY <1>1, <1>3, <1>5
  <2>3. Cardinality(traversedCells') + 1 \in 1 .. Rows * Cols
    BY <2>2, SeenBound
  <2>4. StepsTaken = Cardinality(traversedCells) + 1
    BY <1>1 DEF StepsTaken
  <2>5. StepsTaken' = Cardinality(traversedCells') + 1
    BY <1>1 DEF StepsTaken
  <2>6. Cardinality(traversedCells') = Cardinality(traversedCells) + 1
    BY <1>1, <2>1
  <2>7. Rows * Cols \in Nat
    BY GridAssumption
  <2> QED  BY <2>1, <2>3, <2>4, <2>5, <2>6, <2>7
<1> DEFINE q == Append(p, to)
<1>10. /\ q \in Ways(map, Data) /\ q[1] = cursor /\ Len(q) = StepsTaken' /\ Last(q) = to
  BY <1>6, <1>8, <1>9, WayGrows
<1>11. load' = Remains(call)[q]
  <2>1. Remains(call)[q] = IF call.op = "accuflux" THEN Remains(call)[p]
                           ELSE Times(Remains(call)[p], call.factor[to])
    BY <1>2, <1>6, <1>7, <1>8, <1>9, RemainsAlong
  <2> QED  BY <1>4, <1>8, <2>1
<1>12. ASSUME NEW c \in Data
       PROVE  IF c = to THEN q \notin Arrivals(c) /\ Arrivals(c)' = Arrivals(c) \cup {q}
              ELSE Arrivals(c)' = Arrivals(c)
  <2>1. /\ Arrivals(c) = Arrived(map, c, p[1], Len(p))
        /\ Arrivals(c)' = Arrived(map, c, p[1], Len(p) + 1)
    BY <1>1, <1>8, <1>9 DEF Arrivals
  <2>2. c \in Cell
    BY <1>7
  <2> HIDE DEF map
  <2> QED  BY <1>6, <1>7, <1>8, <1>9, <2>1, <2>2, ArrivedStep
<1> HIDE DEF q
<1>13. ASSUME NEW c \in Data
       PROVE  result'[c] = Plus(Remains(call)[<<c>>], TotalOf(Remains(call), Arrivals(c)'))
  <2>1. result[c] = Plus(Remains(call)[<<c>>], TotalOf(Remains(call), Arrivals(c)))
    BY <1>1 DEF FluxInv
  <2>2. CASE c # to
    <3>1. result'[c] = result[c]
      BY <1>4, <1>7, <2>2 DEF TypeOK
    <3> QED  BY <1>12, <2>1, <2>2, <3>1
  <2>3. CASE c = to
    <3>1. result'[c] = Plus(result[c], load')
      BY <1>4, <1>7, <2>3 DEF TypeOK
    <3>2. IsFiniteSet(Arrivals(c))
      BY ArrivedFinite DEF Arrivals
    <3>3. \A w \in Arrivals(c) \cup {q} : Remains(call)[w] \in Number
      <4>1. \A w \in Arrivals(c) \cup {q} : w \in Ways(map, DataCells(map))
        BY <1>7, <1>10 DEF Arrivals, Arrived
      <4> QED  BY <1>2, <4>1, RemainsAlong
    <3>4. q \notin Arrivals(c) /\ Arrivals(c)' = Arrivals(c) \cup {q}
      BY <1>12, <2>3
    <3>5. PICK K : K = Arrivals(c)
      OBVIOUS
    <3>6. PICK f : f = Remains(call)
      OBVIOUS
    <3>7. TotalOf(f, K) \in Number /\ TotalOf(f, K \cup {q}) = Plus(TotalOf(f, K), f[q])
      BY <3>2, <3>3, <3>4, <3>5, <3>6, TotalAdds
    <3>8. f[<<c>>] \in Number /\ f[q] \in Number
      BY <1>2, <1>7, <3>3, <3>6, OwnFreight
    <3>9. Plus(Plus(f[<<c>>], TotalOf(f, K)), f[q]) = Plus(f[<<c>>], TotalOf(f, K \cup {q}))
      BY <3>7, <3>8, PlusLaws
    <3>10. TotalOf(f, Arrivals(c)') = TotalOf(f, K \cup {q})
      BY <3>4, <3>5, Zenon
    <3> QED  BY <1>11, <2>1, <3>1, <3>5, <3>6, <3>9, <3>10
  <2> QED  BY <2>2, <2>3
<1>14. ASSUME NEW c \in Cell \ Data, Before(c, cursor) PROVE result'[c] = NoData
  <2>1. result[c] = NoData
    BY <1>1, <1>14 DEF FluxInv
  <2> QED  BY <1>4, <1>5, <1>14, <2>1 DEF TypeOK
<1> QED  BY <1>1, <1>7, <1>10, <1>11, <1>13, <1>14 DEF FluxInv

(* A traversal that ends in a pit has gone all the way.                    *)
LEMMA FluxLeave == TypeOK /\ FlowInv /\ FluxInv /\ LeaveFlow => FluxInv'
<1> SUFFICES ASSUME TypeOK, FlowInv, FluxInv, LeaveFlow, FollowsToTheEnd PROVE FluxInv'
  BY DEF FluxInv, LeaveFlow, FollowsToTheEnd
<1>1. /\ UNCHANGED <<call, result>> /\ pc = "flow" /\ pc' = "scan"
      /\ cursor' = NextCell(cursor)
  BY DEF LeaveFlow, FollowsToTheEnd
<1>2. call.ldd.dir[curCell] = Pit
  BY DEF LeaveFlow, FlowInv, ScanInv, dir
<1>3. Data' = Data /\ Data \subseteq Cell /\ Data = DataCells(call.ldd) /\ cursor \in Data
  BY <1>1 DEF Data, DataCells, FlowInv, WalkInv
<1>4. /\ cursor \in Cell /\ cursor' \in (0 .. Rows) \X (0 .. Cols - 1)
      /\ \A b \in Cell : Before(b, cursor') <=> Before(b, cursor) \/ b = cursor
  <2>1. cursor \in Cell /\ ~PastEnd(cursor)
    BY <1>3, GridAssumption DEF PastEnd, Cell
  <2> QED  BY <1>1, <2>1, NextCellInGrid DEF TypeOK
<1>5. PICK p \in Ways(call.ldd, Data) : /\ p[1] = cursor /\ Len(p) = StepsTaken
                                        /\ Last(p) = curCell
  BY <1>1 DEF FluxInv
<1>6. \A w \in Ways(call.ldd, DataCells(call.ldd)) : w[1] = cursor => Len(w) <= StepsTaken
  <2>1. Toward(call.ldd, Last(p)) = {}
    BY <1>2, <1>5 DEF Toward
  <2> QED  BY <1>3, <1>5, <2>1, WayCannotGoOn
<1>7. ASSUME NEW c \in Data PROVE Arrivals(c)' = Arrivals(c)
  <2>1. StepsTaken' = 1 /\ StepsTaken \in Nat
    BY <1>1, <1>5 DEF StepsTaken, Ways
  <2>2. Arrived(call.ldd, c, cursor', 1) = Arrived(call.ldd, c, cursor, StepsTaken)
    BY <1>3, <1>4, <1>6, <2>1, ArrivedNext
  <2> QED  BY <1>1, <2>1, <2>2 DEF Arrivals
<1>8. \A c \in Data :
        result[c] = Plus(Remains(call)[<<c>>], TotalOf(Remains(call), Arrivals(c)))
  BY <1>1 DEF FluxInv
<1>9. ASSUME NEW c \in Cell \ Data, Before(c, cursor') PROVE result[c] = NoData
  BY <1>1, <1>3, <1>4, <1>9 DEF FluxInv
<1> QED  BY <1>1, <1>3, <1>7, <1>8, <1>9 DEF FluxInv

LEMMA FluxNext == TypeOK /\ FlowInv /\ FluxInv /\ [Next]_vars => FluxInv'
<1> SUFFICES ASSUME TypeOK, FlowInv, FluxInv, [Next]_vars PROVE FluxInv'
  OBVIOUS
<1>1. CASE Throw
  BY <1>1 DEF Throw, FluxInv
<1>2. CASE Return
  <2>1. UNCHANGED <<call, cursor, walk, result>> /\ pc = "scan" /\ pc' = "returned"
    BY <1>2 DEF Return
  <2>2. /\ StepsTaken' = StepsTaken /\ Data' = Data
        /\ FollowsToTheEnd' = FollowsToTheEnd /\ \A c : Arrivals(c)' = Arrivals(c)
    BY <2>1 DEF StepsTaken, Data, DataCells, FollowsToTheEnd, Arrivals
  <2> QED  BY <2>1, <2>2 DEF FluxInv
<1>3. CASE UNCHANGED vars
  <2>1. UNCHANGED <<call, pc, cursor, curCell, traversedCells, load, result>>
    BY <1>3 DEF vars, walk
  <2>2. /\ StepsTaken' = StepsTaken /\ Data' = Data
        /\ FollowsToTheEnd' = FollowsToTheEnd /\ \A c : Arrivals(c)' = Arrivals(c)
    BY <2>1 DEF StepsTaken, Data, DataCells, FollowsToTheEnd, Arrivals
  <2> QED  BY <2>1, <2>2 DEF FluxInv
<1> QED  BY <1>1, <1>2, <1>3, FluxSkip, FluxEnter, FluxFollow, FluxLeave DEF Next

(* accuflux (accuflux.h:301) and accufractionflux (385) add what a cell    *)
(* sends on to every cell it comes through, in the order of the scan; what *)
(* they return is, whatever that order, the own freight of each cell and   *)
(* that of all cells upstream, each as it arrives and each counted once.   *)
THEOREM FluxesAreExact == Spec => []FluxExact
<1>1. TypeOK /\ FlowInv /\ FluxInv => FluxExact
  <2> SUFFICES ASSUME TypeOK, FlowInv, FluxInv, pc = "returned", FollowsToTheEnd,
                      NEW c \in Cell
               PROVE  result[c] = IF c \in Data
                        THEN Plus(Remaining(<<c>>),
                                  Total([w \in EndingIn(WaysFrom(Data), c) |-> Remaining(w)]))
                        ELSE NoData
    BY DEF FluxExact, FollowsToTheEnd
  <2>1. /\ Data \subseteq Cell /\ Data = DataCells(call.ldd) /\ call \in CallType
        /\ PastEnd(cursor)
    BY DEF Data, DataCells, TypeOK, FlowInv, ScanInv
  <2>2. \A b \in Cell : Before(b, cursor)
    BY <2>1, GridAssumption DEF PastEnd, Cell, Before
  <2>3. CASE c \notin Data
    BY <2>2, <2>3 DEF FluxInv
  <2>4. CASE c \in Data
    <3> DEFINE f == Remains(call)
               ways == EndingIn(WaysFrom(Data), c)
    <3>1. ways = Arrivals(c)
      <4>1. WaysFrom(Data) = {w \in Ways(call.ldd, Data) : Len(w) >= 2}
        BY <2>1, WaysFromIs
      <4>2. \A w \in Ways(call.ldd, Data) : w[1] \in Cell
        BY <2>1 DEF Ways
      <4> QED  BY <2>1, <2>2, <4>1, <4>2 DEF EndingIn, Arrivals, Arrived
    <3>2. \A w \in Ways(call.ldd, Data) : f[w] \in Number /\ f[w] = Remaining(w)
      <4>1. ASSUME NEW w \in Ways(call.ldd, Data) PROVE f[w] = Remaining(w)
        BY <2>1 DEF Remains, Remaining, Kept
      <4> QED  BY <2>1, <4>1, RemainsAlong
    <3>3. IsFiniteSet(ways) /\ \A w \in ways : w \in Ways(call.ldd, Data)
      <4>1. IsFiniteSet(Arrivals(c))
        BY ArrivedFinite DEF Arrivals
      <4>2. \A w \in Arrivals(c) : w \in Ways(call.ldd, Data)
        BY <2>1 DEF Arrivals, Arrived
      <4> HIDE DEF ways
      <4> QED  BY <3>1, <4>1, <4>2
    <3>4. <<c>> \in Ways(call.ldd, Data)
      BY <2>1, <2>4, OwnFreight
    <3>5. result[c] = Plus(f[<<c>>], TotalOf(f, Arrivals(c)))
      BY <2>4 DEF FluxInv
    <3> HIDE DEF f, ways
    <3>6. Total([w \in ways |-> Remaining(w)]) = TotalOf(f, ways)
      <4> DEFINE h == [w \in ways |-> Remaining(w)]
      <4>1. DOMAIN h = ways /\ \A w \in ways : f[w] \in Number /\ h[w] = f[w]
        BY <3>2, <3>3
      <4> HIDE DEF h
      <4>2. Total(h) = TotalOf(f, ways)
        BY <3>3, <4>1, TotalIs
      <4> QED  BY <4>2 DEF h
    <3>7. TotalOf(f, ways) = TotalOf(f, Arrivals(c))
      BY <3>1, Zenon
    <3>8. f[<<c>>] = Remaining(<<c>>)
      BY <3>2, <3>4
    <3>9. result[c] = Plus(Remaining(<<c>>), Total([w \in ways |-> Remaining(w)]))
      BY <3>5, <3>6, <3>7, <3>8
    <3> QED  BY <2>4, <3>9 DEF ways
  <2> QED  BY <2>3, <2>4
<1>2. Spec => [](TypeOK /\ LoadInv /\ FlowInv /\ FluxInv)
  BY TypeInit, TypeNext, FlowInit, FlowNext, FluxInit, FluxNext, PTL DEF Spec
<1> QED  BY <1>1, <1>2, PTL

-----------------------------------------------------------------------------
(* The first station downstream                                            *)

(* What stops the functions that look for one. *)
Stops(of, c) == IF of.op = "flux_origin" THEN of.station[c] = 1 ELSE of.station[c] # 0

FirstDown(of, start) ==
  {w \in Ways(of.ldd, DataCells(of.ldd)) :
     /\ w[1] = start /\ Len(w) >= 2
     /\ Stops(of, Last(w)) /\ \A i \in 2 .. Len(w) - 1 : ~Stops(of, w[i])}

(* A traversal that was stopped has found it, and there is no other.       *)
LEMMA FirstDownIs ==
  ASSUME NEW of, NEW p \in Ways(of.ldd, DataCells(of.ldd)), Len(p) >= 2,
         Stops(of, Last(p)), \A i \in 1 .. Len(p) - 1 : ~Stops(of, p[i])
  PROVE  FirstDown(of, p[1]) = {p}
<1>1. IsWay(of.ldd, p) /\ Len(p) \in Nat /\ p \in FirstDown(of, p[1])
  BY DEF FirstDown, Ways, IsWay
<1>2. ASSUME NEW w \in FirstDown(of, p[1]) PROVE w = p
  <2>1. /\ IsWay(of.ldd, w) /\ Len(w) \in Nat /\ w[1] = p[1] /\ Len(w) >= 2
        /\ Stops(of, Last(w)) /\ \A i \in 2 .. Len(w) - 1 : ~Stops(of, w[i])
    BY DEF FirstDown, Ways, IsWay
  <2>2. CASE Len(w) < Len(p)
    <3>1. Len(w) \in 1 .. Len(w) /\ Len(w) <= Len(p) /\ Len(w) \in 1 .. Len(p) - 1
      BY <1>1, <2>1, <2>2
    <3>2. w[Len(w)] = p[Len(w)]
      BY <1>1, <2>1, <3>1, WaysAgree
    <3> QED  BY <2>1, <3>1, <3>2 DEF Last
  <2>3. CASE Len(p) < Len(w)
    <3>1. Len(p) \in 1 .. Len(p) /\ Len(p) <= Len(w) /\ Len(p) \in 2 .. Len(w) - 1
      BY <1>1, <2>1, <2>3
    <3>2. p[Len(p)] = w[Len(p)]
      BY <1>1, <2>1, <3>1, WaysAgree
    <3> QED  BY <2>1, <3>1, <3>2 DEF Last
  <2>4. CASE Len(w) = Len(p)
    BY <1>1, <2>1, <2>4, WaysEqual
  <2> QED  BY <1>1, <2>1, <2>2, <2>3, <2>4
<1> QED  BY <1>1, <1>2

LEMMA FirstDownNone ==
  ASSUME NEW of, NEW p \in Ways(of.ldd, DataCells(of.ldd)), Toward(of.ldd, Last(p)) = {},
         \A i \in 1 .. Len(p) : ~Stops(of, p[i])
  PROVE  FirstDown(of, p[1]) = {}
<1> SUFFICES ASSUME NEW w \in FirstDown(of, p[1]) PROVE FALSE
  OBVIOUS
<1>1. /\ IsWay(of.ldd, w) /\ Len(w) \in Nat /\ w[1] = p[1] /\ Len(w) >= 2
      /\ Stops(of, Last(w)) /\ w \in Ways(of.ldd, DataCells(of.ldd))
      /\ IsWay(of.ldd, p) /\ Len(p) \in Nat
  BY DEF FirstDown, Ways, IsWay
<1>2. Len(w) <= Len(p)
  BY <1>1, WayCannotGoOn
<1>3. Len(w) \in 1 .. Len(w) /\ Len(w) \in 1 .. Len(p)
  BY <1>1, <1>2
<1>4. w[Len(w)] = p[Len(w)]
  BY <1>1, <1>2, <1>3, WaysAgree
<1> QED  BY <1>1, <1>3, <1>4 DEF Last

Leg(of, w, i) ==
  Times(Step(w[i], w[i + 1]), Plus(of.factor[w[i]], of.factor[w[i + 1]]))

Friction(of, w) == Total([i \in 1 .. Len(w) - 1 |-> Leg(of, w, i)])

LEMMA FrictionAlong ==
  ASSUME NEW of \in CallType, NEW w \in Ways(of.ldd, DataCells(of.ldd))
  PROVE  /\ Len(w) = 1 => Friction(of, w) = 0
         /\ Len(w) >= 2 /\ of.factor[w[1]] = NoData => Friction(of, w) = NoData
         /\ \A to \in Toward(of.ldd, Last(w)) : Len(w) < Rows * Cols =>
              Friction(of, Append(w, to)) =
                Plus(Friction(of, w), Times(Step(Last(w), to),
                                            Plus(of.factor[Last(w)], of.factor[to])))
<1>1. ASSUME NEW v \in Ways(of.ldd, DataCells(of.ldd)) PROVE v \in Seq(Cell) /\ Len(v) \in Nat /\ Len(v) >= 1
  BY DEF Ways, IsWay
<1>2. ASSUME NEW v \in Ways(of.ldd, DataCells(of.ldd)), NEW i \in 1 .. Len(v) - 1
      PROVE  Leg(of, v, i) \in Number
  <2>1. v[i] \in Cell /\ v[i + 1] \in Cell
    BY <1>1
  <2>2. of.factor[v[i]] \in Number /\ of.factor[v[i + 1]] \in Number
    BY <2>1 DEF CallType
  <2> QED  BY <2>2, StepType, Arithmetic DEF Leg
<1>3. ASSUME NEW v \in Ways(of.ldd, DataCells(of.ldd)), NEW f,
             \A i \in 1 .. Len(v) - 1 : f[i] = Leg(of, v, i)
      PROVE  Friction(of, v) = TotalOf(f, 1 .. Len(v) - 1)
  <2> DEFINE h == [i \in 1 .. Len(v) - 1 |-> Leg(of, v, i)]
             S == 1 .. Len(v) - 1
  <2>1. IsFiniteSet(S)
    BY <1>1, FS_Interval
  <2>2. DOMAIN h = S /\ \A i \in S : f[i] \in Number /\ h[i] = f[i]
    BY <1>2, <1>3
  <2> HIDE DEF h, S
  <2>3. Total(h) = TotalOf(f, S)
    BY <2>1, <2>2, TotalIs
  <2> QED  BY <2>3 DEF Friction, h, S
<1>4. ASSUME Len(w) = 1 PROVE Friction(of, w) = 0
  <2> DEFINE f == [i \in 1 .. Len(w) - 1 |-> Leg(of, w, i)]
  <2>1. \A i \in 1 .. Len(w) - 1 : f[i] = Leg(of, w, i)
    OBVIOUS
  <2> HIDE DEF f
  <2>2. Friction(of, w) = TotalOf(f, 1 .. Len(w) - 1)
    BY <1>3, <2>1
  <2>3. 1 .. Len(w) - 1 = {}
    BY <1>4
  <2>4. TotalOf(f, 1 .. Len(w) - 1) = TotalOf(f, {})
    BY <2>3, Zenon
  <2> QED  BY <2>2, <2>4, TotalEmpty
<1>5. ASSUME Len(w) >= 2, of.factor[w[1]] = NoData PROVE Friction(of, w) = NoData
  <2> DEFINE f == [i \in 1 .. Len(w) - 1 |-> Leg(of, w, i)]
  <2>1. \A i \in 1 .. Len(w) - 1 : f[i] = Leg(of, w, i)
    OBVIOUS
  <2> HIDE DEF f
  <2>2. Friction(of, w) = TotalOf(f, 1 .. Len(w) - 1)
    BY <1>3, <2>1
  <2>3. 1 \in 1 .. Len(w) - 1
    BY <1>1, <1>5
  <2>4. Leg(of, w, 1) = NoData
    BY <1>5 DEF Leg, Plus, Times
  <2> QED  BY <2>1, <2>2, <2>3, <2>4 DEF TotalOf
<1>6. ASSUME NEW to \in Toward(of.ldd, Last(w)), Len(w) < Rows * Cols
      PROVE  Friction(of, Append(w, to)) =
               Plus(Friction(of, w), Times(Step(Last(w), to),
                                           Plus(of.factor[Last(w)], of.factor[to])))
  <2> DEFINE v == Append(w, to)
             n == Len(w)
             f == [i \in 1 .. n |-> Leg(of, v, i)]
  <2>1. v \in Ways(of.ldd, DataCells(of.ldd)) /\ Len(v) = n + 1
    BY <1>6, WayGrows
  <2>2. /\ n \in Nat /\ n >= 1 /\ v[n + 1] = to
        /\ \A i \in 1 .. n : v[i] = w[i]
    BY <1>1, <1>6 DEF Toward
  <2> HIDE DEF v
  <2>3. \A i \in 1 .. n : f[i] = Leg(of, v, i)
    OBVIOUS
  <2> HIDE DEF f
  <2>4. \A i \in 1 .. n - 1 : f[i] = Leg(of, w, i)
    <3>1. ASSUME NEW i \in 1 .. n - 1 PROVE Leg(of, v, i) = Leg(of, w, i)
      <4>1. i \in 1 .. n /\ i + 1 \in 1 .. n
        BY <2>2
      <4> QED  BY <2>2, <4>1 DEF Leg
    <3>2. \A i \in 1 .. n - 1 : i \in 1 .. n
      BY <2>2
    <3> QED  BY <2>3, <3>1, <3>2
  <2>5. f[n] = Times(Step(Last(w), to), Plus(of.factor[Last(w)], of.factor[to]))
    <3>1. n \in 1 .. n
      BY <2>2
    <3>2. f[n] = Leg(of, v, n)
      BY <2>3, <3>1
    <3>3. v[n] = Last(w) /\ v[n + 1] = to
      BY <2>2, <3>1 DEF Last
    <3> QED  BY <3>2, <3>3 DEF Leg
  <2>6. Friction(of, w) = TotalOf(f, 1 .. n - 1)
    BY <1>3, <2>4
  <2>7. Friction(of, v) = TotalOf(f, 1 .. n)
    <3>1. Len(v) - 1 = n
      BY <2>1, <2>2
    <3>2. \A i \in 1 .. Len(v) - 1 : f[i] = Leg(of, v, i)
      BY <2>3, <3>1
    <3>3. Friction(of, v) = TotalOf(f, 1 .. Len(v) - 1)
      BY <1>3, <2>1, <3>2
    <3> QED  BY <3>1, <3>3
  <2> DEFINE S == 1 .. n - 1
  <2>8. S \cup {n} = 1 .. n /\ n \notin S /\ IsFiniteSet(S)
    <3>1. IsFiniteSet(S)
      BY <2>2, FS_Interval
    <3>2. S \cup {n} = 1 .. n /\ n \notin S
      BY <2>2
    <3> QED  BY <3>1, <3>2
  <2>9. \A i \in 1 .. n : f[i] \in Number
    BY <1>2, <2>1, <2>2, <2>3
  <2> HIDE DEF S
  <2>10. TotalOf(f, S \cup {n}) = Plus(TotalOf(f, S), f[n])
    BY <2>8, <2>9, TotalAdds
  <2>11. TotalOf(f, 1 .. n) = Plus(Friction(of, w), f[n])
    BY <2>6, <2>8, <2>10, Zenon DEF S
  <2> QED  BY <2>5, <2>7, <2>11 DEF v
<1> QED  BY <1>4, <1>5, <1>6

StopsAtStation == call.op \in {"flux_origin", "ldd_cluster", "ldd_dist"}

(* What the function is to return in a cell. *)
Answers(of, c, x) ==
  LET found == FirstDown(of, c)
  IN  /\ of.op = "ldd_cluster" =>
           IF of.station[c] # 0 \/ found = {} THEN x = of.station[c]
           ELSE \A w \in found : x = of.station[Last(w)]
      /\ of.op = "flux_origin" =>
           IF of.station[c] # 0 THEN x = Remains(of)[<<c>>]
           ELSE IF found = {} THEN x = 0
           ELSE \A w \in found : x = Remains(of)[Front(w)]
      /\ of.op = "ldd_dist" /\ of.station[c] = 0 =>
           IF found = {} THEN x = NoData
           ELSE \A w \in found :
                  x = IF of.station[Last(w)] = NoData THEN NoData ELSE Friction(of, w)

(* What a traversal knows that came along the way p. *)
Knows(p) ==
  /\ p[1] = cursor /\ Len(p) = StepsTaken /\ Last(p) = curCell
  /\ traversedCells = {p[i] : i \in 1 .. Len(p) - 1}
  /\ \A i \in 1 .. Len(p) - 1 : ~Stops(call, p[i])
  /\ halted <=> Stops(call, curCell)
  /\ halted => Len(p) >= 2
  /\ call.op = "ldd_cluster" /\ halted => result[cursor] = call.station[curCell]
  /\ call.op = "flux_origin" => IF halted THEN result[cursor] = Remains(call)[Front(p)]
                                ELSE load = Remains(call)[p]
  /\ call.op = "ldd_dist" =>
       /\ stoppedInTruePoint <=> halted /\ call.station[curCell] # NoData
       /\ call.station[curCell] # NoData => load = Friction(call, p)

StationInv ==
  StopsAtStation /\ pc # "thrown" =>
    /\ \A c \in Data : Before(c, cursor) => Answers(call, c, result[c])
    /\ \A c \in Data : ~Before(c, cursor) /\ ~(pc = "flow" /\ halted /\ c = cursor) =>
         result[c] = IF call.op = "ldd_cluster" THEN call.station[c] ELSE 0
    /\ pc = "flow" => /\ call.station[cursor] = 0
                      /\ \E p \in Ways(call.ldd, Data) : Knows(p)

LEMMA FrontAppend ==
  ASSUME NEW S, NEW w \in Seq(S), NEW x \in S
  PROVE  Front(Append(w, x)) = w
<1> DEFINE v == Append(w, x)
           u == SubSeq(v, 1, Len(w))
<1>1. Len(w) \in Nat /\ v \in Seq(S) /\ Len(v) = Len(w) + 1 /\ \A i \in 1 .. Len(w) : v[i] = w[i]
  OBVIOUS
<1> HIDE DEF v
<1>2. u \in Seq(S) /\ Len(u) = Len(w) /\ \A i \in 1 .. Len(w) : u[i] = v[i]
  BY <1>1
<1>3. u = w
  <2> HIDE DEF u
  <2> QED  BY <1>1, <1>2
<1>4. Len(v) - 1 = Len(w)
  BY <1>1
<1> QED  BY <1>3, <1>4 DEF Front, v

LEMMA StationInit == Init => StationInv
<1> SUFFICES ASSUME Init, StopsAtStation PROVE StationInv
  BY DEF StationInv
<1>1. \A c \in Cell : ~Before(c, cursor)
  BY GridAssumption DEF Init, FirstCell, Cell, Before
<1>2. Data \subseteq Cell
  BY DEF Data, DataCells
<1>3. \A c \in Cell : result[c] = IF call.op = "ldd_cluster" THEN call.station[c] ELSE 0
  BY DEF Init, StopsAtStation
<1> QED  BY <1>1, <1>2, <1>3 DEF StationInv, Init

LEMMA StationSkip == TypeOK /\ StationInv /\ SkipCell => StationInv'
<1> SUFFICES ASSUME TypeOK, StationInv, SkipCell, StopsAtStation PROVE StationInv'
  BY DEF StationInv, SkipCell, StopsAtStation
<1>1. /\ UNCHANGED <<call, pc>> /\ pc = "scan" /\ ~PastEnd(cursor)
      /\ result' = [result EXCEPT ![cursor] = SkippedValue(cursor)]
      /\ cursor' = NextCell(cursor) /\ Skips(cursor)
  BY DEF SkipCell
<1>2. cursor \in Cell /\ \A b \in Cell : Before(b, cursor') <=> Before(b, cursor) \/ b = cursor
  BY <1>1, NextCellInGrid DEF TypeOK
<1>3. Data' = Data /\ Data \subseteq Cell /\ Data = DataCells(call.ldd) /\ call \in CallType
  BY <1>1 DEF Data, DataCells, TypeOK
<1>4. \A c \in Cell : /\ c # cursor => result'[c] = result[c]
                      /\ c = cursor => result'[c] = SkippedValue(cursor)
  BY <1>1, <1>2 DEF TypeOK
<1>5. ~Before(cursor, cursor)
  BY <1>2 DEF Before, Cell
<1>6. ASSUME cursor \in Data PROVE Answers(call, cursor, SkippedValue(cursor))
  <2>1. result[cursor] = IF call.op = "ldd_cluster" THEN call.station[cursor] ELSE 0
    BY <1>1, <1>5, <1>6 DEF StationInv
  <2>2. ~is_nodata(call.ldd, cursor)
    BY <1>6 DEF Data, DataCells
  <2>3. CASE call.op = "ldd_cluster"
    <3>1. SkippedValue(cursor) = call.station[cursor] /\ call.station[cursor] # 0
      BY <1>1, <2>1, <2>2, <2>3 DEF SkippedValue, Skips, AtStation
    <3> QED  BY <2>3, <3>1 DEF Answers
  <2>4. CASE call.op = "flux_origin"
    <3>1. /\ SkippedValue(cursor) = Times(call.freight[cursor], call.factor[cursor])
          /\ call.station[cursor] # 0
      BY <1>1, <2>2, <2>4 DEF SkippedValue, Skips, AtStation
    <3>2. SkippedValue(cursor) = Remains(call)[<<cursor>>]
      BY <1>3, <1>6, <2>4, <3>1, OwnFreight
    <3> QED  BY <2>4, <3>1, <3>2 DEF Answers
  <2>5. CASE call.op = "ldd_dist" /\ call.station[cursor] = 0
    <3>1. call.factor[cursor] = NoData /\ SkippedValue(cursor) = NoData
      BY <1>1, <2>2, <2>5 DEF SkippedValue, Skips, AtStation
    <3>2. ASSUME NEW w \in FirstDown(call, cursor) PROVE Friction(call, w) = NoData
      BY <1>3, <3>1, FrictionAlong DEF FirstDown
    <3> QED  BY <2>5, <3>1, <3>2 DEF Answers
  <2> QED  BY <2>3, <2>4, <2>5 DEF Answers
<1>7. ASSUME NEW c \in Data, Before(c, cursor') PROVE Answers(call, c, result'[c])
  <2>1. CASE c = cursor
    BY <1>3, <1>4, <1>6, <2>1
  <2>2. CASE c # cursor
    <3>1. Before(c, cursor) /\ result'[c] = result[c]
      BY <1>2, <1>3, <1>4, <1>7, <2>2
    <3> QED  BY <1>1, <3>1 DEF StationInv
  <2> QED  BY <2>1, <2>2
<1>8. ASSUME NEW c \in Data, ~Before(c, cursor')
      PROVE  result'[c] = IF call.op = "ldd_cluster" THEN call.station[c] ELSE 0
  <2>1. c # cursor /\ ~Before(c, cursor) /\ result'[c] = result[c]
    BY <1>2, <1>3, <1>4, <1>8
  <2> QED  BY <1>1, <2>1 DEF StationInv
<1> QED  BY <1>1, <1>3, <1>7, <1>8 DEF StationInv

LEMMA StationEnter == TypeOK /\ StationInv /\ EnterFlow => StationInv'
<1> SUFFICES ASSUME TypeOK, StationInv, EnterFlow, StopsAtStation PROVE StationInv'
  BY DEF StationInv, EnterFlow, StopsAtStation
<1>1. /\ UNCHANGED <<call, cursor, result>> /\ pc = "scan" /\ pc' = "flow"
      /\ curCell' = cursor /\ traversedCells' = {} /\ halted' = FALSE
      /\ load' = (IF call.op = "flux_origin"
                    THEN Times(call.freight[cursor], call.factor[cursor]) ELSE 0)
      /\ stoppedInTruePoint' = FALSE
  BY DEF EnterFlow, StopsAtStation
<1>2. cursor \in Data /\ call.station[cursor] = 0
  <2>1. cursor \in Cell
    BY NextCellInGrid DEF EnterFlow, TypeOK
  <2> QED  BY <2>1 DEF EnterFlow, Skips, AtStation, StopsAtStation, Data, DataCells
<1>3. Data' = Data /\ Data = DataCells(call.ldd) /\ call \in CallType
  BY <1>1 DEF Data, TypeOK
<1>4. StepsTaken' = 1
  BY <1>1, FS_EmptySet DEF StepsTaken
<1>5. PICK p : p = <<cursor>>
  OBVIOUS
<1>6. p[1] = cursor /\ Len(p) = 1 /\ 1 .. Len(p) - 1 = {}
  BY <1>5
<1>7. p \in Ways(call.ldd, Data) /\ Last(p) = cursor
  BY <1>2, <1>3, <1>5, OwnFreight
<1>8. call.op = "flux_origin" => load' = Remains(call)[p]
  BY <1>1, <1>2, <1>3, <1>5, OwnFreight
<1>9. call.op = "ldd_dist" => load' = Friction(call, p)
  BY <1>1, <1>3, <1>6, <1>7, FrictionAlong
<1>10. ~Stops(call, cursor)
  BY <1>2 DEF Stops
<1>11. {p[i] : i \in 1 .. Len(p) - 1} = {}
  BY <1>6
<1> HIDE <1>5
<1>12. Knows(p)'
  BY <1>1, <1>4, <1>6, <1>7, <1>8, <1>9, <1>10, <1>11 DEF Knows
<1>13. \A c \in Data : /\ Before(c, cursor) => Answers(call, c, result[c])
                      /\ ~Before(c, cursor) =>
                           result[c] = IF call.op = "ldd_cluster" THEN call.station[c] ELSE 0
  BY <1>1 DEF StationInv
<1>14. /\ pc' = "flow" /\ call.station[cursor'] = 0
       /\ \E v \in Ways(call.ldd, Data) : Knows(v)'
  BY <1>1, <1>2, <1>7, <1>12
<1> QED  BY <1>1, <1>3, <1>13, <1>14 DEF StationInv

LEMMA StationFollow == TypeOK /\ FlowInv /\ StationInv /\ FollowFlow => StationInv'
<1> SUFFICES ASSUME TypeOK, FlowInv, StationInv, FollowFlow, StopsAtStation, pc' # "thrown"
             PROVE  StationInv'
  BY DEF StationInv, FollowFlow, StopsAtStation
<1> DEFINE map == call.ldd
<1>0. PICK to \in Cell : to = getNeighbour(dir, curCell)
  BY DEF FollowFlow
<1>1. /\ pc = "flow" /\ pc' = "flow" /\ ~halted /\ dir # Pit /\ InTable(dir)
      /\ visitCb(to) /\ ~(~halted' /\ UnsoundAfter(to))
      /\ traversedCells' = traversedCells \cup {curCell} /\ curCell' = to
      /\ UNCHANGED <<call, cursor>>
  BY <1>0 DEF FollowFlow
<1>2. /\ curCell \in Cell /\ dir = map.dir[curCell] /\ call \in CallType /\ cursor \in Data
  BY <1>1 DEF TypeOK, dir, FlowInv, WalkInv
<1>3. Data' = Data /\ Data = DataCells(map) /\ Data \subseteq Cell
  BY <1>1 DEF Data, DataCells
<1>4. to \in Toward(map, curCell)
  BY <1>0, <1>1, <1>2 DEF Toward, FlowsInto
<1>5. halted' <=> Stops(call, to)
  BY <1>1 DEF StopsAtStation, visitCb, accuflux, accufractionflux, flux_origin, ldd_cluster,
              ldd_dist, max_upstream_dist, Stops
<1>6. PICK p \in Ways(map, Data) : Knows(p)
  BY <1>1 DEF StationInv
<1>7. call.station[cursor] = 0
  BY <1>1 DEF StationInv
<1>8. /\ p[1] = cursor /\ Len(p) = StepsTaken /\ Last(p) = curCell
      /\ traversedCells = {p[i] : i \in 1 .. Len(p) - 1}
      /\ \A i \in 1 .. Len(p) - 1 : ~Stops(call, p[i])
      /\ ~Stops(call, curCell)
  BY <1>1, <1>6 DEF Knows
<1>9. p \in Seq(Cell) /\ Len(p) \in Nat /\ Len(p) >= 1
  BY DEF Ways, IsWay
<1>10. ASSUME NEW i \in 1 .. Len(p) PROVE ~Stops(call, p[i]) /\ p[i] \in traversedCells'
  <2>1. CASE i = Len(p)
    BY <1>1, <1>8, <2>1 DEF Last
  <2>2. CASE i # Len(p)
    <3>1. i \in 1 .. Len(p) - 1
      BY <1>9, <2>2
    <3> QED  BY <1>1, <1>8, <3>1
  <2> QED  BY <2>1, <2>2
<1>11. \A c \in traversedCells' : \E i \in 1 .. Len(p) : c = p[i]
  <2>1. Len(p) \in 1 .. Len(p) /\ p[Len(p)] = curCell
    BY <1>8, <1>9 DEF Last
  <2>2. \A i \in 1 .. Len(p) - 1 : i \in 1 .. Len(p)
    BY <1>9
  <2> QED  BY <1>1, <1>8, <2>1, <2>2
<1>12. to \notin traversedCells'
  <2>1. CASE halted'
    BY <1>5, <1>10, <1>11, <2>1
  <2>2. CASE ~halted'
    BY <1>1, <2>2 DEF UnsoundAfter
  <2> QED  BY <2>1, <2>2
<1>13. StepsTaken' = StepsTaken + 1 /\ StepsTaken < Rows * Cols
  <2>0. curCell \in Cell \ traversedCells /\ traversedCells \subseteq Cell
    BY <1>1 DEF FlowInv, WalkInv, OnTheWay
  <2>1. /\ Cardinality(traversedCells) \in Nat
        /\ Cardinality(traversedCells \cup {curCell}) = Cardinality(traversedCells) + 1
    BY <2>0, SeenBound
  <2>2. traversedCells' \subseteq Cell /\ to \in Cell \ traversedCells'
    BY <1>1, <1>12, <2>0
  <2>3. Cardinality(traversedCells') + 1 \in 1 .. Rows * Cols
    BY <2>2, SeenBound
  <2>4. StepsTaken = Cardinality(traversedCells) + 1
    BY <1>1 DEF StepsTaken
  <2>5. StepsTaken' = Cardinality(traversedCells') + 1
    BY <1>1 DEF StepsTaken
  <2>6. Cardinality(traversedCells') = Cardinality(traversedCells) + 1
    BY <1>1, <2>1
  <2>7. Rows * Cols \in Nat
    BY GridAssumption
  <2> QED  BY <2>1, <2>3, <2>4, <2>5, <2>6, <2>7
<1>14. PICK q : q = Append(p, to)
  OBVIOUS
<1>15. /\ q \in Ways(map, Data) /\ q[1] = cursor /\ Len(q) = StepsTaken' /\ Last(q) = to
       /\ Len(q) = Len(p) + 1
  BY <1>4, <1>8, <1>13, <1>14, WayGrows
<1>16. \A i \in 1 .. Len(q) - 1 : q[i] = p[i] /\ i \in 1 .. Len(p)
  BY <1>9, <1>14
<1>17. traversedCells' = {q[i] : i \in 1 .. Len(q) - 1}
  <2>1. Len(q) - 1 = Len(p)
    BY <1>9, <1>15
  <2> QED  BY <1>10, <1>11, <1>16, <2>1
<1>18. Front(q) = p
  BY <1>9, <1>14, FrontAppend
<1>19. Remains(call)[q] = IF call.op = "accuflux" THEN Remains(call)[p]
                          ELSE Times(Remains(call)[p], call.factor[to])
  BY <1>2, <1>3, <1>4, <1>8, <1>13, <1>14, RemainsAlong
<1>20. Friction(call, q) = Plus(Friction(call, p),
                                Times(Step(curCell, to),
                                      Plus(call.factor[curCell], call.factor[to])))
  BY <1>2, <1>3, <1>4, <1>8, <1>13, <1>14, FrictionAlong
<1>21. \A c \in Cell : c # cursor => result'[c] = result[c]
  <2>1. result \in [Cell -> Number]
    BY DEF TypeOK
  <2> QED  BY <1>1, <2>1 DEF StopsAtStation, visitCb, accuflux, accufractionflux, flux_origin,
                ldd_cluster, ldd_dist, max_upstream_dist
<1>22. ~halted' => result' = result
  BY <1>1 DEF StopsAtStation, visitCb, accuflux, accufractionflux, flux_origin,
                ldd_cluster, ldd_dist, max_upstream_dist
<1>23. call.op = "ldd_cluster" /\ halted' => result'[cursor] = call.station[to]
  BY <1>1, <1>2, <1>3 DEF visitCb, accuflux, accufractionflux, flux_origin, ldd_cluster, ldd_dist,
                max_upstream_dist, TypeOK
<1>24. call.op = "flux_origin" => IF halted' THEN result'[cursor] = Remains(call)[Front(q)]
                                  ELSE load' = Remains(call)[q]
  <2> SUFFICES ASSUME call.op = "flux_origin"
               PROVE  IF halted' THEN result'[cursor] = Remains(call)[Front(q)]
                      ELSE load' = Remains(call)[q]
    OBVIOUS
  <2>1. load = Remains(call)[p]
    BY <1>1, <1>6 DEF Knows
  <2>2. /\ result' = IF halted' THEN [result EXCEPT ![cursor] = load] ELSE result
        /\ load' = IF halted' THEN load ELSE Times(load, call.factor[to])
    BY <1>1 DEF visitCb, accuflux, accufractionflux, flux_origin, ldd_cluster, ldd_dist,
                max_upstream_dist
  <2>3. halted' => result'[cursor] = load
    BY <1>2, <1>3, <2>2 DEF TypeOK
  <2> QED  BY <1>18, <1>19, <2>1, <2>2, <2>3
<1>25. call.op = "ldd_dist" =>
         /\ stoppedInTruePoint' <=> halted' /\ call.station[to] # NoData
         /\ call.station[to] # NoData => load' = Friction(call, q)
  <2> SUFFICES ASSUME call.op = "ldd_dist"
               PROVE  /\ stoppedInTruePoint' <=> halted' /\ call.station[to] # NoData
                      /\ call.station[to] # NoData => load' = Friction(call, q)
    OBVIOUS
  <2>1. call.station[curCell] = 0 /\ 0 # NoData
    BY <1>8, FlowAssumption DEF Stops
  <2>2. load = Friction(call, p)
    BY <1>6, <2>1 DEF Knows
  <2>3. /\ stoppedInTruePoint' = (call.station[to] # NoData /\ call.station[to] # 0)
        /\ halted' = (call.station[to] # 0)
        /\ call.station[to] # NoData =>
             load' = Plus(load, Times(Step(curCell, to),
                                      Plus(call.factor[curCell], call.factor[to])))
    BY <1>1 DEF visitCb, accuflux, accufractionflux, flux_origin, ldd_cluster, ldd_dist,
                max_upstream_dist
  <2> QED  BY <1>20, <2>2, <2>3
<1>26. Knows(q)'
  <2>1. halted' => Len(q) >= 2
    BY <1>9, <1>15
  <2>2. \A i \in 1 .. Len(q) - 1 : ~Stops(call, q[i])
    BY <1>10, <1>16
  <2> QED  BY <1>1, <1>5, <1>15, <1>17, <1>23, <1>24, <1>25, <2>1, <2>2 DEF Knows
<1>27. ~Before(cursor, cursor)
  BY <1>2, <1>3 DEF Before, Cell
<1>28. ASSUME NEW c \in Data, Before(c, cursor) PROVE Answers(call, c, result'[c])
  <2>1. result'[c] = result[c]
    BY <1>3, <1>21, <1>27, <1>28
  <2> QED  BY <1>1, <1>28, <2>1 DEF StationInv
<1>29. ASSUME NEW c \in Data, ~Before(c, cursor), ~(halted' /\ c = cursor)
       PROVE  result'[c] = IF call.op = "ldd_cluster" THEN call.station[c] ELSE 0
  <2>1. result'[c] = result[c]
    BY <1>3, <1>21, <1>22, <1>29
  <2> QED  BY <1>1, <1>29, <2>1 DEF StationInv
<1>30. call.station[cursor'] = 0 /\ \E v \in Ways(map, Data) : Knows(v)'
  BY <1>1, <1>7, <1>15, <1>26
<1> HIDE DEF map
<1> QED  BY <1>1, <1>3, <1>28, <1>29, <1>30 DEF StationInv, map

LEMMA StationLeave == TypeOK /\ FlowInv /\ StationInv /\ LeaveFlow => StationInv'
<1> SUFFICES ASSUME TypeOK, FlowInv, StationInv, LeaveFlow, StopsAtStation PROVE StationInv'
  BY DEF StationInv, LeaveFlow, StopsAtStation
<1>1. /\ UNCHANGED call /\ pc = "flow" /\ pc' = "scan" /\ cursor' = NextCell(cursor)
      /\ halted \/ dir = Pit
      /\ result' = IF call.op = "ldd_dist"
                     THEN [result EXCEPT ![cursor] = IF stoppedInTruePoint THEN load ELSE NoData]
                     ELSE result
  BY DEF LeaveFlow
<1>2. Data' = Data /\ Data \subseteq Cell /\ Data = DataCells(call.ldd) /\ cursor \in Data
  BY <1>1 DEF Data, DataCells, FlowInv, WalkInv
<1>3. cursor \in Cell /\ \A b \in Cell : Before(b, cursor') <=> Before(b, cursor) \/ b = cursor
  <2>1. cursor \in Cell /\ ~PastEnd(cursor)
    BY <1>2, GridAssumption DEF PastEnd, Cell
  <2> QED  BY <1>1, <2>1, NextCellInGrid DEF TypeOK
<1>4. /\ \A c \in Cell : c # cursor => result'[c] = result[c]
      /\ call.op = "ldd_dist" =>
           result'[cursor] = IF stoppedInTruePoint THEN load ELSE NoData
      /\ call.op # "ldd_dist" => result'[cursor] = result[cursor]
  BY <1>1, <1>3 DEF TypeOK
<1>5. PICK p \in Ways(call.ldd, Data) : Knows(p)
  BY <1>1 DEF StationInv
<1>6. /\ p[1] = cursor /\ Last(p) = curCell /\ call.station[cursor] = 0
      /\ \A i \in 1 .. Len(p) - 1 : ~Stops(call, p[i])
      /\ halted <=> Stops(call, curCell)
  BY <1>1, <1>5 DEF Knows, StationInv
<1>7. ~Before(cursor, cursor)
  BY <1>3 DEF Before, Cell
<1>8. Answers(call, cursor, result'[cursor])
  <2>1. CASE halted
    <3>1. FirstDown(call, cursor) = {p}
      <4>1. Len(p) >= 2 /\ Stops(call, Last(p))
        BY <1>5, <1>6, <2>1 DEF Knows
      <4> QED  BY <1>2, <1>6, <4>1, FirstDownIs
    <3>2. call.op = "ldd_cluster" => result'[cursor] = call.station[Last(p)]
      BY <1>4, <1>5, <1>6, <2>1 DEF Knows
    <3>3. call.op = "flux_origin" => result'[cursor] = Remains(call)[Front(p)]
      BY <1>4, <1>5, <2>1 DEF Knows
    <3>4. call.op = "ldd_dist" =>
            result'[cursor] = IF call.station[Last(p)] = NoData THEN NoData ELSE Friction(call, p)
      BY <1>4, <1>5, <1>6, <2>1 DEF Knows
    <3> QED  BY <1>6, <3>1, <3>2, <3>3, <3>4 DEF Answers
  <2>2. CASE ~halted
    <3>1. FirstDown(call, cursor) = {}
      <4>1. Toward(call.ldd, Last(p)) = {}
        BY <1>1, <1>6, <2>2 DEF Toward, dir
      <4>2. ASSUME NEW i \in 1 .. Len(p) PROVE ~Stops(call, p[i])
        <5>1. Len(p) \in Nat
          BY DEF Ways
        <5>2. CASE i = Len(p)
          BY <1>6, <2>2, <5>2 DEF Last
        <5>3. CASE i # Len(p)
          <6>1. i \in 1 .. Len(p) - 1
            BY <5>1, <5>3
          <6> QED  BY <1>6, <6>1
        <5> QED  BY <5>2, <5>3
      <4> QED  BY <1>2, <1>6, <4>1, <4>2, FirstDownNone
    <3>2. call.op # "ldd_dist" =>
            result'[cursor] = IF call.op = "ldd_cluster" THEN call.station[cursor] ELSE 0
      BY <1>1, <1>2, <1>4, <1>7, <2>2 DEF StationInv
    <3>3. call.op = "ldd_dist" => result'[cursor] = NoData
      BY <1>4, <1>5, <2>2 DEF Knows
    <3> QED  BY <1>6, <3>1, <3>2, <3>3 DEF Answers
  <2> QED  BY <2>1, <2>2
<1>9. ASSUME NEW c \in Data, Before(c, cursor') PROVE Answers(call, c, result'[c])
  <2>1. CASE c = cursor
    BY <1>8, <2>1
  <2>2. CASE c # cursor
    <3>1. Before(c, cursor) /\ result'[c] = result[c]
      BY <1>2, <1>3, <1>4, <1>9, <2>2
    <3> QED  BY <1>1, <3>1 DEF StationInv
  <2> QED  BY <2>1, <2>2
<1>10. ASSUME NEW c \in Data, ~Before(c, cursor')
       PROVE  result'[c] = IF call.op = "ldd_cluster" THEN call.station[c] ELSE 0
  <2>1. c # cursor /\ ~Before(c, cursor) /\ result'[c] = result[c]
    BY <1>2, <1>3, <1>4, <1>10
  <2> QED  BY <1>1, <2>1 DEF StationInv
<1> QED  BY <1>1, <1>2, <1>9, <1>10 DEF StationInv

LEMMA StationNext == TypeOK /\ FlowInv /\ StationInv /\ [Next]_vars => StationInv'
<1> SUFFICES ASSUME TypeOK, FlowInv, StationInv, [Next]_vars PROVE StationInv'
  OBVIOUS
<1>1. CASE Throw
  BY <1>1 DEF Throw, StationInv
<1>2. CASE Return
  <2>1. /\ UNCHANGED <<call, cursor, result>> /\ pc = "scan" /\ pc' = "returned"
        /\ Data' = Data /\ StopsAtStation' = StopsAtStation
    BY <1>2 DEF Return, Data, DataCells, StopsAtStation
  <2> QED  BY <2>1 DEF StationInv
<1>3. CASE UNCHANGED vars
  <2>1. UNCHANGED <<call, pc, cursor, curCell, traversedCells, halted, load, stoppedInTruePoint, result>>
    BY <1>3 DEF vars, walk
  <2>2. /\ Data' = Data /\ StopsAtStation' = StopsAtStation /\ StepsTaken' = StepsTaken
        /\ \A p : Knows(p)' = Knows(p)
    BY <2>1 DEF Data, DataCells, StopsAtStation, StepsTaken, Knows
  <2> QED  BY <2>1, <2>2 DEF StationInv
<1> QED  BY <1>1, <1>2, <1>3, StationSkip, StationEnter, StationFollow, StationLeave DEF Next

LEMMA FirstDownstreamIs ==
  ASSUME NEW c \in Data
  PROVE  /\ call.op = "flux_origin" =>
              LET One(d) == call.station[d] = 1
              IN  FirstDownstream(One, c) = FirstDown(call, c)
         /\ call.op \in {"ldd_cluster", "ldd_dist"} =>
              FirstDownstream(AtStation, c) = FirstDown(call, c)
<1>1. WaysFrom({c}) = {w \in Ways(call.ldd, DataCells(call.ldd)) : w[1] = c /\ Len(w) >= 2}
  <2>1. {c} \subseteq Cell /\ c \in DataCells(call.ldd)
    BY DEF Data, DataCells
  <2>2. WaysFrom({c}) = {w \in Ways(call.ldd, {c}) : Len(w) >= 2}
    BY <2>1, WaysFromIs
  <2> QED  BY <2>1, <2>2 DEF Ways
<1>2. ASSUME call.op = "flux_origin"
      PROVE  LET One(d) == call.station[d] = 1
             IN  FirstDownstream(One, c) = FirstDown(call, c)
  BY <1>1, <1>2 DEF FirstDownstream, FirstDown, Stops
<1>3. ASSUME call.op \in {"ldd_cluster", "ldd_dist"}
      PROVE  FirstDownstream(AtStation, c) = FirstDown(call, c)
  BY <1>1, <1>3 DEF FirstDownstream, FirstDown, Stops, AtStation
<1> QED  BY <1>2, <1>3

LEMMA RemainsIs ==
  ASSUME NEW w \in Ways(call.ldd, DataCells(call.ldd))
  PROVE  Remains(call)[w] = Remaining(w)
BY DEF Remains, Remaining, Kept

LEMMA StationInvariance == Spec => [](TypeOK /\ LoadInv /\ FlowInv /\ StationInv)
BY TypeInit, TypeNext, FlowInit, FlowNext, StationInit, StationNext, PTL DEF Spec

LEMMA AllAnswered ==
  ASSUME TypeOK, FlowInv, StationInv, pc = "returned", StopsAtStation, NEW c \in Data
  PROVE  Answers(call, c, result[c])
<1>1. PastEnd(cursor) /\ c \in Cell
  BY DEF FlowInv, ScanInv, Data, DataCells
<1>2. Before(c, cursor)
  BY <1>1, GridAssumption DEF PastEnd, Cell, Before
<1> QED  BY <1>2 DEF StationInv

(* flux_origin (accuflux.h:622) and ldd_cluster (692) stop at the first    *)
(* station they come to: every cell gets the id of, or the flux into, the  *)
(* nearest station downstream and not that of one further on, and a cell   *)
(* that meets none keeps what it had.                                      *)
THEOREM StationsAreExact == Spec => []StationsExact
<1>1. TypeOK /\ FlowInv /\ StationInv => StationsExact
  <2> SUFFICES ASSUME TypeOK, FlowInv, StationInv, pc = "returned", NEW c \in Data
               PROVE  /\ call.op = "ldd_cluster" =>
                           LET ways == FirstDownstream(AtStation, c)
                           IN  IF AtStation(c) \/ ways = {} THEN result[c] = call.station[c]
                               ELSE \A w \in ways : result[c] = call.station[Last(w)]
                      /\ call.op = "flux_origin" =>
                           LET One(d) == call.station[d] = 1
                               ways == FirstDownstream(One, c)
                           IN  IF AtStation(c) THEN result[c] = Remaining(<<c>>)
                               ELSE IF ways = {} THEN result[c] = 0
                               ELSE \A w \in ways : result[c] = Remaining(Front(w))
    BY DEF StationsExact
  <2>1. CASE call.op = "ldd_cluster"
    <3>1. Answers(call, c, result[c])
      BY <2>1, AllAnswered DEF StopsAtStation
    <3>2. FirstDownstream(AtStation, c) = FirstDown(call, c)
      BY <2>1, FirstDownstreamIs
    <3>3. AtStation(c) <=> call.station[c] # 0
      BY <2>1 DEF AtStation
    <3> QED  BY <2>1, <3>1, <3>2, <3>3 DEF Answers
  <2>2. CASE call.op = "flux_origin"
    <3> DEFINE One(d) == call.station[d] = 1
               ways == FirstDownstream(One, c)
    <3>1. Answers(call, c, result[c])
      BY <2>2, AllAnswered DEF StopsAtStation
    <3>2. ways = FirstDown(call, c)
      BY <2>2, FirstDownstreamIs
    <3>3. AtStation(c) <=> call.station[c] # 0
      BY <2>2 DEF AtStation
    <3>4. Remains(call)[<<c>>] = Remaining(<<c>>)
      <4>1. <<c>> \in Ways(call.ldd, DataCells(call.ldd))
        BY OwnFreight DEF Data, TypeOK
      <4> DEFINE w == <<c>>
      <4> HIDE DEF w
      <4>2. Remains(call)[w] = Remaining(w)
        BY <4>1, RemainsIs DEF w
      <4> QED  BY <4>2 DEF w
    <3>5. ASSUME NEW w \in FirstDown(call, c) PROVE Remains(call)[Front(w)] = Remaining(Front(w))
      <4>1. Front(w) \in Ways(call.ldd, DataCells(call.ldd))
        BY WayBefore DEF FirstDown
      <4> QED  BY <4>1, RemainsIs
    <3> HIDE DEF ways
    <3>6. IF AtStation(c) THEN result[c] = Remaining(<<c>>)
          ELSE IF ways = {} THEN result[c] = 0
          ELSE \A w \in ways : result[c] = Remaining(Front(w))
      BY <2>2, <3>1, <3>2, <3>3, <3>4, <3>5 DEF Answers
    <3> QED  BY <2>2, <3>6 DEF ways
  <2> QED  BY <2>1, <2>2
<1> QED  BY <1>1, StationInvariance, PTL

(* ldd_dist (accuflux.h:734) measures to the nearest point downstream.     *)
THEOREM FrictionDistancesAreExact == Spec => []LddDistExact
<1>1. TypeOK /\ FlowInv /\ StationInv => LddDistExact
  <2> SUFFICES ASSUME TypeOK, FlowInv, StationInv, pc = "returned", call.op = "ldd_dist",
                      NEW c \in Data, call.station[c] = 0
               PROVE  LET ways == FirstDownstream(AtStation, c)
                      IN  IF ways = {} THEN result[c] = NoData
                          ELSE \A w \in ways :
                                 result[c] = IF call.station[Last(w)] = NoData THEN NoData
                                             ELSE Friction(call, w)
    BY DEF LddDistExact, Friction, Leg
  <2>1. Answers(call, c, result[c])
    BY AllAnswered DEF StopsAtStation
  <2>2. FirstDownstream(AtStation, c) = FirstDown(call, c)
    BY FirstDownstreamIs
  <2> QED  BY <2>1, <2>2 DEF Answers
<1> QED  BY <1>1, StationInvariance, PTL

-----------------------------------------------------------------------------
(* The longest flow through a cell                                         *)

WayLength(w) == SumFunction([i \in 1 .. Len(w) - 1 |-> Step(w[i], w[i + 1])])

LEMMA LengthAlong ==
  ASSUME NEW map, NEW starts, NEW w \in Ways(map, starts)
  PROVE  /\ WayLength(w) \in Int
         /\ Len(w) = 1 => WayLength(w) = 0
         /\ Len(w) >= 2 => WayLength(w) = WayLength(Front(w)) + Step(Last(Front(w)), Last(w))
<1> DEFINE n == Len(w)
           f == [i \in 1 .. n - 1 |-> Step(w[i], w[i + 1])]
<1>1. w \in Seq(Cell) /\ n \in Nat /\ n >= 1
  BY DEF Ways, IsWay
<1>2. \A i \in 1 .. n - 1 : f[i] = Step(w[i], w[i + 1]) /\ f[i] \in Int
  BY StepType
<1>3. IsFiniteSet(1 .. n - 1)
  BY <1>1, FS_Interval
<1>4. WayLength(w) = SumFunctionOnSet(f, 1 .. n - 1)
  <2>1. DOMAIN f = 1 .. n - 1
    OBVIOUS
  <2>2. WayLength(w) = SumFunction(f)
    BY DEF WayLength
  <2> HIDE DEF f
  <2> QED  BY <2>1, <2>2, Zenon DEF SumFunction
<1> HIDE DEF f
<1>5. WayLength(w) \in Int
  BY <1>2, <1>3, <1>4, SumType
<1>6. ASSUME n = 1 PROVE WayLength(w) = 0
  <2>1. 1 .. n - 1 = {}
    BY <1>6
  <2>2. SumFunctionOnSet(f, 1 .. n - 1) = SumFunctionOnSet(f, {})
    BY <2>1, Zenon
  <2> QED  BY <1>4, <2>2, SumEmpty
<1>7. ASSUME n >= 2
      PROVE  WayLength(w) = WayLength(Front(w)) + Step(Last(Front(w)), Last(w))
  <2> DEFINE v == Front(w)
             h == [i \in 1 .. Len(v) - 1 |-> Step(v[i], v[i + 1])]
             S == 1 .. n - 1
  <2>1. Len(v) = n - 1 /\ \A i \in 1 .. n - 1 : v[i] = w[i]
    BY <1>1, <1>7 DEF Front
  <2>2. f[n - 1] = Step(Last(v), Last(w))
    <3>1. n - 1 \in 1 .. n - 1 /\ (n - 1) + 1 = n
      BY <1>1, <1>7
    <3> QED  BY <1>2, <2>1, <3>1 DEF Last
  <2>3. \A i \in 1 .. n - 2 : f[i] \in Int /\ h[i] = f[i]
    <3>1. ASSUME NEW i \in 1 .. n - 2 PROVE f[i] \in Int /\ h[i] = f[i]
      <4>1. i \in 1 .. n - 1 /\ i + 1 \in 1 .. n - 1 /\ i \in 1 .. Len(v) - 1
        BY <1>1, <2>1
      <4>2. h[i] = Step(v[i], v[i + 1])
        BY <4>1
      <4> QED  BY <1>2, <2>1, <4>1, <4>2
    <3> QED  BY <3>1
  <2>4. DOMAIN h = 1 .. n - 2
    BY <1>1, <2>1
  <2>5. WayLength(v) = SumFunction(h)
    BY DEF WayLength
  <2> HIDE DEF h, v
  <2>6. WayLength(v) = SumFunctionOnSet(h, 1 .. n - 2)
    BY <2>4, <2>5, Zenon DEF SumFunction
  <2>7. SumFunctionOnSet(h, 1 .. n - 2) = SumFunctionOnSet(f, 1 .. n - 2)
    <3>1. IsFiniteSet(1 .. n - 2)
      BY <1>1, FS_Interval
    <3> QED  BY <2>3, <3>1, SumSame
  <2>8. n - 1 \in S /\ S \ {n - 1} = 1 .. n - 2
    BY <1>1, <1>7
  <2>9. IsFiniteSet(S) /\ \A i \in S : f[i] \in Int
    BY <1>2, <1>3
  <2> HIDE DEF S
  <2>10. SumFunctionOnSet(f, S) = f[n - 1] + SumFunctionOnSet(f, S \ {n - 1})
    BY <2>8, <2>9, SumRemove
  <2>11. SumFunctionOnSet(f, S) = f[n - 1] + WayLength(v)
    BY <2>6, <2>7, <2>8, <2>10, Zenon
  <2>12. WayLength(w) = f[n - 1] + WayLength(v)
    BY <1>4, <2>11 DEF S
  <2>13. WayLength(v) \in Int /\ f[n - 1] \in Int
    <3>1. \A i \in 1 .. n - 2 : f[i] \in Int
      BY <2>3
    <3>2. IsFiniteSet(1 .. n - 2)
      BY <1>1, FS_Interval
    <3> QED  BY <2>6, <2>7, <2>8, <2>9, <3>1, <3>2, SumType
  <2> QED  BY <2>2, <2>12, <2>13 DEF v
<1> QED  BY <1>5, <1>6, <1>7

(* Where the water of a cell that drains goes next.                        *)
LEMMA DrainsOn ==
  ASSUME NEW map, NEW c \in Cell, Drains(map, c), NEW d \in Toward(map, c)
  PROVE  d \in DataCells(map)
<1>1. map.dir[c] # Pit
  BY DEF Toward
<1>2. PICK e \in Onward(map, c) : TRUE
  <2> SUFFICES ASSUME Onward(map, c) = {} PROVE FALSE
    OBVIOUS
  <2>1. {c} \in SUBSET Cell /\ c \in {c} /\ \A b \in {c} : map.dir[b] # Pit /\ Onward(map, b) \subseteq {c}
    BY <1>1
  <2> QED  BY <2>1, TrappedNeverDrains
<1>3. e \in Toward(map, c) /\ e \in DataCells(map)
  BY <1>1, <1>2 DEF Onward, Toward, DataCells
<1> QED  BY <1>3, TowardSingle

Measured ==
  /\ call.op = "max_upstream_dist"
  /\ \A c \in Data : Drains(call.ldd, c)
  /\ call.ldd.nodata \notin 1 .. 9 \ {Pit}

(* The cells that water has been followed through: those that have a       *)
(* distance, and the sources the scan has passed.                          *)
Visited(c) ==
  \/ result[c] > 0
  \/ /\ ~has_upstream_cells(call.ldd, c)
     /\ Before(c, cursor) \/ (pc = "flow" /\ c = cursor)

UpstreamInv ==
  Measured /\ pc # "thrown" =>
    /\ \A c \in Data :
         /\ result[c] \in Nat
         /\ result[c] = 0 \/ \E w \in Ways(call.ldd, Data) :
                                Len(w) >= 2 /\ Last(w) = c /\ WayLength(w) = result[c]
         /\ ~has_upstream_cells(call.ldd, c) => result[c] = 0
    /\ \A c \in Data : Visited(c) /\ ~(pc = "flow" /\ ~halted /\ c = curCell) =>
         \A d \in Toward(call.ldd, c) : result[d] >= result[c] + Step(c, d)
    /\ pc = "flow" /\ ~halted =>
         /\ curCell \in Data /\ result[curCell] = load
         /\ \E p \in Ways(call.ldd, Data) :
              /\ p[1] = cursor /\ Len(p) = StepsTaken
              /\ Last(p) = curCell /\ load = WayLength(p)

LEMMA UpstreamInit == Init => UpstreamInv
<1> SUFFICES ASSUME Init, Measured PROVE UpstreamInv
  BY DEF UpstreamInv
<1>1. \A c \in Data : c \in Cell /\ result[c] = 0 /\ ~Before(c, cursor)
  BY GridAssumption DEF Init, FirstCell, Cell, Before, Measured, Data, DataCells
<1>2. pc = "scan"
  BY DEF Init
<1>3. \A c \in Data : ~Visited(c)
  BY <1>1, <1>2 DEF Visited
<1> QED  BY <1>1, <1>2, <1>3 DEF UpstreamInv

LEMMA UpstreamSkip == TypeOK /\ UpstreamInv /\ SkipCell => UpstreamInv'
<1> SUFFICES ASSUME TypeOK, UpstreamInv, SkipCell, Measured PROVE UpstreamInv'
  BY DEF UpstreamInv, SkipCell, Measured, Data, DataCells
<1>1. /\ UNCHANGED <<call, pc, walk>> /\ pc = "scan" /\ ~PastEnd(cursor)
      /\ result' = [result EXCEPT ![cursor] = SkippedValue(cursor)]
      /\ cursor' = NextCell(cursor) /\ Skips(cursor)
  BY DEF SkipCell
<1>2. cursor \in Cell /\ \A b \in Cell : Before(b, cursor') <=> Before(b, cursor) \/ b = cursor
  BY <1>1, NextCellInGrid DEF TypeOK
<1>3. Data' = Data /\ Data \subseteq Cell /\ Data = DataCells(call.ldd)
  BY <1>1 DEF Data, DataCells
<1>4. cursor \in Data => has_upstream_cells(call.ldd, cursor) /\ SkippedValue(cursor) = result[cursor]
  BY <1>1 DEF Skips, SkippedValue, AtStation, Measured, Data, DataCells
<1>5. \A c \in Data : result'[c] = result[c]
  BY <1>1, <1>2, <1>3, <1>4 DEF TypeOK
<1>6. \A c \in Data : Visited(c)' <=> Visited(c)
  BY <1>1, <1>2, <1>3, <1>4, <1>5 DEF Visited
<1>7. \A c \in Data : \A d \in Toward(call.ldd, c) : d \in Data
  BY <1>3, DrainsOn DEF Measured
<1>8. /\ \A c \in Data :
           /\ result[c] \in Nat
           /\ result[c] = 0 \/ \E w \in Ways(call.ldd, Data) :
                                  Len(w) >= 2 /\ Last(w) = c /\ WayLength(w) = result[c]
           /\ ~has_upstream_cells(call.ldd, c) => result[c] = 0
      /\ \A c \in Data : Visited(c) =>
           \A d \in Toward(call.ldd, c) : result[d] >= result[c] + Step(c, d)
  BY <1>1 DEF UpstreamInv
<1>9. \A c \in Data : Visited(c)' =>
        \A d \in Toward(call.ldd, c) : result'[d] >= result'[c] + Step(c, d)
  BY <1>5, <1>6, <1>7, <1>8
<1>10. \A c \in Data :
           /\ result'[c] \in Nat
           /\ result'[c] = 0 \/ \E w \in Ways(call.ldd, Data) :
                                  Len(w) >= 2 /\ Last(w) = c /\ WayLength(w) = result'[c]
           /\ ~has_upstream_cells(call.ldd, c) => result'[c] = 0
  BY <1>5, <1>8
<1> QED  BY <1>1, <1>3, <1>9, <1>10 DEF UpstreamInv

LEMMA UpstreamEnter == TypeOK /\ UpstreamInv /\ EnterFlow => UpstreamInv'
<1> SUFFICES ASSUME TypeOK, UpstreamInv, EnterFlow, Measured PROVE UpstreamInv'
  BY DEF UpstreamInv, EnterFlow, Measured, Data, DataCells
<1>1. /\ UNCHANGED <<call, cursor, result>> /\ pc = "scan" /\ pc' = "flow"
      /\ curCell' = cursor /\ traversedCells' = {} /\ halted' = FALSE /\ load' = 0
  BY DEF EnterFlow, Measured
<1>2. cursor \in Data /\ ~has_upstream_cells(call.ldd, cursor)
  <2>1. cursor \in Cell
    BY NextCellInGrid DEF EnterFlow, TypeOK
  <2> QED  BY <2>1 DEF EnterFlow, Skips, Measured, Data, DataCells
<1>3. Data' = Data /\ Data = DataCells(call.ldd) /\ call \in CallType
  BY <1>1 DEF Data, TypeOK
<1>4. StepsTaken' = 1
  BY <1>1, FS_EmptySet DEF StepsTaken
<1>5. PICK p : p = <<cursor>>
  OBVIOUS
<1>6. p[1] = cursor /\ Len(p) = 1
  BY <1>5
<1>7. p \in Ways(call.ldd, Data) /\ Last(p) = cursor
  BY <1>2, <1>3, <1>5, OwnFreight
<1>8. WayLength(p) = 0
  BY <1>6, <1>7, LengthAlong
<1>9. \A c \in Data :
           /\ result[c] \in Nat
           /\ result[c] = 0 \/ \E w \in Ways(call.ldd, Data) :
                                  Len(w) >= 2 /\ Last(w) = c /\ WayLength(w) = result[c]
           /\ ~has_upstream_cells(call.ldd, c) => result[c] = 0
  BY <1>1 DEF UpstreamInv
<1>10. ASSUME NEW c \in Data, Visited(c)', c # cursor
       PROVE  \A d \in Toward(call.ldd, c) : result[d] >= result[c] + Step(c, d)
  <2>1. Visited(c)
    BY <1>1, <1>10 DEF Visited
  <2> QED  BY <1>1, <2>1 DEF UpstreamInv
<1>11. \E v \in Ways(call.ldd, Data) :
         v[1] = cursor /\ Len(v) = StepsTaken' /\ Last(v) = curCell' /\ load' = WayLength(v)
  BY <1>1, <1>4, <1>6, <1>7, <1>8
<1>12. curCell' \in Data /\ result[curCell'] = load'
  BY <1>1, <1>2, <1>9
<1> QED  BY <1>1, <1>3, <1>9, <1>10, <1>11, <1>12 DEF UpstreamInv

LEMMA UpstreamFollow == TypeOK /\ FlowInv /\ UpstreamInv /\ FollowFlow => UpstreamInv'
<1> SUFFICES ASSUME TypeOK, FlowInv, UpstreamInv, FollowFlow, Measured, pc' # "thrown"
             PROVE  UpstreamInv'
  BY DEF UpstreamInv, FollowFlow, Measured, Data, DataCells
<1> DEFINE map == call.ldd
<1>0. PICK to \in Cell : to = getNeighbour(dir, curCell)
  BY DEF FollowFlow
<1>1. /\ pc = "flow" /\ pc' = "flow" /\ ~halted /\ dir # Pit /\ InTable(dir)
      /\ visitCb(to) /\ ~(~halted' /\ UnsoundAfter(to))
      /\ traversedCells' = traversedCells \cup {curCell} /\ curCell' = to
      /\ UNCHANGED <<call, cursor>>
  BY <1>0 DEF FollowFlow
<1>2. curCell \in Cell /\ dir = map.dir[curCell] /\ result \in [Cell -> Number] /\ halted' \in BOOLEAN
  BY <1>1 DEF TypeOK, dir, visitCb, accuflux, accufractionflux, flux_origin, ldd_cluster,
              ldd_dist, max_upstream_dist, Measured
<1>3. Data' = Data /\ Data = DataCells(map) /\ Data \subseteq Cell
  BY <1>1 DEF Data, DataCells
<1>4. to \in Toward(map, curCell) /\ \A d \in Toward(map, curCell) : d = to
  <2>1. to \in Toward(map, curCell)
    BY <1>0, <1>1, <1>2 DEF Toward, FlowsInto
  <2> QED  BY <2>1, TowardSingle
<1>5. /\ load' = load + Step(curCell, to) /\ halted' = ~Further(to)
      /\ result' = IF Further(to) /\ result[to] # NoData
                     THEN [result EXCEPT ![to] = load'] ELSE result
  BY <1>1 DEF Measured, visitCb, accuflux, accufractionflux, flux_origin, ldd_cluster, ldd_dist,
              max_upstream_dist
<1>6. PICK p \in Ways(map, Data) : /\ p[1] = cursor /\ Len(p) = StepsTaken
                                   /\ Last(p) = curCell /\ load = WayLength(p)
  BY <1>1 DEF UpstreamInv
<1>7. curCell \in Data /\ result[curCell] = load
  BY <1>1 DEF UpstreamInv
<1>8. \A c \in Data :
           /\ result[c] \in Nat
           /\ result[c] = 0 \/ \E w \in Ways(map, Data) :
                                  Len(w) >= 2 /\ Last(w) = c /\ WayLength(w) = result[c]
           /\ ~has_upstream_cells(map, c) => result[c] = 0
  BY <1>1 DEF UpstreamInv
<1>9. \A c \in Data : Visited(c) /\ c # curCell =>
         \A d \in Toward(map, c) : result[d] >= result[c] + Step(c, d)
  BY <1>1 DEF UpstreamInv
<1>10. \A c \in Data : \A d \in Toward(map, c) : d \in Data
  BY <1>3, DrainsOn DEF Measured
<1>11. to \in Data /\ result[to] # NoData /\ load \in Nat /\ load' \in Nat
  <2>1. to \in Data
    BY <1>4, <1>7, <1>10
  <2>2. result[to] \in Nat /\ load \in Nat /\ Step(curCell, to) \in Nat
    BY <1>7, <1>8, <2>1, StepType
  <2> QED  BY <1>5, <2>1, <2>2, FlowAssumption
<1>12. CASE halted'
  <2>1. result' = result /\ result[to] >= load'
    <3>1. ~Further(to)
      BY <1>5, <1>12
    <3>2. result[to] \in Nat /\ load' \in Nat /\ ~(result[to] < load')
      BY <3>1, <1>8, <1>11 DEF Further
    <3> QED  BY <1>5, <3>1, <3>2
  <2>2. \A c \in Data : Visited(c)' <=> Visited(c)
    BY <1>1, <2>1 DEF Visited
  <2>3. \A d \in Toward(map, curCell) : result[d] >= result[curCell] + Step(curCell, d)
    BY <1>4, <1>5, <1>7, <2>1
  <2>4. \A c \in Data : Visited(c)' =>
         \A d \in Toward(map, c) : result'[d] >= result'[c] + Step(c, d)
    BY <1>9, <2>1, <2>2, <2>3
  <2> HIDE DEF map
  <2> QED  BY <1>1, <1>3, <1>8, <1>12, <2>1, <2>4 DEF UpstreamInv, map
<1>13. CASE ~halted'
  <2>1. result' = [result EXCEPT ![to] = load'] /\ load' > result[to]
    BY <1>5, <1>8, <1>11, <1>13 DEF Further
  <2>2. result'[to] = load' /\ \A c \in Cell : c # to => result'[c] = result[c]
    BY <1>2, <2>1
  <2>3. to \notin traversedCells' /\ to # curCell
    BY <1>1, <1>13 DEF UnsoundAfter
  <2>4. StepsTaken' = StepsTaken + 1 /\ StepsTaken < Rows * Cols
    <3>0. curCell \in Cell \ traversedCells /\ traversedCells \subseteq Cell
      BY <1>1 DEF FlowInv, WalkInv, OnTheWay
    <3>1. /\ Cardinality(traversedCells) \in Nat
          /\ Cardinality(traversedCells \cup {curCell}) = Cardinality(traversedCells) + 1
      BY <3>0, SeenBound
    <3>2. traversedCells' \subseteq Cell /\ to \in Cell \ traversedCells'
      BY <1>1, <2>3, <3>0
    <3>3. Cardinality(traversedCells') + 1 \in 1 .. Rows * Cols
      BY <3>2, SeenBound
    <3>4. StepsTaken = Cardinality(traversedCells) + 1
      BY <1>1 DEF StepsTaken
    <3>5. StepsTaken' = Cardinality(traversedCells') + 1
      BY <1>1 DEF StepsTaken
    <3>6. Cardinality(traversedCells') = Cardinality(traversedCells) + 1
      BY <1>1, <3>1
    <3>7. Rows * Cols \in Nat
      BY GridAssumption
    <3> QED  BY <3>1, <3>3, <3>4, <3>5, <3>6, <3>7
  <2>5. PICK q : q = Append(p, to)
    OBVIOUS
  <2>6. /\ q \in Ways(map, Data) /\ q[1] = cursor /\ Len(q) = StepsTaken' /\ Last(q) = to
        /\ Len(q) = Len(p) + 1
    BY <1>4, <1>6, <2>4, <2>5, WayGrows
  <2>7. Len(q) >= 2 /\ Front(q) = p
    <3>1. p \in Seq(Cell) /\ Len(p) \in Nat /\ Len(p) >= 1
      BY DEF Ways, IsWay
    <3> QED  BY <2>5, <2>6, <3>1, FrontAppend
  <2>8. WayLength(q) = load'
    <3>1. WayLength(q) = WayLength(Front(q)) + Step(Last(Front(q)), Last(q))
      BY <2>6, <2>7, LengthAlong
    <3> QED  BY <1>5, <1>6, <2>6, <2>7, <3>1
  <2>9. ASSUME NEW c \in Data
        PROVE  /\ result'[c] \in Nat
               /\ result'[c] = 0 \/ \E w \in Ways(map, Data) :
                                      Len(w) >= 2 /\ Last(w) = c /\ WayLength(w) = result'[c]
               /\ ~has_upstream_cells(map, c) => result'[c] = 0
               /\ result'[c] >= result[c]
    <3>1. CASE c = to
      <4>1. has_upstream_cells(map, to)
        BY <1>2, <1>4, <2>3 DEF has_upstream_cells, Toward
      <4> QED  BY <1>8, <1>11, <2>1, <2>2, <2>6, <2>7, <2>8, <3>1, <4>1
    <3>2. CASE c # to
      BY <1>3, <1>8, <2>2, <3>2
    <3> QED  BY <3>1, <3>2
  <2>10. ASSUME NEW c \in Data, Visited(c)', c # to, NEW d \in Toward(map, c)
         PROVE  result'[d] >= result'[c] + Step(c, d)
    <3>1. result'[c] = result[c] /\ d \in Data /\ result'[d] >= result[d]
      BY <1>3, <1>10, <2>2, <2>9, <2>10
    <3>2. CASE c = curCell
      BY <1>4, <1>5, <1>7, <2>2, <3>1, <3>2
    <3>3. CASE c # curCell
      <4>1. Visited(c)
        BY <1>1, <2>10, <3>1 DEF Visited
      <4>2. result[d] >= result[c] + Step(c, d)
        BY <1>9, <3>3, <4>1
      <4>3. result[d] \in Nat /\ result'[d] \in Nat /\ result[c] \in Nat /\ Step(c, d) \in Nat
        BY <1>8, <2>9, <3>1, StepType
      <4> QED  BY <3>1, <4>2, <4>3
    <3> QED  BY <3>2, <3>3
  <2>11. \E v \in Ways(map, Data) :
           v[1] = cursor' /\ Len(v) = StepsTaken' /\ Last(v) = curCell' /\ load' = WayLength(v)
    BY <1>1, <2>6, <2>8
  <2>12. curCell' \in Data /\ result'[curCell'] = load'
    BY <1>1, <1>11, <2>2
  <2> HIDE DEF map
  <2> QED  BY <1>1, <1>3, <1>13, <2>9, <2>10, <2>11, <2>12 DEF UpstreamInv, map
<1> QED  BY <1>2, <1>12, <1>13

LEMMA UpstreamLeave == TypeOK /\ FlowInv /\ UpstreamInv /\ LeaveFlow => UpstreamInv'
<1> SUFFICES ASSUME TypeOK, FlowInv, UpstreamInv, LeaveFlow, Measured PROVE UpstreamInv'
  BY DEF UpstreamInv, LeaveFlow, Measured, Data, DataCells
<1>1. /\ UNCHANGED <<call, result>> /\ pc = "flow" /\ pc' = "scan"
      /\ cursor' = NextCell(cursor)
      /\ (halted \/ dir = Pit)
  BY DEF LeaveFlow, Measured
<1>2. Data' = Data /\ Data \subseteq Cell /\ Data = DataCells(call.ldd) /\ cursor \in Data
  BY <1>1 DEF Data, DataCells, FlowInv, WalkInv
<1>3. \A b \in Cell : Before(b, cursor') <=> Before(b, cursor) \/ b = cursor
  <2>1. cursor \in Cell /\ ~PastEnd(cursor)
    BY <1>2, GridAssumption DEF PastEnd, Cell
  <2> QED  BY <1>1, <2>1, NextCellInGrid DEF TypeOK
<1>4. \A c \in Data : Visited(c)' => Visited(c)
  BY <1>1, <1>2, <1>3 DEF Visited
<1>5. ASSUME NEW c \in Data, Visited(c)', NEW d \in Toward(call.ldd, c)
      PROVE  result[d] >= result[c] + Step(c, d)
  <2>1. ~(~halted /\ c = curCell)
    BY <1>1 DEF Toward, dir
  <2> QED  BY <1>1, <1>4, <1>5, <2>1 DEF UpstreamInv
<1>6. \A c \in Data :
           /\ result[c] \in Nat
           /\ result[c] = 0 \/ \E w \in Ways(call.ldd, Data) :
                                  Len(w) >= 2 /\ Last(w) = c /\ WayLength(w) = result[c]
           /\ ~has_upstream_cells(call.ldd, c) => result[c] = 0
  BY <1>1 DEF UpstreamInv
<1> QED  BY <1>1, <1>2, <1>5, <1>6 DEF UpstreamInv

LEMMA UpstreamNext == TypeOK /\ FlowInv /\ UpstreamInv /\ [Next]_vars => UpstreamInv'
<1> SUFFICES ASSUME TypeOK, FlowInv, UpstreamInv, [Next]_vars PROVE UpstreamInv'
  OBVIOUS
<1>1. CASE Throw
  BY <1>1 DEF Throw, UpstreamInv
<1>2. CASE Return
  <2>1. UNCHANGED <<call, cursor, walk, result>> /\ pc = "scan" /\ pc' = "returned"
    BY <1>2 DEF Return
  <2>2. /\ Data' = Data /\ Measured' = Measured
        /\ \A c : Visited(c)' <=> Visited(c)
    BY <2>1 DEF Data, DataCells, Measured, Visited
  <2> QED  BY <2>1, <2>2 DEF UpstreamInv
<1>3. CASE UNCHANGED vars
  <2>1. UNCHANGED <<call, pc, cursor, curCell, traversedCells, halted, load, result>>
    BY <1>3 DEF vars, walk
  <2>2. /\ Data' = Data /\ Measured' = Measured /\ StepsTaken' = StepsTaken
        /\ \A c : Visited(c)' <=> Visited(c)
    BY <2>1 DEF Data, DataCells, Measured, StepsTaken, Visited
  <2> QED  BY <2>1, <2>2 DEF UpstreamInv
<1> QED  BY <1>1, <1>2, <1>3, UpstreamSkip, UpstreamEnter, UpstreamFollow, UpstreamLeave DEF Next

(* When the scan is over it has been everywhere: cells it had not come to  *)
(* would flow into each other for ever.                                    *)
LEMMA AllVisited ==
  ASSUME TypeOK, FlowInv, UpstreamInv, Measured, pc = "returned", NEW start \in Data
  PROVE  Visited(start)
<1> DEFINE U == {c \in Data : ~Visited(c)}
           map == call.ldd
<1> SUFFICES ASSUME start \in U PROVE FALSE
  OBVIOUS
<1>1. Data = DataCells(map) /\ U \in SUBSET Cell /\ Data \subseteq Cell
  BY DEF Data, DataCells
<1>2. IsFiniteSet(U)
  BY <1>1, CellsFinite, FS_Subset
<1>3. \A b \in Cell : Before(b, cursor)
  BY GridAssumption DEF FlowInv, ScanInv, PastEnd, Cell, Before
<1>4. ASSUME NEW c \in U PROVE \E n \in U : c \in Toward(map, n)
  <2>1. c \in Cell /\ has_upstream_cells(map, c)
    BY <1>1, <1>3 DEF Visited
  <2>2. PICK n \in Cell : n # c /\ FlowsInto(map, n, c)
    BY <2>1 DEF has_upstream_cells
  <2>3. n \in Data /\ c \in Toward(map, n)
    <3>1. map.nodata \notin 1 .. 9 \ {Pit}
      BY DEF Measured
    <3>2. ~is_nodata(map, n) /\ map.dir[n] # Pit
      BY <2>1, <2>2, <3>1, UpstreamHasData
    <3> QED  BY <2>1, <2>2, <3>2 DEF Data, DataCells, Toward
  <2>4. ASSUME Visited(n) PROVE FALSE
    <3>1. result[c] >= result[n] + Step(n, c)
      BY <2>3, <2>4 DEF UpstreamInv
    <3>2. result[c] \in Nat /\ result[n] \in Nat /\ Step(n, c) \in Nat /\ Step(n, c) > 0
      BY <2>3, FlowAssumption DEF UpstreamInv, Step
    <3>3. result[c] > 0
      BY <3>1, <3>2
    <3> QED  BY <3>3 DEF Visited
  <2> QED  BY <2>3, <2>4
<1> DEFINE f == [c \in U |-> CHOOSE n \in U : c \in Toward(map, n)]
<1>5. \A c \in U : f[c] \in U /\ c \in Toward(map, f[c])
  BY <1>4
<1>6. f \in Injection(U, U)
  <2>1. f \in [U -> U]
    BY <1>5
  <2>2. \A a, b \in U : f[a] = f[b] => a = b
    BY <1>5, TowardSingle
  <2> HIDE DEF f, U
  <2> QED  BY <2>1, <2>2 DEF Injection, IsInjective
<1>7. f \in Surjection(U, U)
  <2> HIDE DEF f, U
  <2> QED  BY <1>2, <1>6, FS_Injection
<1>8. \A n \in U : \E c \in U : c \in Toward(map, n)
  <2>1. \A n \in U : \E c \in U : f[c] = n
    <3> HIDE DEF f, U
    <3> QED  BY <1>7 DEF Surjection
  <2> HIDE DEF f
  <2> QED  BY <1>5, <2>1
<1>9. \A n \in U : map.dir[n] # Pit /\ Onward(map, n) \subseteq U
  <2> SUFFICES ASSUME NEW n \in U PROVE map.dir[n] # Pit /\ Onward(map, n) \subseteq U
    OBVIOUS
  <2>1. PICK c \in U : c \in Toward(map, n)
    BY <1>8
  <2>2. map.dir[n] # Pit
    BY <2>1 DEF Toward
  <2>3. \A e \in Onward(map, n) : e \in Toward(map, n)
    BY <2>2 DEF Onward, Toward
  <2>4. \A e \in Onward(map, n) : e = c
    BY <2>1, <2>3, TowardSingle
  <2> QED  BY <2>1, <2>2, <2>4
<1>10. start \in Cell /\ Drains(map, start)
  BY <1>1 DEF Measured
<1> HIDE DEF U
<1> QED  BY <1>1, <1>9, <1>10, TrappedNeverDrains

LEMMA NoLongerWay ==
  ASSUME TypeOK, FlowInv, UpstreamInv, Measured, pc = "returned",
         NEW w \in Ways(call.ldd, Data)
  PROVE  Last(w) \in Data /\ result[Last(w)] >= WayLength(w)
<1> DEFINE map == call.ldd
           Good(v) == Last(v) \in Data /\ result[Last(v)] >= WayLength(v)
           Bad == {k \in Nat : \E v \in Ways(map, Data) : Len(v) = k /\ ~Good(v)}
<1>1. \A v \in Ways(map, Data) : Len(v) \in Nat /\ Len(v) >= 1 /\ v[1] \in Data
  BY DEF Ways, IsWay
<1>2. Bad = {}
  <2> SUFFICES ASSUME Bad # {} PROVE FALSE
    OBVIOUS
  <2>1. PICK k \in Bad : \A j \in Bad : k <= j
    <3>1. Bad \in SUBSET Nat
      OBVIOUS
    <3> HIDE DEF Bad
    <3> QED  BY <3>1, LeastNatural
  <2>2. PICK v \in Ways(map, Data) : Len(v) = k /\ ~Good(v)
    BY <2>1
  <2>3. CASE k = 1
    <3>1. Last(v) \in Data /\ WayLength(v) = 0
      BY <1>1, <2>2, <2>3, LengthAlong DEF Last
    <3>2. result[Last(v)] \in Nat
      BY <3>1 DEF UpstreamInv
    <3> QED  BY <2>2, <3>1, <3>2
  <2>4. CASE k # 1
    <3> DEFINE u == Front(v)
    <3>1. Len(v) >= 2
      BY <1>1, <2>2, <2>4
    <3>2. u \in Ways(map, Data) /\ Len(u) = k - 1 /\ Last(v) \in Toward(map, Last(u))
      BY <2>2, <3>1, WayBefore
    <3> HIDE DEF u
    <3>3. Good(u)
      <4>1. k - 1 \in Nat /\ ~(k <= k - 1)
        BY <2>1, <1>1, <3>2
      <4> QED  BY <2>1, <3>2, <4>1
    <3>4. Last(v) \in Data
      BY <3>2, <3>3, DrainsOn DEF Measured, Data, DataCells
    <3>5. result[Last(v)] >= result[Last(u)] + Step(Last(u), Last(v))
      BY <3>2, <3>3, AllVisited DEF UpstreamInv
    <3>6. WayLength(v) = WayLength(u) + Step(Last(u), Last(v)) /\ WayLength(u) \in Int
      BY <3>1, <3>2, LengthAlong DEF u
    <3>7. /\ result[Last(v)] \in Nat /\ result[Last(u)] \in Nat
          /\ Step(Last(u), Last(v)) \in Nat /\ result[Last(u)] >= WayLength(u)
      BY <3>3, <3>4, StepType DEF UpstreamInv
    <3>8. result[Last(v)] >= WayLength(v)
      BY <3>5, <3>6, <3>7
    <3> QED  BY <2>2, <3>4, <3>8
  <2> QED  BY <2>3, <2>4
<1> HIDE DEF Good
<1>3. Good(w)
  BY <1>1, <1>2
<1> QED  BY <1>3 DEF Good

(* max_upstream_dist (accuflux.h:891) starts from the sources alone and    *)
(* gives a traversal up at the first cell that knows a longer flow; each   *)
(* cell has the longest there is all the same.  With the distances of      *)
(* ldd_dist these are all that the flows measure.                          *)
THEOREM FlowDistancesAreExact == Spec => []DistancesExact
<1>1. TypeOK /\ FlowInv /\ UpstreamInv => LongestUpstream
  <2> SUFFICES ASSUME TypeOK, FlowInv, UpstreamInv, pc = "returned", Measured, NEW c \in Data
               PROVE  result[c] = Max({0} \cup {WayLength(w) : w \in EndingIn(WaysFrom(Data), c)})
    BY DEF LongestUpstream, Measured, WayLength
  <2> DEFINE M == {0} \cup {WayLength(w) : w \in EndingIn(WaysFrom(Data), c)}
  <2>1. \A w : w \in EndingIn(WaysFrom(Data), c)
                 <=> w \in Ways(call.ldd, Data) /\ Len(w) >= 2 /\ Last(w) = c
    <3>1. Data \subseteq Cell
      BY DEF Data, DataCells
    <3>2. WaysFrom(Data) = {w \in Ways(call.ldd, Data) : Len(w) >= 2}
      BY <3>1, WaysFromIs
    <3> QED  BY <3>2 DEF EndingIn
  <2>2. result[c] \in M /\ result[c] \in Nat
    BY <2>1 DEF UpstreamInv
  <2>3. \A x \in M : x \in Int /\ result[c] >= x
    <3>1. ASSUME NEW w \in EndingIn(WaysFrom(Data), c)
          PROVE  WayLength(w) \in Int /\ result[c] >= WayLength(w)
      BY <2>1, NoLongerWay, LengthAlong
    <3> QED  BY <2>2, <3>1
  <2> HIDE DEF M
  <2>4. Max(M) \in M /\ \A y \in M : Max(M) >= y
    BY <2>2, <2>3 DEF Max
  <2>5. Max(M) = result[c]
    <3>1. Max(M) >= result[c] /\ result[c] >= Max(M) /\ Max(M) \in Int
      BY <2>2, <2>3, <2>4
    <3> QED  BY <2>2, <3>1
  <2> QED  BY <2>5 DEF M
<1>2. Spec => [](TypeOK /\ LoadInv /\ FlowInv /\ UpstreamInv)
  BY TypeInit, TypeNext, FlowInit, FlowNext, UpstreamInit, UpstreamNext, PTL DEF Spec
<1>3. DistancesExact <=> LddDistExact /\ LongestUpstream
  BY DEF DistancesExact
<1> QED  BY <1>1, <1>2, <1>3, FrictionDistancesAreExact, PTL

=============================================================================
