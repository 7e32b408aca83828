----------------------------- MODULE GridProofs -----------------------------
(***************************************************************************)
(* Facts that the proofs about the searches and about the functions of     *)
(* accuflux.h share.  Of the grid: how many cells there are, how the scan  *)
(* moves on, that the neighbour sequences contain the neighbours and       *)
(* nothing else.  Of sums over finite sets: the order of the summands      *)
(* makes no difference.  Of folds along a sequence: what adding, or taking *)
(* the largest, comes to.  Of finite sets: their images and extremes.  Of  *)
(* drain maps: the course of the water from a cell is well defined, and a  *)
(* function that has followed it through the cells in seen without a fault *)
(* knows from where it stands whether the first cell drains.               *)
(***************************************************************************)
EXTENDS Ldd, Functions, FiniteSetsExt, FiniteSetTheorems, WellFoundedInduction, TLAPS

(* What the proofs by induction use: a least counterexample.               *)
LEMMA LeastNatural ==
  ASSUME NEW S \in SUBSET Nat, S # {}
  PROVE  \E k \in S : \A j \in S : k <= j
<1> DEFINE R == OpToRel(<, Nat)
<1>1. IsWellFoundedOn(R, Nat)
  BY NatLessThanWellFounded
<1>2. \A j, k \in Nat : <<j, k>> \in R <=> j < k
  BY DEF OpToRel
<1> HIDE DEF R
<1>3. PICK k \in S : \A j \in S : <<j, k>> \notin R
  BY <1>1, WFMin
<1>4. \A j \in S : j \in Nat
  OBVIOUS
<1>5. \A j \in S : ~(j < k)
  BY <1>2, <1>3, <1>4
<1> QED  BY <1>4, <1>5

LEMMA CellsFinite ==
  IsFiniteSet(Cell) /\ Cardinality(Cell) = Rows * Cols
<1>1. /\ IsFiniteSet(0 .. Rows - 1) /\ Cardinality(0 .. Rows - 1) = Rows
      /\ IsFiniteSet(0 .. Cols - 1) /\ Cardinality(0 .. Cols - 1) = Cols
  BY FS_Interval, GridAssumption
<1>2. Cardinality(Cell)
        = Cardinality(0 .. Rows - 1) * Cardinality(0 .. Cols - 1)
  BY <1>1, FS_Product, Zenon DEF Cell
<1>3. IsFiniteSet(Cell)
  BY <1>1, FS_Product, Zenon DEF Cell
<1> QED  BY <1>1, <1>2, <1>3, Zenon

(* A sequence of distinct members of S that misses one of them is shorter  *)
(* than S is large.                                                        *)
LEMMA DistinctIsShort ==
  ASSUME NEW S, IsFiniteSet(S), NEW s \in Seq(S), NEW n \in S,
         \A i, j \in 1 .. Len(s) : s[i] = s[j] => i = j,
         n \notin Range(s)
  PROVE  Len(s) < Cardinality(S)
<1> DEFINE t == [i \in 1 .. Len(s) + 1 |-> IF i = Len(s) + 1 THEN n ELSE s[i]]
<1>1. t \in Injection(1 .. Len(s) + 1, S)
  BY DEF Injection, IsInjective, Range
<1>2. Cardinality(1 .. Len(s) + 1) <= Cardinality(S)
  BY <1>1, FS_Injection
<1>3. Cardinality(1 .. Len(s) + 1) = Len(s) + 1
  BY FS_Interval
<1>4. Cardinality(S) \in Nat
  BY FS_CardinalityType
<1> QED  BY <1>2, <1>3, <1>4

LEMMA IfInsideType ==
  ASSUME NEW c \in Cell, NEW dr \in Int, NEW dc \in Int
  PROVE  /\ IfInside(c, dr, dc) \in Seq(Cell)
         /\ \A b \in Cell : b[1] = c[1] + dr /\ b[2] = c[2] + dc
                              <=> b \in Range(IfInside(c, dr, dc))
<1> DEFINE n == <<c[1] + dr, c[2] + dc>>
<1>1. CASE n \in Cell
  <2>1. IfInside(c, dr, dc) = <<n>>
    BY <1>1 DEF IfInside
  <2>2. <<n>> \in Seq(Cell) /\ Range(<<n>>) = {n}
    BY <1>1 DEF Range
  <2>3. \A b \in Cell : b = <<b[1], b[2]>>
    BY DEF Cell
  <2> QED  BY <2>1, <2>2, <2>3
<1>2. CASE n \notin Cell
  <2>1. IfInside(c, dr, dc) = <<>>
    BY <1>2 DEF IfInside
  <2>2. \A b \in Cell : b = <<b[1], b[2]>>
    BY DEF Cell
  <2>3. Range(<<>>) = {}
    BY DEF Range
  <2> QED  BY <2>1, <2>2, <2>3, <1>2
<1> QED  BY <1>1, <1>2

LEMMA RangeConcat ==
  ASSUME NEW S, NEW s \in Seq(S), NEW t \in Seq(S)
  PROVE  s \o t \in Seq(S) /\ Range(s \o t) = Range(s) \cup Range(t)
<1>1. ASSUME NEW x \in Range(s) PROVE x \in Range(s \o t)
  BY <1>1 DEF Range
<1>2. ASSUME NEW x \in Range(t) PROVE x \in Range(s \o t)
  <2>1. PICK i \in 1 .. Len(t) : x = t[i]
    BY DEF Range
  <2>2. (s \o t)[Len(s) + i] = x /\ Len(s) + i \in 1 .. Len(s \o t)
    BY <2>1
  <2> QED  BY <2>2 DEF Range
<1>3. ASSUME NEW x \in Range(s \o t) PROVE x \in Range(s) \cup Range(t)
  <2>1. PICK i \in 1 .. Len(s) + Len(t) : x = (s \o t)[i]
    BY DEF Range
  <2>2. CASE i <= Len(s)
    BY <2>1, <2>2 DEF Range
  <2>3. CASE i > Len(s)
    <3>1. x = t[i - Len(s)] /\ i - Len(s) \in 1 .. Len(t)
      BY <2>1, <2>3
    <3> QED  BY <3>1 DEF Range
  <2> QED  BY <2>2, <2>3
<1> QED  BY <1>1, <1>2, <1>3

LEMMA RangeAppend ==
  ASSUME NEW S, NEW s \in Seq(S), NEW n \in S
  PROVE  Range(Append(s, n)) = Range(s) \cup {n}
<1>1. <<n>> \in Seq(S) /\ Range(<<n>>) = {n}
  BY DEF Range
<1>2. Append(s, n) = s \o <<n>>
  OBVIOUS
<1>3. \A t \in Seq(S) : Range(s \o t) = Range(s) \cup Range(t)
  BY RangeConcat
<1> QED  BY <1>1, <1>2, <1>3

LEMMA RangeConcatFour ==
  ASSUME NEW S, NEW s \in Seq(S), NEW t \in Seq(S), NEW u \in Seq(S), NEW v \in Seq(S)
  PROVE  /\ s \o t \o u \o v \in Seq(S)
         /\ Range(s \o t \o u \o v)
              = Range(s) \cup Range(t) \cup Range(u) \cup Range(v)
<1>0. \A p, q \in Seq(S) : p \o q \in Seq(S) /\ Range(p \o q) = Range(p) \cup Range(q)
  BY RangeConcat
<1> DEFINE st == s \o t
           stu == st \o u
<1>1. st \in Seq(S) /\ Range(st) = Range(s) \cup Range(t)
  BY <1>0
<1> HIDE DEF st
<1>2. stu \in Seq(S) /\ Range(stu) = Range(st) \cup Range(u)
  BY <1>0, <1>1
<1> HIDE DEF stu
<1>3. stu \o v \in Seq(S) /\ Range(stu \o v) = Range(stu) \cup Range(v)
  BY <1>0, <1>2
<1>4. stu \o v = s \o t \o u \o v
  BY DEF stu, st
<1> QED  BY <1>1, <1>2, <1>3, <1>4, Zenon

LEMMA NeighboursComplete ==
  ASSUME NEW c \in Cell
  PROVE  /\ StraightNeighbours(c) \in Seq(Cell)
         /\ DiagNeighbours(c) \in Seq(Cell)
         /\ \A b \in Cell : Straight(c, b) <=> b \in Range(StraightNeighbours(c))
         /\ \A b \in Cell : Diagonal(c, b) <=> b \in Range(DiagNeighbours(c))
<1> DEFINE n(dr, dc) == IfInside(c, dr, dc)
<1>1. \A dr, dc \in {-1, 0, 1} : n(dr, dc) \in Seq(Cell)
  BY IfInsideType
<1>2. \A dr, dc \in {-1, 0, 1}, b \in Cell :
        b[1] = c[1] + dr /\ b[2] = c[2] + dc <=> b \in Range(n(dr, dc))
  BY IfInsideType
<1> HIDE DEF n
<1>3. /\ StraightNeighbours(c) = n(0, 1) \o n(0, -1) \o n(1, 0) \o n(-1, 0)
      /\ DiagNeighbours(c) = n(1, 1) \o n(-1, 1) \o n(1, -1) \o n(-1, -1)
  BY DEF StraightNeighbours, DiagNeighbours, n
<1>4. \A s, t, u, v \in Seq(Cell) :
        /\ s \o t \o u \o v \in Seq(Cell)
        /\ Range(s \o t \o u \o v)
             = Range(s) \cup Range(t) \cup Range(u) \cup Range(v)
  BY RangeConcatFour
<1>5. /\ StraightNeighbours(c) \in Seq(Cell)
      /\ Range(StraightNeighbours(c))
           = Range(n(0, 1)) \cup Range(n(0, -1)) \cup Range(n(1, 0)) \cup Range(n(-1, 0))
  <2>1. n(0, 1) \in Seq(Cell) /\ n(0, -1) \in Seq(Cell)
        /\ n(1, 0) \in Seq(Cell) /\ n(-1, 0) \in Seq(Cell)
    BY <1>1
  <2> DEFINE p == n(0, 1)  q == n(0, -1)  r == n(1, 0)  t == n(-1, 0)
  <2>2. StraightNeighbours(c) = p \o q \o r \o t
    BY <1>3
  <2> HIDE DEF p, q, r, t
  <2>3. p \in Seq(Cell) /\ q \in Seq(Cell) /\ r \in Seq(Cell) /\ t \in Seq(Cell)
    BY <2>1 DEF p, q, r, t
  <2>4. /\ StraightNeighbours(c) \in Seq(Cell)
        /\ Range(StraightNeighbours(c)) = Range(p) \cup Range(q) \cup Range(r) \cup Range(t)
    BY <1>4, <2>2, <2>3
  <2> QED  BY <2>4 DEF p, q, r, t
<1>6. /\ DiagNeighbours(c) \in Seq(Cell)
      /\ Range(DiagNeighbours(c))
           = Range(n(1, 1)) \cup Range(n(-1, 1)) \cup Range(n(1, -1)) \cup Range(n(-1, -1))
  <2>1. n(1, 1) \in Seq(Cell) /\ n(-1, 1) \in Seq(Cell)
        /\ n(1, -1) \in Seq(Cell) /\ n(-1, -1) \in Seq(Cell)
    BY <1>1
  <2> DEFINE p == n(1, 1)  q == n(-1, 1)  r == n(1, -1)  t == n(-1, -1)
  <2>2. DiagNeighbours(c) = p \o q \o r \o t
    BY <1>3
  <2> HIDE DEF p, q, r, t
  <2>3. p \in Seq(Cell) /\ q \in Seq(Cell) /\ r \in Seq(Cell) /\ t \in Seq(Cell)
    BY <2>1 DEF p, q, r, t
  <2>4. /\ DiagNeighbours(c) \in Seq(Cell)
        /\ Range(DiagNeighbours(c)) = Range(p) \cup Range(q) \cup Range(r) \cup Range(t)
    BY <1>4, <2>2, <2>3
  <2> QED  BY <2>4 DEF p, q, r, t
<1>7. ASSUME NEW b \in Cell, Straight(c, b)
      PROVE  b \in Range(StraightNeighbours(c))
  <2>1. c[1] \in Int /\ c[2] \in Int /\ b[1] \in Int /\ b[2] \in Int
    BY GridAssumption DEF Cell
  <2>2. \E dr, dc \in {-1, 0, 1} : /\ b[1] = c[1] + dr /\ b[2] = c[2] + dc
                                   /\ dr = 0 \/ dc = 0
                                   /\ dr # 0 \/ dc # 0
    <3>1. CASE c[1] = b[1] /\ c[2] = b[2] + 1
      BY <2>1, <3>1
    <3>2. CASE c[1] = b[1] /\ b[2] = c[2] + 1
      BY <2>1, <3>2
    <3>3. CASE c[2] = b[2] /\ c[1] = b[1] + 1
      BY <2>1, <3>3
    <3>4. CASE c[2] = b[2] /\ b[1] = c[1] + 1
      BY <2>1, <3>4
    <3> QED  BY <1>7, <3>1, <3>2, <3>3, <3>4 DEF Straight
  <2> QED  BY <2>2, <1>2, <1>5
<1>8. ASSUME NEW b \in Cell, Diagonal(c, b)
      PROVE  b \in Range(DiagNeighbours(c))
  <2>1. c[1] \in Int /\ c[2] \in Int /\ b[1] \in Int /\ b[2] \in Int
    BY GridAssumption DEF Cell
  <2>2. \E dr, dc \in {-1, 1} : b[1] = c[1] + dr /\ b[2] = c[2] + dc
    BY <1>8, <2>1 DEF Diagonal
  <2> QED  BY <2>2, <1>2, <1>6
<1>9. ASSUME NEW b \in Cell, b \in Range(StraightNeighbours(c))
      PROVE  Straight(c, b)
  <2>1. c[1] \in Int /\ c[2] \in Int /\ b[1] \in Int /\ b[2] \in Int
    BY GridAssumption DEF Cell
  <2>2. \/ b[1] = c[1] /\ (b[2] = c[2] + 1 \/ b[2] = c[2] - 1)
        \/ b[2] = c[2] /\ (b[1] = c[1] + 1 \/ b[1] = c[1] - 1)
    BY <1>2, <1>5, <1>9, <2>1
  <2> QED  BY <2>1, <2>2 DEF Straight
<1>10. ASSUME NEW b \in Cell, b \in Range(DiagNeighbours(c))
       PROVE  Diagonal(c, b)
  <2>1. c[1] \in Int /\ c[2] \in Int /\ b[1] \in Int /\ b[2] \in Int
    BY GridAssumption DEF Cell
  <2>2. /\ b[1] = c[1] + 1 \/ b[1] = c[1] - 1
        /\ b[2] = c[2] + 1 \/ b[2] = c[2] - 1
    BY <1>2, <1>6, <1>10, <2>1
  <2> QED  BY <2>1, <2>2 DEF Diagonal
<1> QED  BY <1>5, <1>6, <1>7, <1>8, <1>9, <1>10

LEMMA NextCellInGrid ==
  ASSUME NEW c \in (0 .. Rows) \X (0 .. Cols - 1), ~PastEnd(c)
  PROVE  /\ c \in Cell
         /\ NextCell(c) \in (0 .. Rows) \X (0 .. Cols - 1)
         /\ \A b \in Cell : Before(b, NextCell(c)) <=> Before(b, c) \/ b = c
<1>1. c \in Cell
  BY GridAssumption DEF PastEnd, Cell
<1>2. NextCell(c) \in (0 .. Rows) \X (0 .. Cols - 1)
  BY <1>1, GridAssumption DEF Cell, NextCell
<1>3. ASSUME NEW b \in Cell
      PROVE  Before(b, NextCell(c)) <=> Before(b, c) \/ b = c
  <2>1. /\ c = <<c[1], c[2]>> /\ b = <<b[1], b[2]>>
        /\ c[1] \in Int /\ c[2] \in 0 .. Cols - 1
        /\ b[1] \in Int /\ b[2] \in 0 .. Cols - 1
    BY <1>1 DEF Cell
  <2>2. b = c <=> b[1] = c[1] /\ b[2] = c[2]
    BY <2>1
  <2>3. CASE c[2] + 1 < Cols
    <3>1. NextCell(c)[1] = c[1] /\ NextCell(c)[2] = c[2] + 1
      BY <2>3 DEF NextCell
    <3> QED  BY <3>1, <2>1, <2>2 DEF Before
  <2>4. CASE ~(c[2] + 1 < Cols)
    <3>1. NextCell(c)[1] = c[1] + 1 /\ NextCell(c)[2] = 0 /\ c[2] = Cols - 1
      BY <2>1, <2>4, GridAssumption DEF NextCell
    <3> QED  BY <3>1, <2>1, <2>2 DEF Before
  <2> QED  BY <2>3, <2>4
<1> QED  BY <1>1, <1>2, <1>3

(* What is left of a sequence when its first element is taken.             *)
LEMMA RangeHeadTail ==
  ASSUME NEW S, NEW s \in Seq(S), s # <<>>
  PROVE  /\ Head(s) \in S /\ Tail(s) \in Seq(S)
         /\ Range(s) = {Head(s)} \cup Range(Tail(s))
<1>1. /\ Head(s) \in S /\ Tail(s) \in Seq(S) /\ Len(s) \in Nat \ {0}
      /\ Head(s) = s[1] /\ DOMAIN Tail(s) = 1 .. Len(Tail(s))
  OBVIOUS
<1>2. ASSUME NEW x \in Range(s) PROVE x = Head(s) \/ x \in Range(Tail(s))
  <2>1. PICK i \in 1 .. Len(s) : x = s[i]
    BY DEF Range
  <2>2. CASE i = 1
    BY <1>1, <2>1, <2>2
  <2>3. CASE i # 1
    <3>1. i - 1 \in 1 .. Len(Tail(s)) /\ Tail(s)[i - 1] = x
      BY <2>1, <2>3
    <3> QED  BY <1>1, <3>1 DEF Range
  <2> QED  BY <2>2, <2>3
<1>3. Head(s) \in Range(s)
  BY <1>1 DEF Range
<1>4. ASSUME NEW x \in Range(Tail(s)) PROVE x \in Range(s)
  <2>1. PICK i \in 1 .. Len(Tail(s)) : x = Tail(s)[i]
    BY <1>1 DEF Range
  <2>2. i + 1 \in 1 .. Len(s) /\ s[i + 1] = x
    BY <1>1, <2>1
  <2> QED  BY <2>2 DEF Range
<1> QED  BY <1>1, <1>2, <1>3, <1>4

(* Taking the first of distinct elements leaves a sequence without it, and *)
(* appending a new one keeps them distinct.                                *)
LEMMA DistinctTail ==
  ASSUME NEW S, NEW s \in Seq(S), s # <<>>,
         \A i, j \in 1 .. Len(s) : s[i] = s[j] => i = j
  PROVE  /\ \A i, j \in 1 .. Len(Tail(s)) : Tail(s)[i] = Tail(s)[j] => i = j
         /\ Head(s) \notin Range(Tail(s))
<1>1. \A i \in 1 .. Len(Tail(s)) : Tail(s)[i] = s[i + 1] /\ i + 1 \in 1 .. Len(s)
  OBVIOUS
<1>2. Head(s) = s[1] /\ 1 \in 1 .. Len(s) /\ Tail(s) \in Seq(S)
  OBVIOUS
<1>3. Head(s) \notin Range(Tail(s))
  <2> SUFFICES ASSUME NEW i \in 1 .. Len(Tail(s)), Tail(s)[i] = Head(s) PROVE FALSE
    BY <1>2 DEF Range
  <2>1. i + 1 = 1
    BY <1>1, <1>2
  <2> QED  BY <2>1
<1>4. ASSUME NEW i \in 1 .. Len(Tail(s)), NEW j \in 1 .. Len(Tail(s)),
             Tail(s)[i] = Tail(s)[j]
      PROVE  i = j
  <2>1. i + 1 = j + 1
    BY <1>1, <1>4
  <2> QED  BY <2>1
<1> QED  BY <1>3, <1>4

LEMMA DistinctAppend ==
  ASSUME NEW S, NEW s \in Seq(S), NEW n \in S, n \notin Range(s),
         \A i, j \in 1 .. Len(s) : s[i] = s[j] => i = j
  PROVE  \A i, j \in 1 .. Len(Append(s, n)) : Append(s, n)[i] = Append(s, n)[j] => i = j
<1> DEFINE t == Append(s, n)
<1>1. Len(t) = Len(s) + 1 /\ Len(s) \in Nat /\ t[Len(s) + 1] = n
  OBVIOUS
<1>2. \A k \in 1 .. Len(s) : t[k] = s[k] /\ s[k] # n
  BY DEF Range
<1> HIDE DEF t
<1> SUFFICES ASSUME NEW i \in 1 .. Len(t), NEW j \in 1 .. Len(t), t[i] = t[j] PROVE i = j
  BY DEF t
<1>3. CASE i \in 1 .. Len(s) /\ j \in 1 .. Len(s)
  BY <1>2, <1>3
<1>4. CASE i = Len(s) + 1 \/ j = Len(s) + 1
  BY <1>1, <1>2, <1>4
<1> QED  BY <1>1, <1>3, <1>4

-----------------------------------------------------------------------------
(* Iteration                                                               *)

(* Iterating a function F on a set T from x.                               *)
Iterates(f, T, F, x, N) ==
  f \in [0 .. N -> T] /\ f[0] = x /\ \A n \in 1 .. N : f[n] = F[f[n - 1]]

LEMMA Iteration ==
  ASSUME NEW T, NEW F \in [T -> T], NEW x \in T, NEW N \in Nat
  PROVE  \E f : Iterates(f, T, F, x, N)
<1> DEFINE Upto(k, f) == /\ f \in [0 .. k -> T] /\ f[0] = x
                         /\ \A n \in 1 .. k : f[n] = F[f[n - 1]]
           Missing == {k \in Nat : \A f \in [0 .. k -> T] : ~Upto(k, f)}
<1>1. Missing = {}
  <2> SUFFICES ASSUME Missing # {} PROVE FALSE
    OBVIOUS
  <2>1. PICK k \in Missing : \A j \in Missing : k <= j
    <3>1. Missing \in SUBSET Nat
      OBVIOUS
    <3> HIDE DEF Missing
    <3> QED  BY <3>1, LeastNatural
  <2>2. CASE k = 0
    <3> DEFINE g == [i \in 0 .. 0 |-> x]
    <3>1. Upto(0, g)
      OBVIOUS
    <3> QED  BY <2>1, <2>2, <3>1
  <2>3. CASE k # 0
    <3>1. k - 1 \in Nat /\ k - 1 \notin Missing
      BY <2>1, <2>3
    <3>2. PICK f \in [0 .. k - 1 -> T] : Upto(k - 1, f)
      BY <3>1
    <3> DEFINE g == [i \in 0 .. k |-> IF i = k THEN F[f[k - 1]] ELSE f[i]]
    <3>3. k \in Nat \ {0}
      BY <2>1, <2>3
    <3>4. f[k - 1] \in T /\ F[f[k - 1]] \in T
      BY <3>1
    <3>5. g \in [0 .. k -> T]
      BY <3>3, <3>4
    <3>6. \A i \in 0 .. k - 1 : g[i] = f[i]
      BY <3>3
    <3>7. g[0] = x
      BY <3>2, <3>3, <3>6
    <3>8. ASSUME NEW n \in 1 .. k PROVE g[n] = F[g[n - 1]]
      <4>1. g[n - 1] = f[n - 1]
        BY <3>3, <3>6, <3>8
      <4>2. CASE n = k
        BY <3>3, <4>1, <4>2
      <4>3. CASE n # k
        <5>1. n \in 1 .. k - 1 /\ g[n] = f[n]
          BY <3>3, <3>6, <4>3
        <5> QED  BY <3>2, <4>1, <5>1
      <4> QED  BY <4>2, <4>3
    <3> HIDE DEF g
    <3>9. Upto(k, g)
      BY <3>5, <3>7, <3>8
    <3> QED  BY <2>1, <3>5, <3>9
  <2> QED  BY <2>2, <2>3
<1>2. N \notin Missing
  BY <1>1
<1> QED  BY <1>2 DEF Iterates

-----------------------------------------------------------------------------
(* Sums over finite sets                                                   *)

(* What the proofs by induction on a set use: a minimal counterexample.    *)
LEMMA MinimalSet ==
  ASSUME NEW S, IsFiniteSet(S), NEW Q \in SUBSET (SUBSET S), Q # {}
  PROVE  \E s \in Q : \A x \in s : s \ {x} \notin Q
<1> DEFINE Sizes == {Cardinality(s) : s \in Q}
<1>1. \A s \in Q : IsFiniteSet(s) /\ Cardinality(s) \in Nat
  BY FS_Subset, FS_CardinalityType
<1>2. Sizes \in SUBSET Nat /\ Sizes # {}
  BY <1>1
<1>3. PICK k \in Sizes : \A j \in Sizes : k <= j
  <2> HIDE DEF Sizes
  <2> QED  BY <1>2, LeastNatural
<1>4. PICK s \in Q : Cardinality(s) = k
  BY <1>3
<1>5. ASSUME NEW x \in s, s \ {x} \in Q PROVE FALSE
  <2>1. Cardinality(s \ {x}) = Cardinality(s) - 1
    BY <1>1, FS_RemoveElement
  <2>2. k <= Cardinality(s \ {x}) /\ k \in Nat
    BY <1>1, <1>3, <1>4, <1>5
  <2> QED  BY <1>4, <2>1, <2>2
<1> QED  BY <1>5

(* g folds F over the subsets of S, one picked element after the other.    *)
Folds(g, S, base, F, pick) ==
  g = [s \in SUBSET S |-> IF s = {} THEN base ELSE F[<<pick[s], g[s \ {pick[s]}]>>]]

LEMMA FoldExists ==
  ASSUME NEW S, IsFiniteSet(S), NEW V, NEW base \in V, NEW F \in [S \X V -> V],
         NEW pick, \A s \in SUBSET S : s # {} => pick[s] \in s
  PROVE  \E g \in [SUBSET S -> V] : Folds(g, S, base, F, pick)
<1> DEFINE T == [SUBSET S -> V]
           Round(g) == [s \in SUBSET S |-> IF s = {} THEN base
                                           ELSE F[<<pick[s], g[s \ {pick[s]}]>>]]
           R == [g \in T |-> Round(g)]
           first == [s \in SUBSET S |-> base]
           N == Cardinality(S) + 1
<1>1. \A s \in SUBSET S : s # {} => pick[s] \in s
  OBVIOUS
<1>2. N \in Nat /\ \A s \in SUBSET S : IsFiniteSet(s) /\ Cardinality(s) \in 0 .. N - 1
  <2>1. \A s \in SUBSET S : /\ IsFiniteSet(s) /\ Cardinality(s) \in Nat
                            /\ Cardinality(s) <= Cardinality(S)
    BY FS_Subset, FS_CardinalityType
  <2>2. Cardinality(S) \in Nat
    BY FS_CardinalityType
  <2> QED  BY <2>1, <2>2
<1>3. R \in [T -> T]
  <2> SUFFICES ASSUME NEW g \in T PROVE Round(g) \in T
    OBVIOUS
  <2>1. ASSUME NEW s \in SUBSET S, s # {} PROVE F[<<pick[s], g[s \ {pick[s]}]>>] \in V
    <3>1. pick[s] \in S /\ g[s \ {pick[s]}] \in V
      BY <1>1, <2>1
    <3>2. <<pick[s], g[s \ {pick[s]}]>> \in S \X V
      BY <3>1
    <3> QED  BY <3>2
  <2> QED  BY <2>1
<1>4. first \in T
  OBVIOUS
<1>5. PICK h : Iterates(h, T, R, first, N)
  <2> HIDE DEF T, R, first, N
  <2> QED  BY <1>2, <1>3, <1>4, Iteration
<1>6. \A n \in 0 .. N : h[n] \in T
  BY <1>5 DEF Iterates
<1>7. ASSUME NEW n \in 1 .. N, NEW s \in SUBSET S
      PROVE  h[n][s] = IF s = {} THEN base ELSE F[<<pick[s], h[n - 1][s \ {pick[s]}]>>]
  <2>1. n - 1 \in 0 .. N /\ h[n - 1] \in T /\ h[n] = R[h[n - 1]]
    <3> HIDE DEF T, R, first, N
    <3>1. n - 1 \in 0 .. N /\ h[n] = R[h[n - 1]]
      BY <1>2, <1>5 DEF Iterates
    <3> QED  BY <1>6, <3>1
  <2>2. h[n] = Round(h[n - 1])
    BY <2>1
  <2> QED  BY <2>2
<1> HIDE DEF N
<1> DEFINE Settled(s) == \A m, n \in Cardinality(s) + 1 .. N : h[m][s] = h[n][s]
           Unsettled == {s \in SUBSET S : ~Settled(s)}
<1>8. Unsettled = {}
  <2> SUFFICES ASSUME Unsettled # {} PROVE FALSE
    OBVIOUS
  <2>1. PICK s \in Unsettled : \A x \in s : s \ {x} \notin Unsettled
    <3>1. Unsettled \in SUBSET (SUBSET S)
      OBVIOUS
    <3> HIDE DEF Unsettled
    <3> QED  BY <3>1, MinimalSet
  <2>2. PICK m \in Cardinality(s) + 1 .. N, n \in Cardinality(s) + 1 .. N : h[m][s] # h[n][s]
    BY <2>1
  <2>3. s \in SUBSET S /\ Cardinality(s) \in 0 .. N - 1
    BY <1>2, <2>1
  <2>4. m \in 1 .. N /\ n \in 1 .. N
    BY <1>2, <2>3
  <2>5. s # {}
    BY <1>7, <2>2, <2>3, <2>4
  <2> DEFINE p == pick[s]
             t == s \ {p}
  <2>6. p \in s /\ t \in SUBSET S /\ Cardinality(t) = Cardinality(s) - 1
    BY <1>1, <1>2, <2>3, <2>5, FS_RemoveElement
  <2>7. m - 1 \in Cardinality(t) + 1 .. N /\ n - 1 \in Cardinality(t) + 1 .. N
    BY <1>2, <2>3, <2>6
  <2>8. Settled(t)
    BY <2>1, <2>6
  <2>9. h[m - 1][t] = h[n - 1][t]
    BY <2>7, <2>8
  <2>10. h[m][s] = F[<<p, h[m - 1][t]>>] /\ h[n][s] = F[<<p, h[n - 1][t]>>]
    BY <1>7, <2>3, <2>4, <2>5
  <2> QED  BY <2>2, <2>9, <2>10
<1>9. ASSUME NEW s \in SUBSET S
      PROVE  h[N][s] = IF s = {} THEN base ELSE F[<<pick[s], h[N][s \ {pick[s]}]>>]
  <2>1. N \in 1 .. N
    BY <1>2
  <2>2. CASE s = {}
    BY <1>7, <2>1, <2>2
  <2>3. CASE s # {}
    <3> DEFINE p == pick[s]
               t == s \ {p}
    <3>1. p \in s /\ t \in SUBSET S /\ Cardinality(t) = Cardinality(s) - 1
      BY <1>1, <1>2, <2>3, FS_RemoveElement
    <3>2. N - 1 \in Cardinality(t) + 1 .. N /\ N \in Cardinality(t) + 1 .. N
      BY <1>2, <3>1
    <3>3. Settled(t)
      BY <1>8, <3>1
    <3>4. h[N - 1][t] = h[N][t]
      BY <3>2, <3>3
    <3> QED  BY <1>7, <2>1, <2>3, <3>4
  <2> QED  BY <2>2, <2>3
<1>10. h[N] \in T
  <2> HIDE DEF T
  <2>1. N \in 0 .. N
    BY <1>2
  <2> QED  BY <1>6, <2>1
<1>11. Folds(h[N], S, base, F, pick)
  <2> DEFINE g == h[N]
  <2>1. g \in [SUBSET S -> V]
    BY <1>10
  <2>2. \A s \in SUBSET S : g[s] = IF s = {} THEN base ELSE F[<<pick[s], g[s \ {pick[s]}]>>]
    BY <1>9
  <2> HIDE DEF g
  <2>3. g = [s \in SUBSET S |-> IF s = {} THEN base ELSE F[<<pick[s], g[s \ {pick[s]}]>>]]
    BY <2>1, <2>2
  <2> QED  BY <2>3 DEF g, Folds
<1> QED  BY <1>10, <1>11

Pick(s) == CHOOSE x \in s : TRUE

(* g adds up f over the subsets of S, one picked element after the other.  *)
Adds(g, f, S) ==
  g = [s \in SUBSET S |-> IF s = {} THEN 0 ELSE f[Pick(s)] + g[s \ {Pick(s)}]]

LEMMA AddsExists ==
  ASSUME NEW S, IsFiniteSet(S), NEW f, \A x \in S : f[x] \in Int
  PROVE  \E g \in [SUBSET S -> Int] : Adds(g, f, S)
<1> DEFINE F == [p \in S \X Int |-> f[p[1]] + p[2]]
           pick == [s \in SUBSET S |-> Pick(s)]
<1>1. F \in [S \X Int -> Int]
  OBVIOUS
<1>2. \A s \in SUBSET S : s # {} => pick[s] \in s
  BY DEF Pick
<1>3. PICK g \in [SUBSET S -> Int] : Folds(g, S, 0, F, pick)
  <2> HIDE DEF F, pick
  <2>1. 0 \in Int
    OBVIOUS
  <2> QED  BY <1>1, <1>2, <2>1, FoldExists
<1>4. \A s \in SUBSET S : g[s] = IF s = {} THEN 0 ELSE F[<<pick[s], g[s \ {pick[s]}]>>]
  <2> DEFINE G(s) == IF s = {} THEN 0 ELSE F[<<pick[s], g[s \ {pick[s]}]>>]
  <2>1. g = [s \in SUBSET S |-> G(s)]
    BY <1>3 DEF Folds
  <2> HIDE DEF G
  <2>2. \A s \in SUBSET S : g[s] = G(s)
    BY <2>1
  <2> QED  BY <2>2 DEF G
<1>5. ASSUME NEW s \in SUBSET S
      PROVE  g[s] = IF s = {} THEN 0 ELSE f[Pick(s)] + g[s \ {Pick(s)}]
  <2>1. CASE s = {}
    BY <1>4, <2>1
  <2>2. CASE s # {}
    <3>1. pick[s] = Pick(s) /\ Pick(s) \in S /\ g[s \ {Pick(s)}] \in Int
      BY <1>2, <2>2
    <3>2. F[<<Pick(s), g[s \ {Pick(s)}]>>] = f[Pick(s)] + g[s \ {Pick(s)}]
      BY <3>1
    <3> HIDE DEF F, pick
    <3> QED  BY <1>4, <2>2, <3>1, <3>2
  <2> QED  BY <2>1, <2>2
<1>6. g = [s \in SUBSET S |-> IF s = {} THEN 0 ELSE f[Pick(s)] + g[s \ {Pick(s)}]]
  BY <1>5
<1> QED  BY <1>6 DEF Adds

(* The library's sum is that of such a function.                           *)
LEMMA SumAdds ==
  ASSUME NEW S, IsFiniteSet(S), NEW f, \A x \in S : f[x] \in Int
  PROVE  \E g : /\ DOMAIN g = SUBSET S /\ \A s \in SUBSET S : g[s] \in Int
                /\ g[{}] = 0
                /\ \A s \in SUBSET S : s # {} => g[s] = f[Pick(s)] + g[s \ {Pick(s)}]
                /\ SumFunctionOnSet(f, S) = g[S]
<1> DEFINE g == CHOOSE g : Adds(g, f, S)
<1>1. SumFunctionOnSet(f, S) = g[S]
  BY DEF SumFunctionOnSet, FoldFunctionOnSet, MapThenFoldSet, Adds, Pick
<1>2. \E a : Adds(a, f, S)
  BY AddsExists
<1>3. Adds(g, f, S)
  BY <1>2
<1> HIDE DEF g
<1>4. g = [s \in SUBSET S |-> IF s = {} THEN 0 ELSE f[Pick(s)] + g[s \ {Pick(s)}]]
  BY <1>3 DEF Adds
<1>5. DOMAIN g = SUBSET S
  BY <1>4
<1>6. \A s \in SUBSET S : g[s] = IF s = {} THEN 0 ELSE f[Pick(s)] + g[s \ {Pick(s)}]
  BY <1>4
<1> HIDE <1>4
<1>7. g[{}] = 0
  BY <1>6
<1> DEFINE Odd == {s \in SUBSET S : g[s] \notin Int}
<1>8. Odd = {}
  <2> SUFFICES ASSUME Odd # {} PROVE FALSE
    OBVIOUS
  <2>1. PICK s \in Odd : \A x \in s : s \ {x} \notin Odd
    <3>1. Odd \in SUBSET (SUBSET S)
      OBVIOUS
    <3> HIDE DEF Odd
    <3> QED  BY <3>1, MinimalSet
  <2>2. s \in SUBSET S /\ g[s] \notin Int
    OBVIOUS
  <2>3. g[s] # 0
    BY <2>2
  <2>4. s # {}
    BY <1>7, <2>3, Zenon
  <2>5. Pick(s) \in s
    BY <2>4 DEF Pick
  <2>6. f[Pick(s)] \in Int /\ g[s \ {Pick(s)}] \in Int
    BY <2>1, <2>5
  <2>7. g[s] = f[Pick(s)] + g[s \ {Pick(s)}]
    BY <1>6, <2>2, <2>4
  <2> QED  BY <2>2, <2>6, <2>7
<1>9. \A s \in SUBSET S : g[s] \in Int
  BY <1>8
<1>10. \A s \in SUBSET S : s # {} => g[s] = f[Pick(s)] + g[s \ {Pick(s)}]
  BY <1>6
<1> QED  BY <1>1, <1>5, <1>7, <1>9, <1>10

(* The sum of a set depends on f over that set alone.                      *)
LEMMA AddsUnique ==
  ASSUME NEW A, IsFiniteSet(A), NEW S, NEW T, A \in SUBSET S, A \in SUBSET T,
         NEW f, NEW h, \A x \in A : f[x] = h[x],
         NEW g, NEW k, Adds(g, f, S), Adds(k, h, T)
  PROVE  g[A] = k[A]
<1>1. \A s \in SUBSET A : g[s] = IF s = {} THEN 0 ELSE f[Pick(s)] + g[s \ {Pick(s)}]
  <2>1. g = [s \in SUBSET S |-> IF s = {} THEN 0 ELSE f[Pick(s)] + g[s \ {Pick(s)}]]
    BY DEF Adds
  <2>2. \A s \in SUBSET S : g[s] = IF s = {} THEN 0 ELSE f[Pick(s)] + g[s \ {Pick(s)}]
    BY <2>1
  <2> QED  BY <2>2
<1>2. \A s \in SUBSET A : k[s] = IF s = {} THEN 0 ELSE h[Pick(s)] + k[s \ {Pick(s)}]
  <2>1. k = [s \in SUBSET T |-> IF s = {} THEN 0 ELSE h[Pick(s)] + k[s \ {Pick(s)}]]
    BY DEF Adds
  <2>2. \A s \in SUBSET T : k[s] = IF s = {} THEN 0 ELSE h[Pick(s)] + k[s \ {Pick(s)}]
    BY <2>1
  <2> QED  BY <2>2
<1> DEFINE Differ == {s \in SUBSET A : g[s] # k[s]}
<1>3. Differ = {}
  <2> SUFFICES ASSUME Differ # {} PROVE FALSE
    OBVIOUS
  <2>1. PICK s \in Differ : \A x \in s : s \ {x} \notin Differ
    <3>1. Differ \in SUBSET (SUBSET A)
      OBVIOUS
    <3> HIDE DEF Differ
    <3> QED  BY <3>1, MinimalSet
  <2>2. s \in SUBSET A /\ g[s] # k[s]
    OBVIOUS
  <2>3. s # {}
    BY <1>1, <1>2, <2>2
  <2>4. Pick(s) \in s
    BY <2>3 DEF Pick
  <2>5. s \ {Pick(s)} \in SUBSET A /\ s \ {Pick(s)} \notin Differ
    BY <2>1, <2>2, <2>4
  <2>6. g[s \ {Pick(s)}] = k[s \ {Pick(s)}] /\ f[Pick(s)] = h[Pick(s)]
    BY <2>2, <2>4, <2>5
  <2> QED  BY <1>1, <1>2, <2>2, <2>3, <2>6
<1> QED  BY <1>3

LEMMA SumIs ==
  ASSUME NEW S, IsFiniteSet(S), NEW f, \A x \in S : f[x] \in Int, NEW g, Adds(g, f, S)
  PROVE  SumFunctionOnSet(f, S) = g[S]
<1> DEFINE k == CHOOSE k : Adds(k, f, S)
<1>1. SumFunctionOnSet(f, S) = k[S]
  BY DEF SumFunctionOnSet, FoldFunctionOnSet, MapThenFoldSet, Adds, Pick
<1>2. Adds(k, f, S)
  BY AddsExists
<1> HIDE DEF k
<1>3. k[S] = g[S]
  BY <1>2, AddsUnique
<1> QED  BY <1>1, <1>3

(* In which order the elements are picked makes no difference.             *)
LEMMA SumRemove ==
  ASSUME NEW S, IsFiniteSet(S), NEW f, \A x \in S : f[x] \in Int, NEW y \in S
  PROVE  /\ SumFunctionOnSet(f, S) = f[y] + SumFunctionOnSet(f, S \ {y})
         /\ SumFunctionOnSet(f, S) \in Int
<1> DEFINE Sums(g, D) == /\ \A s \in SUBSET D : g[s] \in Int
                         /\ g[{}] = 0
                         /\ \A s \in SUBSET D : s # {} => g[s] = f[Pick(s)] + g[s \ {Pick(s)}]
<1>1. PICK g : Sums(g, S) /\ SumFunctionOnSet(f, S) = g[S]
  BY SumAdds
<1>2. IsFiniteSet(S \ {y}) /\ \A x \in S \ {y} : f[x] \in Int
  BY FS_Subset
<1>3. PICK k : Sums(k, S \ {y}) /\ SumFunctionOnSet(f, S \ {y}) = k[S \ {y}]
  BY <1>2, SumAdds
<1>4. \A s : s # {} => Pick(s) \in s
  BY DEF Pick
<1> DEFINE Differ == {s \in SUBSET (S \ {y}) : g[s] # k[s]}
<1>5. Differ = {}
  <2> SUFFICES ASSUME Differ # {} PROVE FALSE
    OBVIOUS
  <2>1. PICK s \in Differ : \A x \in s : s \ {x} \notin Differ
    <3>1. Differ \in SUBSET (SUBSET (S \ {y}))
      OBVIOUS
    <3> HIDE DEF Differ
    <3> QED  BY <1>2, <3>1, MinimalSet
  <2>2. s # {}
    BY <1>1, <1>3, <2>1
  <2>3. Pick(s) \in s /\ g[s \ {Pick(s)}] = k[s \ {Pick(s)}]
    BY <1>4, <2>1, <2>2
  <2> QED  BY <1>1, <1>3, <2>1, <2>2, <2>3
<1> DEFINE Picky == {s \in SUBSET S : \E x \in s : g[s] # f[x] + g[s \ {x}]}
<1>6. Picky = {}
  <2> SUFFICES ASSUME Picky # {} PROVE FALSE
    OBVIOUS
  <2>1. PICK s \in Picky : \A x \in s : s \ {x} \notin Picky
    <3>1. Picky \in SUBSET (SUBSET S)
      OBVIOUS
    <3> HIDE DEF Picky
    <3> QED  BY <3>1, MinimalSet
  <2>2. PICK x \in s : g[s] # f[x] + g[s \ {x}]
    BY <2>1
  <2> DEFINE p == Pick(s)
  <2>3. p \in s /\ g[s] = f[p] + g[s \ {p}]
    BY <1>1, <1>4, <2>1
  <2> HIDE DEF p
  <2>4. p # x
    BY <2>2, <2>3
  <2> DEFINE rest == s \ {p, x}
  <2>5. \A z \in s : \A v \in s \ {z} : g[s \ {z}] = f[v] + g[(s \ {z}) \ {v}]
    <3> SUFFICES ASSUME NEW z \in s, NEW v \in s \ {z}
                 PROVE  g[s \ {z}] = f[v] + g[(s \ {z}) \ {v}]
      OBVIOUS
    <3>1. s \ {z} \in SUBSET S /\ s \ {z} \notin Picky
      BY <2>1
    <3> QED  BY <3>1
  <2>6. g[s \ {p}] = f[x] + g[rest]
    <3>1. x \in s \ {p} /\ (s \ {p}) \ {x} = rest
      BY <2>4
    <3> QED  BY <2>3, <2>5, <3>1, Zenon
  <2>7. g[s \ {x}] = f[p] + g[rest]
    <3>1. p \in s \ {x} /\ (s \ {x}) \ {p} = rest
      BY <2>3, <2>4
    <3> QED  BY <2>2, <2>5, <3>1, Zenon
  <2>8. f[p] \in Int /\ f[x] \in Int /\ g[rest] \in Int
    BY <1>1, <2>1, <2>3
  <2> HIDE DEF rest
  <2> QED  BY <2>2, <2>3, <2>6, <2>7, <2>8
<1>7. g[S] = f[y] + g[S \ {y}]
  BY <1>6
<1>8. g[S \ {y}] = k[S \ {y}]
  BY <1>5
<1> QED  BY <1>1, <1>3, <1>7, <1>8

LEMMA SumEmpty ==
  ASSUME NEW f
  PROVE  SumFunctionOnSet(f, {}) = 0
<1>1. IsFiniteSet({}) /\ \A x \in {} : f[x] \in Int
  BY FS_EmptySet
<1> QED  BY <1>1, SumAdds, Zenon

LEMMA SumType ==
  ASSUME NEW S, IsFiniteSet(S), NEW f, \A x \in S : f[x] \in Int
  PROVE  SumFunctionOnSet(f, S) \in Int
<1>1. CASE S = {}
  BY <1>1, SumEmpty
<1>2. CASE S # {}
  BY <1>2, SumRemove
<1> QED  BY <1>1, <1>2

LEMMA SumSame ==
  ASSUME NEW S, IsFiniteSet(S), NEW f, NEW h, \A x \in S : f[x] \in Int /\ h[x] = f[x]
  PROVE  SumFunctionOnSet(h, S) = SumFunctionOnSet(f, S)
<1>1. PICK g : Adds(g, f, S)
  BY AddsExists
<1>2. PICK k : Adds(k, h, S)
  BY AddsExists
<1>3. SumFunctionOnSet(f, S) = g[S]
  BY <1>1, SumIs
<1>4. SumFunctionOnSet(h, S) = k[S]
  BY <1>2, SumIs
<1>5. g[S] = k[S]
  BY <1>1, <1>2, AddsUnique
<1> QED  BY <1>3, <1>4, <1>5

-----------------------------------------------------------------------------
(* Folding along a sequence                                                *)

LEMMA Segment ==
  ASSUME NEW n \in Nat, NEW k \in 1 .. n
  PROVE  /\ 1 .. k \in SUBSET (1 .. n) /\ 1 .. k # {} /\ k \in 1 .. k
         /\ (1 .. k) \ {k} = 1 .. k - 1
<1>1. 1 .. k \in SUBSET (1 .. n) /\ k \in 1 .. k
  OBVIOUS
<1>2. (1 .. k) \ {k} = 1 .. k - 1
  OBVIOUS
<1> QED  BY <1>1, <1>2

LEMMA MaxIs ==
  ASSUME NEW n \in Nat
  PROVE  /\ \A s \in SUBSET (1 .. n) : s # {} => Max(s) \in s
         /\ \A k \in 1 .. n : Max(1 .. k) = k
<1>1. ASSUME NEW s \in SUBSET (1 .. n), s # {}
      PROVE  \E x \in s : \A y \in s : x >= y
  <2> DEFINE Gaps == {n - x : x \in s}
  <2>1. Gaps \in SUBSET Nat /\ Gaps # {}
    <3>1. \A x \in 1 .. n : n - x \in Nat
      OBVIOUS
    <3>2. \A x \in s : n - x \in Nat
      BY <3>1
    <3> QED  BY <1>1, <3>2
  <2>2. PICK k \in Gaps : \A j \in Gaps : k <= j
    <3> HIDE DEF Gaps
    <3> QED  BY <2>1, LeastNatural
  <2>3. PICK x \in s : k = n - x
    OBVIOUS
  <2>4. \A y \in s : n - x <= n - y /\ y \in Nat /\ x \in Nat
    BY <2>2, <2>3
  <2> QED  BY <2>3, <2>4
<1>2. ASSUME NEW s \in SUBSET (1 .. n), s # {}
      PROVE  Max(s) \in s /\ \A y \in s : Max(s) >= y
  BY <1>1, <1>2 DEF Max
<1>3. ASSUME NEW k \in 1 .. n PROVE Max(1 .. k) = k
  <2>1. 1 .. k \in SUBSET (1 .. n) /\ 1 .. k # {} /\ k \in 1 .. k
    BY Segment
  <2>2. Max(1 .. k) \in 1 .. k /\ Max(1 .. k) >= k
    BY <1>2, <2>1
  <2> QED  BY <2>2
<1> QED  BY <1>2, <1>3

Latest(n) == [s \in SUBSET (1 .. n) |-> Max(s)]

LEMMA LeftFoldExists ==
  ASSUME NEW n \in Nat, NEW V, NEW base \in V, NEW F \in [(1 .. n) \X V -> V]
  PROVE  \E g \in [SUBSET (1 .. n) -> V] : Folds(g, 1 .. n, base, F, Latest(n))
<1>1. IsFiniteSet(1 .. n)
  <2>1. 1 \in Int /\ n \in Int
    OBVIOUS
  <2> QED  BY <2>1, FS_Interval
<1>2. \A s \in SUBSET (1 .. n) : s # {} => Latest(n)[s] \in s
  BY MaxIs DEF Latest
<1> QED  BY <1>1, <1>2, FoldExists

(* Such a fold takes the elements one by one from the left.                *)
LEMMA LeftFoldSteps ==
  ASSUME NEW n \in Nat, NEW base, NEW F, NEW g, Folds(g, 1 .. n, base, F, Latest(n))
  PROVE  /\ g[1 .. 0] = base
         /\ \A k \in 1 .. n : g[1 .. k] = F[<<k, g[1 .. k - 1]>>]
<1>1. \A s \in SUBSET (1 .. n) :
        g[s] = IF s = {} THEN base ELSE F[<<Latest(n)[s], g[s \ {Latest(n)[s]}]>>]
  <2>1. g = [s \in SUBSET (1 .. n) |->
               IF s = {} THEN base ELSE F[<<Latest(n)[s], g[s \ {Latest(n)[s]}]>>]]
    BY DEF Folds
  <2> QED  BY <2>1, Zenon
<1>2. g[1 .. 0] = base
  <2>1. 1 .. 0 = {} /\ {} \in SUBSET (1 .. n)
    OBVIOUS
  <2> QED  BY <1>1, <2>1, Zenon
<1>3. ASSUME NEW k \in 1 .. n PROVE g[1 .. k] = F[<<k, g[1 .. k - 1]>>]
  <2>1. 1 .. k \in SUBSET (1 .. n) /\ 1 .. k # {}
    BY Segment
  <2>2. Latest(n)[1 .. k] = k
    BY <2>1, MaxIs DEF Latest
  <2>3. (1 .. k) \ {k} = 1 .. k - 1
    BY Segment
  <2> QED  BY <1>1, <2>1, <2>2, <2>3, Zenon
<1> QED  BY <1>2, <1>3

-----------------------------------------------------------------------------
(* Drain maps                                                              *)

LEMMA CourseDef ==
  ASSUME NEW map, NEW cell \in Cell
  PROVE  /\ Course(map, cell) \in [0 .. Rows * Cols -> SUBSET Cell]
         /\ Course(map, cell)[0] = {cell}
         /\ \A n \in 1 .. Rows * Cols :
              Course(map, cell)[n] = UNION {Onward(map, c) : c \in Course(map, cell)[n - 1]}
<1> DEFINE N == Rows * Cols
           F == [A \in SUBSET Cell |-> UNION {Onward(map, c) : c \in A}]
           At(f) == f = [n \in 0 .. N |-> IF n = 0 THEN {cell}
                                          ELSE UNION {Onward(map, c) : c \in f[n - 1]}]
<1>1. N \in Nat
  BY GridAssumption
<1>2. F \in [SUBSET Cell -> SUBSET Cell]
  BY DEF Onward
<1>3. {cell} \in SUBSET Cell
  OBVIOUS
<1> HIDE DEF N, F
<1>4. PICK f \in [0 .. N -> SUBSET Cell] : f[0] = {cell} /\ \A n \in 1 .. N : f[n] = F[f[n - 1]]
  <2>1. \E f : Iterates(f, SUBSET Cell, F, {cell}, N)
    BY <1>1, <1>2, <1>3, Iteration
  <2> QED  BY <2>1 DEF Iterates
<1>5. At(f)
  <2>1. ASSUME NEW n \in 0 .. N
        PROVE  f[n] = IF n = 0 THEN {cell} ELSE UNION {Onward(map, c) : c \in f[n - 1]}
    <3>1. CASE n = 0
      BY <3>1, <1>4
    <3>2. CASE n # 0
      <4>1. n \in 1 .. N /\ n - 1 \in 0 .. N
        BY <1>1, <3>2
      <4>2. f[n] = F[f[n - 1]] /\ f[n - 1] \in SUBSET Cell
        BY <1>4, <4>1
      <4>3. F[f[n - 1]] = UNION {Onward(map, c) : c \in f[n - 1]}
        BY <4>2 DEF F
      <4> QED  BY <3>2, <4>2, <4>3
    <3> QED  BY <3>1, <3>2
  <2> QED  BY <2>1
<1>6. Course(map, cell) = CHOOSE g : At(g)
  BY DEF Course, N
<1> HIDE DEF At
<1>7. At(Course(map, cell))
  BY <1>5, <1>6
<1> DEFINE g == Course(map, cell)
<1> HIDE DEF g
<1>8. g = [n \in 0 .. N |-> IF n = 0 THEN {cell}
                            ELSE UNION {Onward(map, c) : c \in g[n - 1]}]
  BY <1>7 DEF At, g
<1>9. g[0] = {cell} /\ \A n \in 1 .. N : g[n] = UNION {Onward(map, c) : c \in g[n - 1]}
  <2>1. 0 \in 0 .. N /\ \A n \in 1 .. N : n \in 0 .. N /\ n # 0
    BY <1>1
  <2> QED  BY <1>8, <2>1
<1>10. \A n \in 0 .. N : g[n] \in SUBSET Cell
  <2> SUFFICES ASSUME NEW n \in 0 .. N PROVE g[n] \in SUBSET Cell
    OBVIOUS
  <2>1. CASE n = 0
    BY <1>9, <2>1
  <2>2. CASE n # 0
    <3>1. n \in 1 .. N
      BY <1>1, <2>2
    <3> QED  BY <1>9, <3>1 DEF Onward
  <2> QED  BY <2>1, <2>2
<1>11. DOMAIN g = 0 .. N /\ g = [n \in 0 .. N |-> g[n]]
  BY <1>8
<1>12. g \in [0 .. N -> SUBSET Cell]
  BY <1>10, <1>11
<1> QED  BY <1>9, <1>12 DEF g, N

(* Water moves on to one cell at most.                                     *)
LEMMA OnwardSingle ==
  ASSUME NEW map, NEW c \in Cell, NEW a \in Onward(map, c)
  PROVE  /\ a \in Cell /\ map.dir[c] # Pit /\ a = getNeighbour(map.dir[c], c)
         /\ Onward(map, c) = {a}
BY DEF Onward, FlowsInto

(* Where the water cannot leave a set without a pit it never drains.       *)
LEMMA TrappedNeverDrains ==
  ASSUME NEW map, NEW start \in Cell, NEW S \in SUBSET Cell, start \in S,
         \A b \in S : map.dir[b] # Pit /\ Onward(map, b) \subseteq S
  PROVE  ~Drains(map, start)
<1> DEFINE at == Course(map, start)
           N == Rows * Cols
           Out == {k \in Nat : k \in 0 .. N /\ ~(at[k] \subseteq S)}
<1>1. N \in Nat
  BY GridAssumption
<1>2. at[0] = {start} /\ \A n \in 1 .. N : at[n] = UNION {Onward(map, c) : c \in at[n - 1]}
  BY CourseDef
<1> HIDE DEF at, N
<1>3. Out = {}
  <2> SUFFICES ASSUME Out # {} PROVE FALSE
    OBVIOUS
  <2>1. PICK k \in Out : \A j \in Out : k <= j
    <3>1. Out \in SUBSET Nat
      OBVIOUS
    <3> HIDE DEF Out
    <3> QED  BY <3>1, LeastNatural
  <2>2. k # 0
    BY <1>2, <2>1
  <2>3. k \in 1 .. N /\ k - 1 \in 0 .. N /\ k - 1 \in Nat /\ k - 1 \notin Out
    BY <1>1, <2>1, <2>2
  <2>4. at[k - 1] \subseteq S
    BY <2>3
  <2>5. at[k] = UNION {Onward(map, c) : c \in at[k - 1]}
    BY <1>2, <2>3
  <2> QED  BY <2>1, <2>4, <2>5
<1>4. ASSUME NEW n \in 0 .. N, NEW c \in at[n], map.dir[c] = Pit PROVE FALSE
  <2>1. n \in Nat /\ n \notin Out
    BY <1>1, <1>3
  <2> QED  BY <2>1, <1>4
<1> QED  BY <1>4 DEF Drains, at, N

(* The cell in which water from start stands after it has passed the cells *)
(* in seen, each once.                                                     *)
OnTheWay(map, start, seen, c) ==
  /\ start \in Cell /\ c \in Cell /\ seen \subseteq Cell /\ c \notin seen
  /\ start \in seen \cup {c}
  /\ \A b \in seen : map.dir[b] # Pit /\ Onward(map, b) \subseteq seen \cup {c}
  /\ Course(map, start)[Cardinality(seen)] = {c}

LEMMA SeenBound ==
  ASSUME NEW seen, seen \subseteq Cell, NEW c \in Cell \ seen
  PROVE  /\ IsFiniteSet(seen) /\ Cardinality(seen) \in 0 .. Rows * Cols
         /\ Cardinality(seen) + 1 \in 1 .. Rows * Cols
         /\ Cardinality(seen \cup {c}) = Cardinality(seen) + 1
<1>1. IsFiniteSet(seen) /\ Cardinality(seen) \in Nat
  BY CellsFinite, FS_Subset, FS_CardinalityType
<1>2. Cardinality(seen \cup {c}) = Cardinality(seen) + 1
  BY <1>1, FS_AddElement
<1>3. Cardinality(seen \cup {c}) <= Rows * Cols
  <2>1. seen \cup {c} \in SUBSET Cell
    OBVIOUS
  <2> QED  BY <2>1, CellsFinite, FS_Subset
<1>4. Rows * Cols \in Nat
  BY GridAssumption
<1> QED  BY <1>1, <1>2, <1>3, <1>4

LEMMA WayStarts ==
  ASSUME NEW map, NEW start \in Cell
  PROVE  OnTheWay(map, start, {}, start)
<1>1. Cardinality({}) = 0
  BY FS_EmptySet
<1> QED  BY <1>1, CourseDef DEF OnTheWay

LEMMA WayGoesOn ==
  ASSUME NEW map, NEW start, NEW seen, NEW c,
         OnTheWay(map, start, seen, c), NEW to \in Onward(map, c),
         to \notin seen \cup {c}
  PROVE  OnTheWay(map, start, seen \cup {c}, to)
<1>1. start \in Cell /\ c \in Cell /\ seen \subseteq Cell /\ c \notin seen
  BY DEF OnTheWay
<1>2. to \in Cell /\ map.dir[c] # Pit /\ Onward(map, c) = {to}
  BY <1>1, OnwardSingle
<1> DEFINE k == Cardinality(seen)
           N == Rows * Cols
<1>3. k \in Nat /\ k + 1 \in 1 .. N /\ Cardinality(seen \cup {c}) = k + 1
  BY <1>1, SeenBound
<1>4. \A n \in 1 .. N :
        Course(map, start)[n] = UNION {Onward(map, b) : b \in Course(map, start)[n - 1]}
  BY <1>1, CourseDef
<1>5. Course(map, start)[Cardinality(seen \cup {c})] = {to}
  <2>1. Course(map, start)[k] = {c}
    BY DEF OnTheWay
  <2> HIDE DEF k, N
  <2>2. k + 1 - 1 = k
    BY <1>3
  <2>3. Course(map, start)[k + 1] = UNION {Onward(map, b) : b \in {c}}
    BY <1>3, <1>4, <2>1, <2>2
  <2> QED  BY <1>2, <1>3, <2>3
<1>6. \A b \in seen \cup {c} :
        map.dir[b] # Pit /\ Onward(map, b) \subseteq (seen \cup {c}) \cup {to}
  BY <1>2 DEF OnTheWay
<1>7. start \in (seen \cup {c}) \cup {to} /\ seen \cup {c} \subseteq Cell
  BY <1>1 DEF OnTheWay
<1> QED  BY <1>1, <1>2, <1>5, <1>6, <1>7 DEF OnTheWay

(* Whoever stands in a pit knows that the start drains; whoever cannot go  *)
(* on without coming back knows that it does not.                          *)
LEMMA WayEndsInPit ==
  ASSUME NEW map, NEW start, NEW seen, NEW c,
         OnTheWay(map, start, seen, c), map.dir[c] = Pit
  PROVE  Drains(map, start)
<1>1. Cardinality(seen) \in 0 .. Rows * Cols
  BY SeenBound DEF OnTheWay
<1>2. c \in Course(map, start)[Cardinality(seen)]
  BY DEF OnTheWay
<1> QED  BY <1>1, <1>2 DEF Drains

LEMMA WayIsBlocked ==
  ASSUME NEW map, NEW start, NEW seen, NEW c,
         OnTheWay(map, start, seen, c), map.dir[c] # Pit,
         Onward(map, c) \subseteq seen \cup {c}
  PROVE  ~Drains(map, start)
<1>1. /\ start \in Cell /\ seen \cup {c} \in SUBSET Cell /\ start \in seen \cup {c}
      /\ \A b \in seen \cup {c} : map.dir[b] # Pit /\ Onward(map, b) \subseteq seen \cup {c}
  BY DEF OnTheWay
<1> QED  BY <1>1, TrappedNeverDrains

-----------------------------------------------------------------------------
(* Where flows come from                                                   *)

(* A flow that is followed until it ends or comes back.  If it comes back  *)
(* to its start then it does so from its last cell.                        *)
LEMMA WholeWay ==
  ASSUME NEW map, NEW start \in Cell
  PROVE  \E seen, c : /\ OnTheWay(map, start, seen, c)
                      /\ Onward(map, c) \subseteq seen \cup {c}
                      /\ \A b \in seen : start \notin Onward(map, b)
<1> DEFINE N == Rows * Cols
           Way(seen, c) == /\ OnTheWay(map, start, seen, c)
                           /\ \A b \in seen : start \notin Onward(map, b)
           Left == {k \in Nat : \E seen, c : Way(seen, c) /\ k + Cardinality(seen) = N}
<1>1. N \in Nat
  BY GridAssumption
<1>2. Left # {}
  <2>1. Way({}, start) /\ Cardinality({}) = 0
    BY WayStarts, FS_EmptySet
  <2> HIDE DEF Way, N
  <2>2. N + Cardinality({}) = N
    BY <1>1, <2>1
  <2> QED  BY <1>1, <2>1, <2>2
<1>3. PICK k \in Left : \A j \in Left : k <= j
  <2>1. Left \in SUBSET Nat
    OBVIOUS
  <2> HIDE DEF Left
  <2> QED  BY <1>2, <2>1, LeastNatural
<1>4. PICK seen, c : Way(seen, c) /\ k + Cardinality(seen) = N
  OBVIOUS
<1>5. ASSUME NEW to \in Onward(map, c), to \notin seen \cup {c} PROVE FALSE
  <2>1. c \in Cell /\ seen \subseteq Cell /\ c \notin seen /\ start \in seen \cup {c}
    BY <1>4 DEF OnTheWay
  <2>2. OnTheWay(map, start, seen \cup {c}, to) /\ Onward(map, c) = {to}
    BY <1>4, <1>5, <2>1, WayGoesOn, OnwardSingle
  <2>3. Way(seen \cup {c}, to)
    BY <1>4, <1>5, <2>1, <2>2
  <2>4. /\ Cardinality(seen) \in Nat /\ Cardinality(seen) + 1 <= N
        /\ Cardinality(seen \cup {c}) = Cardinality(seen) + 1
    BY <2>1, SeenBound
  <2> HIDE DEF Way, N
  <2>5. k - 1 \in Nat /\ (k - 1) + Cardinality(seen \cup {c}) = N
    BY <1>1, <1>4, <2>4
  <2>6. k - 1 \in Left
    BY <2>3, <2>5
  <2> QED  BY <1>3, <2>5, <2>6
<1> QED  BY <1>4, <1>5

(* Water from a comes to b, whatever the number of steps: no set of cells  *)
(* holds it back before b.                                                 *)
Reaches(map, a, b) ==
  \A S \in SUBSET Cell :
    a \in S /\ (\A d \in S \ {b} : Onward(map, d) \subseteq S) => b \in S

(* Water that is upstream of a flow into no pit comes to none itself.      *)
LEMMA UpstreamOfTrapped ==
  ASSUME NEW map, NEW a \in Cell, NEW b \in Cell, Reaches(map, a, b), ~Drains(map, b)
  PROVE  ~Drains(map, a)
<1>1. PICK seen, c : OnTheWay(map, b, seen, c) /\ Onward(map, c) \subseteq seen \cup {c}
  BY WholeWay
<1> DEFINE Below == seen \cup {c}
           Above == {d \in Cell : Reaches(map, d, b)}
<1>2. Below \in SUBSET Cell /\ b \in Below
  BY <1>1 DEF OnTheWay
<1>3. map.dir[c] # Pit
  BY <1>1, WayEndsInPit
<1>4. \A d \in Below : map.dir[d] # Pit /\ Onward(map, d) \subseteq Below
  BY <1>1, <1>3 DEF OnTheWay
<1>5. ASSUME NEW d \in Above, d # b PROVE map.dir[d] # Pit /\ Onward(map, d) \subseteq Above
  <2>1. Reaches(map, d, b)
    OBVIOUS
  <2>2. ASSUME map.dir[d] = Pit PROVE FALSE
    <3>1. {d} \in SUBSET Cell /\ Onward(map, d) = {}
      BY <2>2 DEF Onward
    <3> QED  BY <1>5, <2>1, <3>1 DEF Reaches
  <2>3. ASSUME NEW to \in Onward(map, d) PROVE to \in Above
    <3>1. to \in Cell /\ Onward(map, d) = {to}
      BY OnwardSingle
    <3>2. ASSUME NEW S \in SUBSET Cell, to \in S,
                 \A e \in S \ {b} : Onward(map, e) \subseteq S
          PROVE  b \in S
      <4>1. S \cup {d} \in SUBSET Cell
        OBVIOUS
      <4>2. \A e \in (S \cup {d}) \ {b} : Onward(map, e) \subseteq S \cup {d}
        BY <3>1, <3>2
      <4>3. b \in S \cup {d}
        BY <2>1, <4>1, <4>2 DEF Reaches
      <4> QED  BY <1>5, <4>3
    <3> QED  BY <3>1, <3>2 DEF Reaches
  <2> QED  BY <2>2, <2>3
<1>6. Above \cup Below \in SUBSET Cell /\ a \in Above \cup Below
  BY <1>2
<1>7. \A d \in Above \cup Below :
        map.dir[d] # Pit /\ Onward(map, d) \subseteq Above \cup Below
  BY <1>2, <1>4, <1>5
<1> QED  BY <1>6, <1>7, TrappedNeverDrains

(* Nothing but a cell that holds data flows on.                            *)
LEMMA UpstreamHasData ==
  ASSUME NEW map, map.nodata \notin 1 .. 9 \ {Pit},
         NEW a \in Cell, NEW b \in Cell, a # b, FlowsInto(map, a, b)
  PROVE  ~is_nodata(map, a) /\ map.dir[a] # Pit
<1>1. map.dir[a] \in 0 .. 9 /\ getNeighbour(map.dir[a], a) = b
  BY DEF FlowsInto, InTable, lookupOffsets
<1>2. getNeighbour(0, a) = a /\ getNeighbour(5, a) = a
  BY DEF getNeighbour, lookupOffsets, Cell
<1>3. map.dir[a] # 0 /\ map.dir[a] # 5
  BY <1>1, <1>2
<1> QED  BY <1>1, <1>3 DEF is_nodata, Pit

(* Every flow comes from a source; what none comes to is on a loop.        *)
LEMMA SourceOrLoop ==
  ASSUME NEW map, map.nodata \notin 1 .. 9 \ {Pit},
         NEW cell \in Cell, ~is_nodata(map, cell),
         \A s \in Cell : ~is_nodata(map, s) /\ ~has_upstream_cells(map, s)
                           => ~Reaches(map, s, cell)
  PROVE  \E w \in Cell : Onward(map, cell) = {w} /\ Reaches(map, w, cell)
<1> DEFINE U == {a \in Cell : ~is_nodata(map, a) /\ Reaches(map, a, cell)}
           Upstream(a) == {b \in Cell : FlowsInto(map, b, a) /\ b # a}
           p == [a \in U |-> CHOOSE b \in Upstream(a) : TRUE]
<1>1. cell \in U
  BY DEF Reaches
<1>2. \A a \in U : Upstream(a) # {}
  <2> SUFFICES ASSUME NEW a \in U, Upstream(a) = {} PROVE FALSE
    OBVIOUS
  <2>1. ~has_upstream_cells(map, a)
    BY DEF has_upstream_cells
  <2> QED  BY <2>1
<1>3. \A a \in U : \A b \in Upstream(a) : b \in U /\ Onward(map, b) = {a}
  <2> SUFFICES ASSUME NEW a \in U, NEW b \in Upstream(a)
               PROVE  b \in U /\ Onward(map, b) = {a}
    OBVIOUS
  <2>1. ~is_nodata(map, b) /\ map.dir[b] # Pit
    BY UpstreamHasData
  <2>2. a \in Onward(map, b)
    BY <2>1 DEF Onward
  <2>3. Onward(map, b) = {a}
    BY <2>2, OnwardSingle
  <2>4. ASSUME NEW S \in SUBSET Cell, b \in S,
               \A d \in S \ {cell} : Onward(map, d) \subseteq S
        PROVE  cell \in S
    <3>1. CASE b = cell
      BY <2>4, <3>1
    <3>2. CASE b # cell
      <4>1. a \in S
        BY <2>3, <2>4, <3>2
      <4> QED  BY <2>4, <4>1 DEF Reaches
    <3> QED  BY <3>1, <3>2
  <2> QED  BY <2>1, <2>3, <2>4 DEF Reaches
<1> HIDE DEF U, Upstream
<1>4. \A a \in U : p[a] \in Upstream(a) /\ p[a] \in U /\ Onward(map, p[a]) = {a}
  <2> SUFFICES ASSUME NEW a \in U PROVE p[a] \in Upstream(a)
    BY <1>3
  <2> QED  BY <1>2
<1>5. p \in Injection(U, U)
  <2>1. p \in [U -> U]
    BY <1>4
  <2>2. \A a, b \in U : p[a] = p[b] => a = b
    BY <1>4
  <2> HIDE DEF p
  <2> QED  BY <2>1, <2>2 DEF Injection, IsInjective
<1>6. IsFiniteSet(U)
  BY CellsFinite, FS_Subset DEF U
<1>7. p \in Surjection(U, U)
  BY <1>5, <1>6, FS_Injection
<1>8. PICK w \in U : p[w] = cell
  BY <1>1, <1>7 DEF Surjection
<1> QED  BY <1>4, <1>8 DEF U

(* A flow that ends in no pit is a loop that comes back to where it        *)
(* started, or something is wrong with a flow from a source as well.       *)
LEMMA BadFlowHasSource ==
  ASSUME NEW map, map.nodata \notin 1 .. 9 \ {Pit},
         NEW cell \in Cell, ~is_nodata(map, cell), ~Drains(map, cell),
         \A s \in Cell : ~is_nodata(map, s) /\ ~has_upstream_cells(map, s) => Drains(map, s)
  PROVE  \E n \in 1 .. Rows * Cols : cell \in Course(map, cell)[n]
<1>1. ASSUME NEW s \in Cell, ~is_nodata(map, s), ~has_upstream_cells(map, s)
      PROVE  ~Reaches(map, s, cell)
  BY <1>1, UpstreamOfTrapped
<1>9. PICK w \in Cell : Onward(map, cell) = {w} /\ Reaches(map, w, cell)
  BY <1>1, SourceOrLoop
<1>10. PICK seen, c : /\ OnTheWay(map, cell, seen, c)
                      /\ Onward(map, c) \subseteq seen \cup {c}
                      /\ \A b \in seen : cell \notin Onward(map, b)
  BY WholeWay
<1>11. /\ c \in Cell /\ seen \subseteq Cell /\ c \notin seen /\ cell \in seen \cup {c}
       /\ \A b \in seen \cup {c} : Onward(map, b) \subseteq seen \cup {c}
  BY <1>10 DEF OnTheWay
<1>12. cell \in Onward(map, c)
  <2> SUFFICES ASSUME cell \notin Onward(map, c) PROVE FALSE
    OBVIOUS
  <2> DEFINE S == (seen \cup {c}) \ {cell}
  <2>1. S \in SUBSET Cell /\ w \in S
    BY <1>9, <1>10, <1>11
  <2>2. \A d \in S \ {cell} : Onward(map, d) \subseteq S
    BY <1>10, <1>11
  <2> HIDE DEF S
  <2>3. cell \in S
    BY <1>9, <2>1, <2>2 DEF Reaches
  <2> QED  BY <2>3 DEF S
<1>13. /\ Cardinality(seen) + 1 \in 1 .. Rows * Cols
       /\ Cardinality(seen) \in 0 .. Rows * Cols
  BY <1>11, SeenBound
<1>14. cell \in Course(map, cell)[Cardinality(seen) + 1]
  <2> DEFINE k == Cardinality(seen)
             N == Rows * Cols
             at == Course(map, cell)
  <2>1. at[k] = {c}
    BY <1>10 DEF OnTheWay
  <2>2. \A n \in 1 .. N : at[n] = UNION {Onward(map, b) : b \in at[n - 1]}
    BY CourseDef
  <2>3. k + 1 \in 1 .. N /\ (k + 1) - 1 = k
    BY <1>13
  <2> HIDE DEF k, N, at
  <2>4. at[k + 1] = UNION {Onward(map, b) : b \in {c}}
    BY <2>1, <2>2, <2>3
  <2>5. cell \in at[k + 1]
    BY <1>12, <2>4
  <2> QED  BY <2>5 DEF at, k
<1> QED  BY <1>13, <1>14

(* Water drains exactly where the water of the next cell does.             *)
LEMMA DrainsThrough ==
  ASSUME NEW map, NEW a \in Cell, NEW b \in Onward(map, a)
  PROVE  b \in Cell /\ (Drains(map, a) <=> Drains(map, b))
<1>1. b \in Cell /\ map.dir[a] # Pit /\ Onward(map, a) = {b}
  BY OnwardSingle
<1>2. ASSUME ~Drains(map, b) PROVE ~Drains(map, a)
  <2>1. Reaches(map, a, b)
    BY <1>1 DEF Reaches
  <2> QED  BY <1>1, <1>2, <2>1, UpstreamOfTrapped
<1>3. ASSUME ~Drains(map, a) PROVE ~Drains(map, b)
  <2>1. PICK seen, c : /\ OnTheWay(map, a, seen, c)
                       /\ Onward(map, c) \subseteq seen \cup {c}
                       /\ \A d \in seen : a \notin Onward(map, d)
    BY WholeWay
  <2>2. map.dir[c] # Pit
    BY <1>3, <2>1, WayEndsInPit
  <2>3. /\ seen \cup {c} \in SUBSET Cell /\ a \in seen \cup {c}
        /\ \A d \in seen \cup {c} : map.dir[d] # Pit /\ Onward(map, d) \subseteq seen \cup {c}
    BY <2>1, <2>2 DEF OnTheWay
  <2>4. b \in seen \cup {c}
    BY <2>3
  <2> QED  BY <1>1, <2>3, <2>4, TrappedNeverDrains
<1> QED  BY <1>1, <1>2, <1>3

LEMMA PitsDrain ==
  ASSUME NEW map, NEW c \in Cell, map.dir[c] = Pit
  PROVE  Drains(map, c)
<1>1. 0 \in 0 .. Rows * Cols
  BY GridAssumption
<1>2. c \in Course(map, c)[0]
  BY CourseDef
<1> QED  BY <1>1, <1>2 DEF Drains

LEMMA DrainsOnward ==
  ASSUME NEW map, NEW c \in Cell, Drains(map, c), map.dir[c] # Pit
  PROVE  \E d \in Onward(map, c) : TRUE
<1> SUFFICES ASSUME Onward(map, c) = {} PROVE FALSE
  OBVIOUS
<1>1. {c} \in SUBSET Cell /\ \A b \in {c} : map.dir[b] # Pit /\ Onward(map, b) \subseteq {c}
  OBVIOUS
<1> QED  BY <1>1, TrappedNeverDrains

LEMMA SameFunction ==
  ASSUME NEW D, NEW R, NEW f \in [D -> R], NEW g \in [D -> R], \A x \in D : f[x] = g[x]
  PROVE  f = g
OBVIOUS

(* Maps that agree on the cells water passes send it the same way.         *)
LEMMA CourseSame ==
  ASSUME NEW map, NEW other, NEW S \in SUBSET Cell, NEW c \in S,
         \A b \in S : Onward(map, b) \subseteq S /\ Onward(other, b) = Onward(map, b)
  PROVE  Course(other, c) = Course(map, c)
<1> DEFINE N == Rows * Cols
           at == Course(map, c)
           to == Course(other, c)
           Bad == {n \in Nat : n <= N /\ ~(at[n] \subseteq S /\ to[n] = at[n])}
<1>1. N \in Nat /\ c \in Cell
  BY GridAssumption
<1>2. /\ at \in [0 .. N -> SUBSET Cell] /\ to \in [0 .. N -> SUBSET Cell]
      /\ at[0] = {c} /\ to[0] = {c}
      /\ \A n \in 1 .. N : /\ at[n] = UNION {Onward(map, b) : b \in at[n - 1]}
                           /\ to[n] = UNION {Onward(other, b) : b \in to[n - 1]}
  BY <1>1, CourseDef
<1> HIDE DEF N, at, to
<1>3. Bad = {}
  <2> SUFFICES ASSUME Bad # {} PROVE FALSE
    OBVIOUS
  <2>1. PICK k \in Bad : \A j \in Bad : k <= j
    <3>1. Bad \in SUBSET Nat
      OBVIOUS
    <3> HIDE DEF Bad
    <3> QED  BY <3>1, LeastNatural
  <2>2. k \in Nat /\ k <= N /\ ~(at[k] \subseteq S /\ to[k] = at[k])
    BY <2>1
  <2>3. k # 0
    BY <1>2, <2>2
  <2>4. k - 1 \in Nat /\ k - 1 <= N /\ k \in 1 .. N /\ ~(k <= k - 1)
    BY <1>1, <2>2, <2>3
  <2>5. at[k - 1] \subseteq S /\ to[k - 1] = at[k - 1]
    BY <2>1, <2>4
  <2>6. at[k] \subseteq S /\ to[k] = at[k]
    <3>1. at[k] = UNION {Onward(map, b) : b \in at[k - 1]}
      BY <1>2, <2>4
    <3>2. to[k] = UNION {Onward(other, b) : b \in at[k - 1]}
      BY <1>2, <2>4, <2>5
    <3>3. \A b \in at[k - 1] : Onward(map, b) \subseteq S /\ Onward(other, b) = Onward(map, b)
      BY <2>5
    <3> QED  BY <3>1, <3>2, <3>3
  <2> QED  BY <2>2, <2>6
<1>4. \A n \in 0 .. N : to[n] = at[n]
  BY <1>1, <1>3
<1>5. to = at
  <2>1. PICK D, R : D = 0 .. N /\ R = SUBSET Cell
    OBVIOUS
  <2>2. to \in [D -> R] /\ at \in [D -> R]
    BY <1>2, <2>1
  <2>3. \A x \in D : to[x] = at[x]
    BY <1>4, <2>1
  <2> QED  BY <2>2, <2>3, SameFunction
<1> QED  BY <1>5 DEF at, to

\* The values of finitely many cells are finitely many.
LEMMA FiniteImages ==
    ASSUME NEW S, IsFiniteSet(S), NEW f
    PROVE  IsFiniteSet({f[x] : x \in S})
<1> DEFINE T == {f[x] : x \in S}
           h == [x \in S |-> f[x]]
<1>1. h \in [S -> T] /\ \A y \in T : \E x \in S : h[x] = y
  OBVIOUS
<1> HIDE DEF T, h
<1>2. h \in Surjection(S, T)
  BY <1>1 DEF Surjection
<1>3. IsFiniteSet(T)
  BY <1>2, FS_Surjection
<1> QED BY <1>3 DEF T

\* A finite set of numbers has a largest and a smallest.
LEMMA FiniteExtremes ==
    ASSUME NEW S \in SUBSET Int, IsFiniteSet(S), S # {}
    PROVE  /\ Max(S) \in S /\ \A y \in S : Max(S) >= y
           /\ Min(S) \in S /\ \A y \in S : Min(S) <= y
<1> DEFINE Off == {part \in SUBSET S :
                     /\ part # {}
                     /\ \/ \A x \in part : \E y \in part : ~(x >= y)
                        \/ \A x \in part : \E y \in part : ~(x <= y)}
<1>1. Off = {}
  <2> SUFFICES ASSUME Off # {} PROVE FALSE
    OBVIOUS
  <2>1. PICK part \in Off : \A x \in part : part \ {x} \notin Off
    <3>1. Off \in SUBSET (SUBSET S)
      OBVIOUS
    <3> HIDE DEF Off
    <3> QED BY <3>1, MinimalSet
  <2>2. /\ part \in SUBSET S /\ part # {}
        /\ \/ \A x \in part : \E y \in part : ~(x >= y)
           \/ \A x \in part : \E y \in part : ~(x <= y)
    OBVIOUS
  <2>3. PICK x \in part : TRUE
    BY <2>2
  <2> DEFINE rest == part \ {x}
  <2>4. rest \in SUBSET S /\ rest \notin Off /\ x \in Int /\ \A y \in part : y \in Int /\ (y = x \/ y \in rest)
    BY <2>1, <2>2
  <2>5. rest = {} => FALSE
    BY <2>2, <2>4
  <2>6. PICK a \in rest, b \in rest : \A y \in rest : a >= y /\ b <= y
    BY <2>4, <2>5
  <2>7. a \in part /\ b \in part
    OBVIOUS
  <2> HIDE DEF rest, Off
  <2>8. \E z \in part : \A y \in part : z >= y
    <3>1. CASE a >= x
      BY <2>4, <2>6, <2>7, <3>1
    <3>2. CASE ~(a >= x)
      <4>1. \A y \in part : x >= y
        BY <2>4, <2>6, <2>7, <3>2
      <4> QED BY <4>1
    <3> QED BY <3>1, <3>2
  <2>9. \E z \in part : \A y \in part : z <= y
    <3>1. CASE b <= x
      BY <2>4, <2>6, <2>7, <3>1
    <3>2. CASE ~(b <= x)
      <4>1. \A y \in part : x <= y
        BY <2>4, <2>6, <2>7, <3>2
      <4> QED BY <4>1
    <3> QED BY <3>1, <3>2
  <2> QED BY <2>2, <2>8, <2>9
<1>2. /\ \E x \in S : \A y \in S : x >= y
      /\ \E x \in S : \A y \in S : x <= y
  BY <1>1
<1>3. Max(S) \in S /\ \A y \in S : Max(S) >= y
  BY <1>2 DEF Max
<1>4. Min(S) \in S /\ \A y \in S : Min(S) <= y
  BY <1>2 DEF Min
<1> QED BY <1>3, <1>4
=============================================================================
