---------------------------- MODULE MCLddUpstream ----------------------------
(***************************************************************************)
(* Drain maps on a 2 x 3 grid: every map whose flows stay inside, and      *)
(* snakes with one cell altered, where frictions are 1 and 2, with a 6 and *)
(* an unknown one anywhere, and stations are at any two cells.             *)
(***************************************************************************)
EXTENDS LddUpstream

Inside(c) == {d \in 1 .. 9 : getNeighbour(d, c) \in Cell}

\* Every map whose flows stay inside.
Closed ==
  {[c \in Cell |-> d[c[1] * Cols + c[2] + 1]] :
     d \in Inside(<<0, 0>>) \X Inside(<<0, 1>>) \X Inside(<<0, 2>>)
             \X Inside(<<1, 0>>) \X Inside(<<1, 1>>) \X Inside(<<1, 2>>)}

Snakes == {[c \in Cell |-> CASE c[1] = 0 /\ c[2] < 2 -> 6
                             [] c = <<0, 2>> -> 2
                             [] c[1] = 1 /\ c[2] > 0 -> 4
                             [] OTHER -> 5],
           [c \in Cell |-> CASE c[1] = 0 -> 3 - c[2]
                             [] c = <<1, 1>> -> 5
                             [] c = <<1, 0>> -> 6
                             [] OTHER -> 4]}

Altered == {[s EXCEPT ![c] = b] : s \in Snakes, c \in Cell, b \in 0 .. 9}

\* nodata is no direction; where it is not zero, a cell may hold a zero.
Ldds(dirs) == [dir : dirs, nodata : {0}]

AlteredLdds ==
  Ldds(Altered)
  \cup [dir : {[s EXCEPT ![c] = b] : s \in Snakes, c \in Cell, b \in {0, 255}}, nodata : {255}]

Friction == [c \in Cell |-> 1 + (c[2] % 2)]

Zero == [c \in Cell |-> 0]

MCCalls ==
  [op : {"slope_length"}, ldd : Ldds(Closed), layer : {Friction}]
  \cup [op : {"slope_length"}, ldd : AlteredLdds,
        layer : {[[Friction EXCEPT ![a] = NoData] EXCEPT ![b] = 6] : a, b \in Cell}]
  \cup [op : {"catchment"}, ldd : Ldds(Closed), layer : {[Zero EXCEPT ![<<1, 1>>] = 7]}]
  \cup [op : {"catchment"}, ldd : AlteredLdds,
        layer : {[[Zero EXCEPT ![a] = 7] EXCEPT ![b] = id] :
                   a, b \in Cell, id \in {8, NoData}}]
=============================================================================
