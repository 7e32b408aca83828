------------------------------- MODULE MCLddFix -------------------------------
(***************************************************************************)
(* Drain maps on a 2 x 3 grid: every map whose flows stay inside, and      *)
(* snakes through all cells with two cells altered by any byte.            *)
(***************************************************************************)
EXTENDS LddFix

Inside(c) == {d \in 1 .. 9 : getNeighbour(d, c) \in Cell}

\* Every map whose flows stay inside.
Closed ==
  {[c \in Cell |-> d[c[1] * Cols + c[2] + 1]] :
     d \in Inside(<<0, 0>>) \X Inside(<<0, 1>>) \X Inside(<<0, 2>>)
             \X Inside(<<1, 0>>) \X Inside(<<1, 1>>) \X Inside(<<1, 2>>)}

Snakes == {[c \in Cell |-> CASE c[1] = 0 /\ c[2] < 2 -> 6
                             [] c = <<0, 2>> -> 2
                             [] c[1] = 1 /\ c[2] > 0 -> 4
                             [] OTHER -> 5],
           [c \in Cell |-> CASE c[1] = 0 -> 3 - c[2]
                             [] c = <<1, 1>> -> 5
                             [] c = <<1, 0>> -> 6
                             [] OTHER -> 4]}

\* 255 is nodata in some of the maps, and an unsound value in the others.
Altered == {[[s EXCEPT ![a] = d] EXCEPT ![b] = e] :
              s \in Snakes, a, b \in Cell, d, e \in {0, 1, 2, 4, 6, 8, 255}}

\* Their only faults are loops, and every byte can be looked up.
ClosedMaps == [dir : Closed, nodata : {0}]

MCMaps == ClosedMaps \cup [dir : Altered, nodata : {0, 255}]
=============================================================================
