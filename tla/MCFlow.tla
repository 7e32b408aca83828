------------------------------- MODULE MCFlow -------------------------------
(***************************************************************************)
(* Drain maps on a 2 x 3 grid, where flows take up to five steps, join and *)
(* run in loops.  Freights, fractions and frictions are chosen so that     *)
(* sums and products tell which cells went into them.                      *)
(***************************************************************************)
EXTENDS Flow

Inside(c) == {d \in 1 .. 9 : getNeighbour(d, c) \in Cell}

\* Every map whose flows stay inside.
Closed ==
  {[c \in Cell |-> d[c[1] * Cols + c[2] + 1]] :
     d \in Inside(<<0, 0>>) \X Inside(<<0, 1>>) \X Inside(<<0, 2>>)
             \X Inside(<<1, 0>>) \X Inside(<<1, 1>>) \X Inside(<<1, 2>>)}

\* One flow through all cells, from either end.
Snakes == {[c \in Cell |-> CASE c[1] = 0 /\ c[2] < 2 -> 6
                             [] c = <<0, 2>> -> 2
                             [] c[1] = 1 /\ c[2] > 0 -> 4
                             [] OTHER -> 5],
           [c \in Cell |-> CASE c[1] = 1 /\ c[2] < 2 -> 6
                             [] c = <<1, 2>> -> 8
                             [] c[1] = 0 /\ c[2] > 0 -> 4
                             [] OTHER -> 5],
           [c \in Cell |-> CASE c[1] = 0 -> 3 - c[2]
                             [] c = <<1, 1>> -> 5
                             [] c = <<1, 0>> -> 6
                             [] OTHER -> 4]}

\* One cell of them altered, by any byte: a loop, a flow out of the map, a
\* second pit, nodata or an unsound value.
Altered == {[s EXCEPT ![c] = b] : s \in Snakes, c \in Cell, b \in 0 .. 10}

Ldds(dirs, nodata) == [dir : dirs, nodata : nodata]

Zero == [c \in Cell |-> 0]

Freight == [c \in Cell |-> 7 ^ (c[1] * Cols + c[2])]

\* Most of each fraction or friction is 1 or 2; one cell may be unknown.
Factor == [c \in Cell |-> 1 + (c[2] % 2)]

WithNoData(f) == {f} \cup {[f EXCEPT ![c] = NoData] : c \in {<<0, 1>>, <<1, 1>>}}

\* No station, one anywhere, or one with the id 1 and another cell.
Stations == {Zero} \cup {[[Zero EXCEPT ![a] = 1] EXCEPT ![b] = id] :
                           a \in {<<0, 0>>, <<1, 1>>}, b \in Cell, id \in {1, 2, NoData}}

Accumulating ==
  [op : {"accuflux"}, storage : {"dense"},
   ldd : Ldds(Closed, {0}) \cup Ldds(Altered, {0, 255}),
   freight : {Freight}, factor : {Zero}, station : {Zero}]

Distances ==
  [op : {"max_upstream_dist"}, storage : {"dense", "masked"},
   ldd : Ldds(Closed \cup Altered, {0}),
   freight : {Zero}, factor : {Zero}, station : {Zero}]

Fractions ==
  [op : {"accufractionflux"}, storage : {"dense"}, ldd : Ldds(Altered, {0, 255}),
   freight : WithNoData(Freight), factor : WithNoData(Factor), station : {Zero}]

ToStations ==
  [op : {"flux_origin", "ldd_cluster", "ldd_dist"}, storage : {"dense"},
   ldd : Ldds(Altered, {0}), freight : {Freight},
   factor : {Factor, [Factor EXCEPT ![<<1, 1>>] = NoData]}, station : Stations]

MCCalls == Accumulating \cup Distances \cup Fractions \cup ToStations
=============================================================================
