--------------------------- MODULE MCLddValidate ---------------------------
(***************************************************************************)
(* A 2 x 2 map and two threads.  Every cell drains into any of the others, *)
(* is a pit or one of them is unsound: nodata, above 9, or off the map.    *)
(* The cells <<0, 1>> and <<1, 0>>, in the rows of two threads, can both   *)
(* flow into a loop of the other two.                                      *)
(***************************************************************************)
EXTENDS LddValidate

Inside(c) == {d \in 1 .. 9 : getNeighbour(d, c) \in Cell}

Dirs(a, b, c, d) ==
  {[cell \in Cell |-> CASE cell = <<0, 0>> -> f[1] [] cell = <<0, 1>> -> f[2]
                        [] cell = <<1, 0>> -> f[3] [] OTHER -> f[4]] :
     f \in a \X b \X c \X d}

In00 == Inside(<<0, 0>>)
In01 == Inside(<<0, 1>>)
In10 == Inside(<<1, 0>>)
In11 == Inside(<<1, 1>>)
Bad == {0, 8, 10}

MCLdds ==
  [dir : Dirs(In00, In01, In10, In11)
           \cup Dirs(Bad, In01, In10, In11)
           \cup Dirs(In00, In01, In10, Bad \cup {3})
           \cup Dirs(Bad, In01, In10, {10, 3}),
   nodata : {0, 255}]
=============================================================================
