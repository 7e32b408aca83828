---------------------------- MODULE MCRasterArea ----------------------------
(***************************************************************************)
(* Windows on a raster of 3 x 4: around every cell with a radius that cuts *)
(* off none, one or both sides, every rectangle that starts up to two      *)
(* cells outside, and the whole raster; nodata nowhere, at the ends of     *)
(* rows, in a whole row, in every other cell, and everywhere.  Elements of  *)
(* the images: equal, all different, and of both signs.                    *)
(***************************************************************************)
EXTENDS WindowFilters

Missing == {{}, {<<0, 0>>, <<0, 3>>, <<2, 3>>}, {<<1, 1>>},
            {c \in Cell : c[1] = 1}, {c \in Cell : (c[1] + c[2]) % 2 = 0}, Cell}

MCCalls ==
    [op : AroundCell, center : Cell, radius : 0 .. 3, missing : Missing]
    \cup [op : Rectangles, topLeft : (-2 .. 4) \X (-2 .. 5), rows : 0 .. 4, cols : 0 .. 5,
          missing : {{}, {<<1, 1>>}}]
    \cup [op : {"value_begin"}, missing : SUBSET Cell]

MCImages == {[c \in Cell |-> 1], [c \in Cell |-> c[1] * Cols + c[2]],
             [c \in Cell |-> IF (c[1] + c[2]) % 2 = 0 THEN 1 ELSE -1],
             [c \in Cell |-> ((3 * c[1] + c[2]) % 4) - 1]}
=============================================================================
