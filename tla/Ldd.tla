--------------------------------- MODULE Ldd ---------------------------------
(***************************************************************************)
(* Local drain direction maps (accuflux.h): every cell holds a byte whose  *)
(* values 1 to 9, laid out as on a numeric keypad, name the neighbour the  *)
(* cell drains into.  5 is a pit, 0 and the values above 9 are unsound.    *)
(* A map is a record with the bytes and the byte that stands for nodata.   *)
(***************************************************************************)
EXTENDS Grid, FiniteSets

Byte == 0 .. 255

LddMap == [dir : [Cell -> Byte], nodata : Byte]

Pit == 5

is_nodata(ldd, cell) == ldd.dir[cell] = ldd.nodata

(* <<row, column>> offsets; the directions 0 and 5 stay where they are.    *)
lookupOffsets ==
  [dir \in 0 .. 9 |-> IF dir = 0 THEN <<0, 0>>
                      ELSE <<1 - ((dir - 1) \div 3), ((dir - 1) % 3) - 1>>]

getNeighbour(dir, cell) ==
  <<cell[1] + lookupOffsets[dir][1], cell[2] + lookupOffsets[dir][2]>>

\* The callers compare with 9 first; a larger value would read past the table.
InTable(dir) == dir \in DOMAIN lookupOffsets

FlowsInto(ldd, from, to) ==
  InTable(ldd.dir[from]) /\ getNeighbour(ldd.dir[from], from) = to

(* visit_neighbouring_upstream_cells finds something. *)
has_upstream_cells(ldd, cell) ==
  \E n \in Cell \ {cell} : FlowsInto(ldd, n, cell)

(* The cell, if any, to which water in a cell that is not nodata moves on. *)
Onward(ldd, cell) ==
  IF ldd.dir[cell] = Pit THEN {}
  ELSE {to \in Cell : FlowsInto(ldd, cell, to) /\ ~is_nodata(ldd, to)}

(* Where water from the cell is after n steps. *)
Course(ldd, cell) ==
  LET at[n \in 0 .. Rows * Cols] ==
        IF n = 0 THEN {cell} ELSE UNION {Onward(ldd, c) : c \in at[n - 1]}
  IN  at

(* Water from the cell ends in a pit: it meets no loop, no unsound value,  *)
(* no nodata and not the edge of the map.                                  *)
Drains(ldd, cell) ==
  \E n \in 0 .. Rows * Cols : \E c \in Course(ldd, cell)[n] : ldd.dir[c] = Pit

DataCells(ldd) == {c \in Cell : ~is_nodata(ldd, c)}
=============================================================================
