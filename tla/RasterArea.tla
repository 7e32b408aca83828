----------------------------- MODULE RasterArea -----------------------------
(***************************************************************************)
(* The window over a part of a raster (core/include/gdx/rasterarea.h) and  *)
(* the RasterIterator that walks it (common/include/gdx/rasteriterator.h). *)
(* The iterator is a pointer into the elements of the raster, here their   *)
(* offset, that jumps from the end of a row of the window to the next and  *)
(* passes over the cells that a filter on values or on locations excludes. *)
(* It looks at an element before it knows whether the filters keep it.     *)
(***************************************************************************)
EXTENDS Grid

CONSTANTS
    Calls,          \* the windows asked for, see CallType
    Null            \* the pointer of an invalid iterator

ASSUME AreaAssumption == Null \notin Int

\* A window around a cell, a rectangle, or the whole raster.
AroundCell == {"cells_square", "neighbouring_cells_square",
           "cells_circular", "neighbouring_cells_circular"}
Rectangles == {"sub_area", "sub_area_values"}

CallType ==
    [op : AroundCell, center : Cell, radius : Nat, missing : SUBSET Cell]
    \cup [op : Rectangles, topLeft : Int \X Int, rows : Nat, cols : Nat, missing : SUBSET Cell]
    \cup [op : {"value_begin"}, missing : SUBSET Cell]

ASSUME CallsAssumption == Calls \subseteq CallType

VARIABLES
    request,
    current,            \* the offset of the element, or Null at the end
    currentColOffset,   \* in the row of the window
    stage,              \* "skip" in skip_values, "rest" between two calls
    visited             \* the offsets handed to the user

areaVars == <<request, current, currentColOffset, stage, visited>>

-----------------------------------------------------------------------------
(* clip_area_to_raster *)

Least(a, b) == IF a < b THEN a ELSE b
Most(a, b) == IF a > b THEN a ELSE b

\* Mutant: a window that reaches one row or column too far is not cut.
ClippedSideLate(at, radius, n) ==
    radius * 2 + 1
    + (IF at - radius < 0 THEN at - radius ELSE 0)
    - (IF at + radius > n THEN at + radius - n + 1 ELSE 0)

\* What a window of size 2 * radius + 1 loses on either side.
ClippedSide(at, radius, n) ==
    radius * 2 + 1
    + (IF at - radius < 0 THEN at - radius ELSE 0)
    - (IF at + radius >= n THEN at + radius - n + 1 ELSE 0)

ClipAround(center, radius) ==
    [top  |-> Most(0, center[1] - radius),
     left |-> Most(0, center[2] - radius),
     rows |-> ClippedSide(center[1], radius, Rows),
     cols |-> ClippedSide(center[2], radius, Cols)]

\* The extent from a first row or column that may be outside.
ClipExtent(first, count, n) ==
    Least(IF first < 0 THEN count + first ELSE count, n - Most(0, first))

ClipRectangle(topLeft, rows, cols) ==
    [top  |-> Most(0, topLeft[1]),
     left |-> Most(0, topLeft[2]),
     rows |-> ClipExtent(topLeft[1], rows, Rows),
     cols |-> ClipExtent(topLeft[2], cols, Cols)]

Window(c) ==
    CASE c.op \in AroundCell -> ClipAround(c.center, c.radius)
      [] c.op \in Rectangles -> ClipRectangle(c.topLeft, c.rows, c.cols)
      [] OTHER -> [top |-> 0, left |-> 0, rows |-> Rows, cols |-> Cols]

\* The pointer to a window that was clipped away remains nullptr.
Begin(w) == IF w.rows > 0 /\ w.cols > 0 THEN w.top * Cols + w.left ELSE Null

-----------------------------------------------------------------------------
(* Filters *)

CellAt(offset) == <<offset \div Cols, offset % Cols>>

Squared(x) == x * x

\* distance(cell, center) > radius
Outside(cell, center, radius) ==
    Squared(cell[1] - center[1]) + Squared(cell[2] - center[2]) > Squared(radius)

ExcludesLocation(c, cell) ==
    \/ c.op \in {"cells_circular", "neighbouring_cells_circular"} /\ Outside(cell, c.center, c.radius)
    \/ c.op \in {"neighbouring_cells_square", "neighbouring_cells_circular"} /\ cell = c.center

\* sub_area has no filter, not even for nodata.
ExcludesValue(c, cell) == c.op # "sub_area" /\ cell \in c.missing

Excludes(c, cell) == ExcludesValue(c, cell) \/ ExcludesLocation(c, cell)

-----------------------------------------------------------------------------
(* RasterIterator *)

AreaInit ==
    /\ request \in Calls
    /\ current = Begin(Window(request))
    /\ currentColOffset = 0
    /\ stage = "skip"
    /\ visited = <<>>

\* Mutant: the column goes on being counted in the next row.
IncrementUncounted ==
    LET w == Window(request)
        narrow == w.cols # Cols
        next == current + (IF narrow /\ currentColOffset + 1 >= w.cols THEN Cols - w.cols ELSE 0) + 1
    IN  /\ current' = IF next >= Begin(w) + (w.rows - 1) * Cols + w.cols THEN Null ELSE next
        /\ currentColOffset' = IF narrow THEN currentColOffset + 1 ELSE currentColOffset

\* The column is counted in a window narrower than the raster only.
Increment ==
    LET w == Window(request)
        narrow == w.cols # Cols
        endOfRow == narrow /\ currentColOffset + 1 >= w.cols
        next == current + (IF endOfRow THEN Cols - w.cols ELSE 0) + 1
        end == Begin(w) + (w.rows - 1) * Cols + w.cols
    IN  /\ current' = IF next >= end THEN Null ELSE next
        /\ currentColOffset' = CASE ~narrow -> currentColOffset
                                 [] endOfRow -> 0
                                 [] OTHER -> currentColOffset + 1

\* Mutant: the loop looks at the same element again.
SkipNothing == /\ stage = "skip" /\ current # Null
               /\ Excludes(request, CellAt(current))
               /\ UNCHANGED areaVars

\* One turn of the loop of skip_values
Skip == /\ stage = "skip" /\ current # Null
        /\ Excludes(request, CellAt(current))
        /\ Increment
        /\ UNCHANGED <<request, stage, visited>>

\* The iterator is at an element that no filter excludes, or at the end.
Stop == /\ stage = "skip"
        /\ current # Null => ~Excludes(request, CellAt(current))
        /\ stage' = "rest"
        /\ visited' = IF current = Null THEN visited ELSE Append(visited, current)
        /\ UNCHANGED <<request, current, currentColOffset>>

\* operator++ by the user, as long as the iterator is not at end()
Advance == /\ stage = "rest" /\ current # Null
           /\ Increment
           /\ stage' = "skip"
           /\ UNCHANGED <<request, visited>>

AreaNext == Skip \/ Stop \/ Advance

\* The user goes on to the end of the window.
AreaSpec == AreaInit /\ [][AreaNext]_areaVars /\ WF_areaVars(AreaNext)

-----------------------------------------------------------------------------
(* Properties *)

\* What the name of the call promises, by a definition of its own.
Promises(c, cell) ==
    LET dr == cell[1] - c.center[1]
        dc == cell[2] - c.center[2]
    IN  CASE c.op \in {"cells_square", "neighbouring_cells_square"}
                -> /\ dr \in -c.radius .. c.radius /\ dc \in -c.radius .. c.radius
                   /\ c.op = "cells_square" \/ cell # c.center
                   /\ cell \notin c.missing
          [] c.op \in {"cells_circular", "neighbouring_cells_circular"}
                -> /\ dr * dr + dc * dc <= c.radius * c.radius
                   /\ c.op = "cells_circular" \/ cell # c.center
                   /\ cell \notin c.missing
          [] c.op \in Rectangles
                -> /\ cell[1] \in c.topLeft[1] .. c.topLeft[1] + c.rows - 1
                   /\ cell[2] \in c.topLeft[2] .. c.topLeft[2] + c.cols - 1
                   /\ c.op = "sub_area" \/ cell \notin c.missing
          [] OTHER -> cell \notin c.missing

Promised(c) == {cell \in Cell : Promises(c, cell)}

\* Whenever a pointer is looked at, in the loop of skip_values too, it points to
\* a cell of the window that is a cell of the raster: neither the rows of the
\* window nor those of the raster are run over, whatever is cut off.
InsideWindow ==
    current # Null =>
        LET w == Window(request)
        IN  \E row \in 0 .. w.rows - 1, col \in 0 .. w.cols - 1 :
                /\ current = (w.top + row) * Cols + w.left + col
                /\ <<w.top + row, w.left + col>> \in Cell

\* At the end every cell that was promised has been visited once, row by row,
\* and no other cell.
VisitsExactly ==
    stage = "rest" /\ current = Null =>
        /\ {CellAt(visited[k]) : k \in DOMAIN visited} = Promised(request)
        /\ \A k \in DOMAIN visited \ {1} : visited[k - 1] < visited[k]

\* Every walk over a window ends.
Terminates == <>(stage = "rest" /\ current = Null)
=============================================================================
