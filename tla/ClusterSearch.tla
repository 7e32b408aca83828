----------------------------- MODULE ClusterSearch -----------------------------
(***************************************************************************)
(* What the functions of clusterid.h and clustersize.h have in common: two *)
(* nested loops over the cells of a raster, from which they search for the *)
(* other cells of a cluster, breadth first.  The border is a FiLo, of      *)
(* which only the behaviour BoundedFifo describes matters here.            *)
(***************************************************************************)
EXTENDS Grid

CONSTANTS NoData,   \* what is_nodata recognises
          Unset     \* the content of result before anything is written

Todo == "todo"          \* s_markTodo
InBorderUnmarked == Todo  \* Mutant: a cell on the border can still be taken.
InBorder == "border"    \* s_markBorder
Done == "done"          \* s_markDone

VARIABLES cursor,       \* (r, c) of the loops
          cell,         \* the cell last taken off the border
          neighbours,   \* its neighbours still to be visited
          mark, border, clusterId, result,
          thrown        \* the border overflowed

Fifo == INSTANCE BoundedFifo
          WITH queue <- border, popped <- cell, Elem <- Cell,
               Blank <- FirstCell, Capacity <- Rows * Cols
=============================================================================
