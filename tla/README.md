# GeoDynamiX: specifications, model checking and proofs

TLA+ modules for the rasters and the raster algorithms of GeoDynamiX (gdx),
the TLC runs that check them on small rasters, and proofs checked by TLAPS.
Paths below are relative to the repository's `src/`; `algo/` is
`algorithms/include/gdx/algo/`, `core/` is `core/include/gdx/`.

## 1. The system

gdx is a library of raster algorithms in C++, with bindings for Python and
JavaScript. A raster is a grid of cells that hold a number or nodata. Most
calls are sequential: a function takes rasters, walks over the cells in
row-major order and returns a new raster. What makes the code hard is, in most
places, not concurrency but the *order* in which a scan, a queue and callbacks
touch several rasters at once, and that *nodata* is stored in three ways. Where
OpenMP or the parallel STL is switched on, loops over rows or polygons share
state between threads.

| Part | Files | State | Operations | What makes it correct |
|---|---|---|---|---|
| Raster storage | `core/denseraster.h`, `core/maskedraster.h`, `core/raster.h` | elements, mask, number for nodata | marking, filling, replacing, arithmetic in place, casts, writing and reading | one map from cells to optional numbers, whatever the storage |
| Operators, comparison | the same, `core/nodatapredicates-private.h`, `core/rastercompare.h`, `core/rasterdiff.h` | none | arithmetic, predicates, comparison with a tolerance, reports | nodata makes nodata, and nothing else does |
| Views, iterators | `core/rasterarea.h`, `common/include/gdx/rasteriterator.h` | a pointer, a column | windows around cells, rectangles, filters on values and places | every cell of the window once, never a cell outside of the raster |
| Grid | `algo/clusterutils.h` | none | visit_neighbour_cells, visit_neighbour_diag_cells | exactly the neighbours on the map are visited |
| FiLo queue | `algo/clusterutils.h` | ring buffer, head, tail | push_back, pop_head, clear, size, empty | it is a bounded fifo; overflow throws |
| Clusters | `algo/clusterid.h`, `algo/clustersize.h` | marks, border queue, cells of the cluster, id, result | cluster_id, cluster_size, cluster_sum, the fuzzy and obstacle variants | the clusters are the connected groups, each found once, counted exactly |
| Distances | `algo/distance.h`, `algo/distancedecay.h` | distances, marks, border queue, values carried along; scratch rasters reused between calls | eleven functions over one relaxation scheme | shortest paths; the value belongs to the nearest target; the search ends |
| Flow | `algo/accuflux.h`, `algorithms/accuflux.cpp` | the cells traversed, what the callback accumulates, result | accuflux, accufractionflux, flux_origin, ldd_cluster, ldd_dist, max_upstream_dist, slope_length, catchment | each cell gets what its flow defines, independent of the scan; unsound maps throw |
| Drain map validation and repair | `algo/accuflux.h` | verdict, set of loops, mutex; the map under repair | validate_ldd, fix_ldd | the verdict and the callbacks do not depend on the schedule; what is repaired is sound |
| Buffers and window filters | `algo/suminbuffer.h`, `filter.h`, `majorityfilter.h`, `blurfilter.h`, `voronoi.h` | integral image, previous circle | sum_in_buffer, max_in_buffer, the filters, voronoi | what a definition over the whole window gives |
| Cell by cell algorithms, reclassification | `algo/masking.h`, `conditionals.h`, `nodata.h`, `reclass.h` and others | none | masks, conditions, combinations, statistics, tables | dense, masked and changed rasters are treated alike |
| Zones: categories, tables, distribution, resolutions | `algo/category.h`, `tablerow.h`, `distribute.h`, `weighteddistribution.h`, `dasmap.h`, `multiresolution.h` | totals per zone | gathering from zones and handing out | exact totals; nothing is lost |
| Polygon coverage | `algorithms/polygoncoverage.cpp`, `algo/rasterize.h` | list of coverages, mutex | create_polygon_coverages, rasterize_polygons | border cells are divided over the polygons; the order of the threads does not matter |
| Bindings and tools | `python/`, `js/`, `tools/` | the interpreter lock | conversion of arguments, callbacks | calls return |

How they interact: clusters, distances and the sums within a travel distance
share FiLo and the neighbour visits and pass callbacks to the latter. All
functions of `accuflux.h` that go down the drains share one traversal that
takes a callback, catchment goes up with a stack, slope_length by recursion;
fix_ldd and validate_ldd share the traversal that reports faults to four
callbacks. validate_ldd runs its rows in parallel and hands its user's
callbacks to the threads; from Python these need the interpreter lock. Every
algorithm is a template over the storages, whose treatment of the number behind
nodata differs: a NaN in a dense raster of float, the number itself in one of
integers, whatever lies under the mask in a masked one.

Hard behaviours (each at its line in `PROJECT.json`, "hazards"): cells that
re-enter a queue; two rasters updated in step; sentinels; NaN against masked
nodata; an element and its mask as two records of one thing; a pointer at the
end of a row; sums computed from the sum before; a scan that meets
half-finished results; loops in drain maps; shared verdicts, locks and
barriers; scratch state restored between calls; lookups in the original map
while a copy is being changed; zones without weight.

## 2. Modules

| Module | Models |
|---|---|
| `Grid` | cells, scan order and neighbours |
| `BoundedFifo` | what the searches rely on in a FiLo: an abstract specification |
| `FiLo` | the ring buffer; implements `BoundedFifo` by the mapping `queue <- Queued` |
| `ClusterSearch` | what the cluster functions share: the loops over the cells, the marks, the border; instantiates `BoundedFifo` |
| `Clusters` | cluster_id, cluster_size, cluster_sum |
| `Distance` | the eight functions of `distance.h` that return distances or the value of the closest target; instantiates `BoundedFifo` |
| `TravelSum` | the two sums within a travel distance and node_value_distance_decay; instantiates `BoundedFifo` |
| `ObstacleClusters` | cluster_id_with_obstacles, fuzzy_cluster_id, fuzzy_cluster_id_with_obstacles; its initial states and steps have names of their own (`ObstacleNext`), so that one module can hold the proofs for it and for `Clusters` |
| `Ldd` | drain maps: directions, neighbours, where water goes |
| `Flow` | the six functions over traverse_ldd |
| `LddScan` | what fix_ldd, slope_length and catchment share: the loops over the cells |
| `LddUpstream` | slope_length, with its recursion as a stack of frames, and catchment |
| `LddFix` | fix_ldd; its initial states and steps have names of their own (`RepairNext`), so that one module can hold the proofs for it and for `LddUpstream` |
| `LddValidate` | validate_ldd with threads, mutex, callbacks and interpreter lock |
| `Elements` | the functions of one or two elements the operators are made of, at their width |
| `OptionalRaster` | a row of optional numbers, and what every call does to it: an abstract specification |
| `DenseRaster`, `MaskedRaster` | the members of the two storages, as operators on a record |
| `RasterStorage` | a raster of either storage and the calls that change it; implements `OptionalRaster` by `cells <- Contents(raster)` |
| `RasterOperations` | operators, predicates, comparisons and reports; extends `RasterStorage` |
| `CellAlgorithms` | masks, conditions, replacements, combinations, statistics, normalisation, reclassification |
| `PolygonCoverage` | coverages of polygons, borders between them, and burning them into a raster |
| `Zones` | categories, tables, distribution, weights, resolutions |
| `RasterArea` | windows and the RasterIterator with its filters |
| `WindowFilters` | sums in buffers, filters, majorities, voronoi |
| `MC*` | instances for TLC |
| `GridProofs` | lemmas about cells, neighbours, queues, sums, folds, drain maps and courses, for the proofs below |
| `ClustersProofs` | the theorems on `Clusters` and `ObstacleClusters` |
| `DistanceProofs`, `TravelSumProofs`, `FlowProofs` | the theorems on one component each and their proofs |
| `LddScanProofs` | the theorems on `LddFix` and `LddUpstream` |
| `LoopProofs` | the theorems on loops that say themselves which cell is next: `LddValidate`, whose threads share the rows, `RasterArea` and `WindowFilters` (the last two have initial states and steps with names of their own for that) |
| `ContainerProofs` | the theorems on the storages with what works on them, and on `FiLo` (which has initial states and steps with names of its own for that) |

### Searches and flows

One action is one iteration of a loop or one callback: the body of a scanning
loop (`Scan`, `SeedCell`, `SkipCell`), the start of a search (`StartCluster`,
`BeginCluster`, `EnterFlow`), an element taken off the queue (`Pop`, `TakeCell`),
the callback for one neighbour (`HandleCell`, `TryNeighbour`) or one step downstream (`FollowFlow` with one operator
per callback, named like the C++ function). Local variables of the C++
functions are variables of the module under the same name; `pc` says which loop
runs and `cursor` holds its `(r, c)`. The arguments of a call are chosen in
`Init` and never change. Functions that differ in a few lines are one module
with a variable or field `op`. Exceptions end the behaviour: `thrown`, or
`pc = "thrown"`.

### Storage and the algorithms over it

A raster is a record of its storage, its type (`"uint"`, which wraps around at
`Modulus`, or `"float"`, which has a NaN; results are also bytes), the number
of the metadata or `None`, its elements as a sequence and, if masked, its mask
(empty: none). One action of `RasterStorage` is one call; reading and writing a
file are one call, `Reread`, since the file differs from the raster only by what
is written into nodata. Metadata other than the number are left out.

`OptionalRaster` says what every call leaves in every cell. A number in band
shows in one way only: an element that equals it can be read as nothing
(`AsRead`). `DoneAs` in `RasterStorage` lists where a member does something
other than its name and comment say; nothing else may differ. The variable
`call` exists for this mapping; what can happen next does not depend on it, and
`VIEW RasterAlone` leaves it out of the states that TLC tells apart (the action
property is still checked on every step).

Operators and algorithms that return a new raster are definitions with the name
of the C++ function. They are evaluated on every raster that some history of
calls leads to, beside every raster of `Others`, and not only on fresh ones.
Where the code writes to a mask that is not there, or throws, a condition
`May...` stands beside the definition.

The three ways in which algorithms find nodata are kept apart: `IsNodata`
(is_nodata), `Missing` and `Optional` (the proxies of the iterators) and reading
the element as it is.

### Windows

A window is a rectangle of the raster and the iterator is an offset that jumps
from the end of one row to the next; `stage` is `"skip"` in skip_values and
`"rest"` between two calls. `WindowFilters` are functions; `sum_in_buffer` is a
fold over the cells in scan order that carries the circle before. Their results
are compared to a definition over whole windows, in the states in which a window
has just been asked for.

### Abstractions

Numbers are integers; the rounding of float is not modelled, and 1 and sqrt(2)
become two integers `StraightStep < DiagStep < 2 * StraightStep` (5 and 7 in
the runs). Quotients of a "float" that are not whole are coded apart
(`Quotient`), fractions of `Zones` count in units of `One`, of `WindowFilters`
they are pairs, or values are chosen so that divisions are exact. Integer
overflow of a sum or an id in the searches is out of scope: no counter can
exceed the number of cells but sums of user data. The exponential of
distance_decay is any decreasing factor, `Unreachable - d`. nodata in a raster
of float of the searches is a value of its own that is contagious in
arithmetic. Progress callbacks, logging and other metadata are left out. The
size checks at the head of each function are preconditions.
Reads of uninitialised or out-of-bounds memory are named: `Unset` in
`Clusters` (the result of cluster_id is not initialised and negative cells are
not written) and in `WindowFilters`; `MaySeemIncoming` in `LddValidate` (the
table of offsets is indexed with a neighbour's byte above 9) and in `LddFix`
(the same, and `Dug`, where a pit is put by such a byte, `InwardCells`,
`MayServe`: a cell that was never assigned, a neighbour outside of the map); the mask after a resize of a masked raster is
any mask; the conversion of a NaN to an integer number is any number.

Bounds that stand for the machine: `MaxDepth` in `LddUpstream` is the number of
calls that fit on the stack, at least one per cell; `Huge` in `TravelSum` is the
resistance put where there is none, above every distance that is looked at;
`Modulus` is the width of the integers; `FloatMax` and `Lowest` are the limits
of a type. slope_length is modelled for dense rasters, where unknown friction
is a NaN. The radius of the fuzzy clusters is given squared, in cells.
Assertions are those of a build without them: fuzzy_cluster_id_with_obstacles
asserts `result[cell] == 0` (`algo/clusterid.h:360`) on a raster it has filled
with -9999, and cannot run in a build with assertions.

## 3. Runs

| Run | Bounds | Shows |
|---|---|---|
| `filo` | 2 x 2, five slots, two values | the ring buffer is a bounded fifo: wrap-around, a full queue, overflow and use after it |
| `clusters` | 3 x 3: all rasters over {0, 1} and {1, 2}, and all 2 x 3 blocks over {-1, 1, 2, nodata}; both diagonal modes; three functions | no overflow, clusters neither split nor merged, exact counts and sums, ids in scan order, termination |
| `distance` | 3 x 3: one or two targets, every obstacle map, every map of travel times 1 and 6, nodata in the centre, dense and masked | shortest paths, values of the nearest targets, marks in step with the queue, termination |
| `flow` | 2 x 3: every drain map that stays on the map; three snakes with one cell set to any byte 0..10; stations, fractions and frictions with nodata | results equal a definition over whole flow paths; throws exactly on unsound maps (for the two functions that visit every flow) |
| `ldd_validate` | 2 x 2, two threads, every assignment of rows to threads | verdict and reports are those of the map under every schedule |
| `travel_sum` | 3 x 3: two or three searches that reuse the rasters; every map of resistances 1 and 4 with one of two cells set, a zero row, nodata at any place; values are powers of two, so that a sum tells what went into it | each search restores what it shares; sums are those over the cells that some walk reaches, each once, with and without the cells beside them; a decayed value is the best of all targets |
| `ldd_upstream` | 2 x 3: every drain map that stays on the map; two snakes with one cell set to 0..9 or to nodata, which is 0 or 255, unknown friction and a large one, or two stations, one perhaps nodata, at any cells | the longest way from a spring; the stack overflows on loops only; the most downstream station wins |
| `ldd_fix` | 2 x 3: every drain map that stays on the map; two snakes with two cells altered to flows out of the map, into each other, into nodata, or to an unsound byte | sound flows are never changed, maps with flows that leave them are refused and no others |
| `obstacle_clusters` | 3 x 3: every obstacle map with items of one and two kinds, all rasters of zeros and ones for the fuzzy clusters, radius 0 to sqrt(5) | nothing that belongs together is left out, nothing else is taken in, obstacle cells join the cluster around them |
| `raster_storage` | one and two cells; integers of two bits, floats 0, 1, 2 and NaN; numbers none, 2, 4 (does not fit) and NaN; both storages; zones of two to four cells from the raster and a copy of it; three polygons over three cells, one or two of them on the raster | every call keeps the promise of `OptionalRaster`; operators, comparisons and algorithms treat nodata alike in every storage; totals of zones are exact and conserved |
| `windows` | 3 x 4: radius 0 to 3 around every cell, every rectangle that starts up to two cells outside, every set of nodata for the whole raster; images of equal, different and mixed elements with a peak, also as one column | the iterator stays inside and visits what is promised once; sums in buffers and filters are exact |
| `ldd_validate_python` | as `ldd_validate`, Python callbacks | violation: the call never returns |

Why these bounds suffice. 3 x 3 has rings, concave shapes and diagonal
contact, so a cluster is met from several sides and the scan meets it at
several cells. With travel times 1 and 6 a detour of four cheap cells beats a
direct way of two, so that cells that have left the border come back to it;
the centre surrounded by eight cells is where obstacles close every way. On a
2 x 3 map flows take up to five steps, join, and run in loops with and without
inflow. In 2 x 2 two flows in different rows run into one loop of the other
two cells, which is what two threads must race for.
In `travel_sum` a detour over cells of resistance 1 is cheaper than a direct way
over a 4, so that cells come back to the border and would be summed twice. In
`obstacle_clusters` a radius of sqrt(5) has the moves of a knight, whose line is
diagonal first and so may be blocked one way and free the other; seen from the
cluster found first all that it reaches is in it, which is what `NoneLeftOut`
says. In `ldd_fix` two altered cells make two repairs meet in one map.
In `raster_storage` a cell is independent of the others in every call, so two
cells are one that the call names and one that it does not; two bits are enough
for a result to wrap around into the number for nodata; and the four numbers
are all the cases that `fits_in_type` and has_nan tell apart. A zone needs cells
with data and without, and nodata before and after its first data: four cells
made of the raster twice have them all. In `windows` a radius of 3 in a
raster of three rows and four columns cuts off no side, one, both, and leaves
nothing; the raster of one column makes stride and width equal; circles move
three times to the right, and downwards in the single column.

The larger properties are conjunctions. `distance`: `Settled` (no step the maps
leave open shortens a distance) and `Supported` (each distance is that of a real
path) give `ShortestPaths`; which steps are open is said by `MayStep` from the
obstacles, travel times and nodata of the call alone, not by what the handlers let
through (a diagonal past obstacles is a short cut past a corner that can be walked); `CarriedFromNearest` ties the value raster to the distance
raster; `BorderMarked` the marks to the queue (the assertion in the code after
each pop_head). `OperatorsContagious` compares each operator, element by
element, to one operation on optional numbers; `ComparisonsAgree` adds the
predicates, the comparison with a tolerance and the report of differences.
`AlgorithmsAgree` compares each cell by cell algorithm to a function of the
optional numbers at one place. `ZonesExact` is about what is gathered from a
zone, `TotalsConserved` about what is handed out: the sum over the result is
the sum that went in, for weights, areas, locations, rasters, polygons and
blocks of cells, also where zones have no weight, and an amount for a zone
without cells is refused unless it is 0. `FiltersExact` does the same for windows.

CHECK_DEADLOCK is FALSE where the function returns or throws, and in
`raster_storage`, where a raster can be left without a call that stays in its
bounds; in `filo` a call is always possible and deadlock is checked.

Fairness. The sequential functions run in one thread: `WF_vars(Next)` says
that it keeps running. The user of an iterator goes on to the end
(`Terminates`). validate_ldd assumes that the operating system runs
every thread and that a user's callback returns (`WF` of each thread and of
the barrier); a lock is not assumed to be granted fairly. `RasterStorage` makes
no assumption: nobody has to call anything.

### Disagreements found

With a run of its own:

* `ldd_validate_python`: no binding releases the interpreter lock. In a build
  with GDX_ENABLE_OPENMP (off by default) a worker thread that has a fault to
  report waits for the lock, while the calling thread holds it and waits for
  the worker at the end of the loop. The model does not include the moments at
  which the interpreter may let another thread run in the middle of the calling
  thread's own callback; they do not help once that thread is at the barrier.

Modelled as the code does it; the properties say what holds in spite of it.

Drain maps and clusters:

* traverseInvalidLdd follows a flow only from cells without inflow
  (`algo/accuflux.h:246`), so a loop that nothing flows into is valid to
  validate_ldd, whose binding promises "Returns true if the ldd is valid"
  (`python/gdxpy.cpp:873`); accuflux throws on the same map. What it does
  guarantee is `OnlyClosedLoopsPass`, a part of `VerdictsExact`. It claims this
  of maps whose byte for nodata is no direction: if it is one, a nodata cell
  seems to flow on, and the cell it points at is not taken for a source. The
  proof of `BadFlowHasSource` brought this out.
* "in case of equal number of neighbors, assign to SMALLEST neighboring
  cluster" (`algo/clusterid.h:194`): `clusterSize` counts only the cells under
  obstacles that have been assigned so far (line 221), so the larger cluster can
  win. `ObstacleCellsJoin` is what holds: of the clusters with most neighbours that
  is taken which took fewest cells under obstacles before, so that the order of the
  scan decides.
* fix_ldd leaves a loop that a flow enters: its entry has two inflows, the flow
  and the loop, and is taken for a cell that is not the cause
  (`algo/accuflux.h:494`). It stays in the result and is not among the errors.
* The travel target functions do not ask whether the target is nodata
  (`algo/distance.h:486`), unlike the others.

Storages (`DoneAs` and the conditions in `RasterOperations`):

* add_to_cell of a masked raster on nodata keeps the mask, "if the cell is nodata
  it will become data" (`core/maskedraster.h:498`); add_points loses such points.
* fill_values of a dense float raster, "leaving nodata values intact",
  compares NaN with the number and overwrites it (`core/denseraster.h:302`);
  fill_with_nodata of a dense raster without a number does nothing; fill of a
  masked raster without a number keeps its mask.
* replace and set_nodata of a dense raster of integers act on the cells that
  hold the number.
* A scalar minus a dense float raster returns elements that equal the number
  unchanged (`core/denseraster.h:1157`); a scalar divided by a dense raster of
  integers computes with the number (line 1175). Comparisons of dense rasters of
  different types do not look at the number of the integers.
* A masked raster with a mask but no number cannot be written, and its cast
  writes through a mask that is not there (`common/include/gdx/rasteriterator.h:363`).
* resize of a masked raster without a number leaves its mask uninitialised
  (`core/maskedraster.h:151`); a number that is NaN has no integer value
  (`algo/cast.h:15`).
* RasterArea::cols() returns the number of rows (`core/rasterarea.h:88`); no code
  calls it.

Algorithms:

* if_then reads its condition without asking for nodata (`algo/conditionals.h:24`),
  if_then_else asks. weighted_product reads nodata of integers as it is;
  a weighted_sum of zero becomes nodata. replace_value loses the mask. normalise
  of a constant raster divides zero by zero (`algo/normalise.h:38`), and to bytes it
  can make different values equal if their range is wider than 254 (line 41).
* nodata has the key -9999 in a reclassification table (`algo/reclass.h:81`); an
  element equal to that number finds the same row.
* The negation of a dense raster of float copies it first, which turns elements that
  equal the number into NaN (`core/denseraster.h:620`).
* table_row shows nothing for the minimum and the maximum of a category whose
  nodata comes before its data (`algo/tablerow.h:103`). category_mode and the
  filters read nodata of the zones as a zone. choropleth_average divides by all
  cells of an area, those without data included.
* category_sum_in_buffer leaves a cell unassigned where only the zones are nodata
  (`algo/category.h:301`).
* convertCategoriesToWeights and deflate_equal_sum never mark cells of their result
  as data: on masked rasters all of it stays nodata; inflate and blur_filter copy
  elements without the mask.
* sum_in_buffer takes a circle for empty if the square around it sums to zero
  (`algo/suminbuffer.h:116`) and computes the next ones from that zero. The binding
  promises the "sum of all values within its radius" (`python/gdxpy.cpp:498`).
  `SumsExact` claims circles only where no square cancels out.
* The exponential filter, normalised, adds the value of a cell to itself twice
  if the cell was reached before (`algo/filter.h:122`).
* Border handling of polygons: rasterize_polygons asks for polygons without
  names (`algo/rasterize.h:120`), and polygons of one name are no neighbours
  (`algorithms/polygoncoverage.cpp:152`), so AdjustCoverage makes no difference
  there; were there names, the coverages that replace those at a border have the
  value 0 (line 194). A polygon with no other near keeps its part of a cell
  that "only 1 polygon covers" (line 285), and one that lies within a cell keeps all
  of it beside others. `BordersDivided` states the rest.

## 4. Proofs

TLAPS proves these for all values of the constants that the named assumptions
allow.

### The queue

The last part of `ContainerProofs`, from `FiLoAssumption` (the two sizes are natural
numbers):

* `RingTypeCorrect`: `RingSpec => []RingOK`: head and tail stay inside the vector.
* `RingIsFifo`: `RingSpec => ImplementsFifo`: every step of the ring buffer is a
  step of `BoundedFifo` or changes nothing in it.

The type invariant is inductive and all the refinement needs. The indices run
modulo one more than the capacity, so that a full buffer differs from an empty
one. The arithmetic is in `WrappedAround` and `Gap` (what advancing an index does,
and to the distance between two indices). The rest is one lemma per call,
`ClearStep`, `PushBackStep` and `PopHeadStep`, each of which compares two
sequences slot by slot.

### The clusters

`GridProofs` and `ClustersProofs`, for all grid sizes and rasters, from
`GridAssumption` (both sizes positive) and `ClustersAssumption` (nodata and
uninitialised content are no integers, the rasters map cells to integers or
nodata).

* `TypeCorrect`: `Spec => []TypeOK`.
* `NeverOverflows`: `Spec => []NoOverflow`. The exception of FiLo is
  unreachable from the cluster functions.
* `NeverSplits`: `Spec => []AdjacentAlike`. Adjacent equal positive cells have
  the same result on return.
* `ResultsAreExact`: `Spec => []ResultsExact`. Cells of one id are joined, ids
  come in the order of the scan, counts and sums are those of whole clusters.

None of the safety properties of the clusters is inductive. The search is
described by `TypeOK /\ SearchInv` with three named parts:

* `QueueInv`: the border has no duplicates and contains only cells of the
  cluster being grown. With `DistinctIsShort` (a sequence without duplicates
  over a finite set, missing at least one element of it, is shorter than the
  set) and `CellsFinite` (there are `Rows * Cols` cells) it leaves room for
  every insertion: a cell that is inserted is marked `Todo`, hence is not on
  the border.
* `GrowInv`: every neighbour of the same value of a cell that has left the
  border belongs to the cluster or is still to be visited. At the end of the
  search, when the border is empty, the cluster is closed under adjacency.
* `EarlierInv`: finished clusters are closed and uniformly labelled, and every
  positive cell the scan has passed belongs to one. This gives `AdjacentAlike`
  on return.

`ResultInv` says what has been written, and is inductive where those hold:

* `ClusterInv` and `TotalInv`: the cells of the cluster being grown are joined
  (no part of them is without a link to the rest), are listed once each, and
  none was scanned before; the running total is that of the cells taken into it.
* `FinishedInv`: each finished cell is in a set of finished cells that is joined
  and closed, and whose cells hold the total over the set.
* `IdInv` and `KeptInv`: each id handed out has holders, which are joined; the
  holders of the next lower id start earlier in the scan; zero and nodata are
  copied up to the cursor.

A set that is joined and closed is what `Component` computes from any of its
cells (`ComponentExact`: each round adds a cell until none is missing). The sum
over a set is the library's fold, which picks the elements in an unknown order;
`SumRemove` shows that any element may be taken first, and makes a running total
the sum of what was added (`AddValueResult`).

`InvNext` and `ResultNext` have one lemma per action (`ScanInv`,
`StartClusterInv`, `PopInv`, `InsertInv`, `PassOverInv`, `FinishClusterInv`, and
`ScanResult`, ...).
`NeighboursComplete` in `GridProofs` shows that the visit functions, written
as sequences of four border tests, reach exactly the adjacent cells.

### The clusters with obstacles

The second part of `ClustersProofs`, for all grid sizes, rasters, obstacle maps and
radii, from `GridAssumption` and `ObstacleClustersAssumption` (nodata is no
integer, uninitialised content is neither nodata nor a natural number, and an
obstacle map holds zeros, ones and nodata):

* `ObstacleClustersAreExact`: `ObstacleSpec => []ClustersExact`. The exception
  of FiLo is unreachable. On return, no cell leads to an open cell with a later
  id, and each cluster is reached from its first cell inside it: obstacles,
  values and distances separate what they should and nothing else.
* `ObstacleCellsJoinMost`: `ObstacleSpec => []ObstacleCellsJoin`. A cell under an
  obstacle joins a cluster with most cells around it, of equal ones that which took
  fewest cells under obstacles before, or none if there is none around, and no id is
  outside the vector of cluster sizes.

That a search goes on from one cell to another (`Leads`) is not symmetric:
the line between two cells may be blocked in one direction only. So a finished
cluster is not closed under it, and what `Clusters` relies on fails. The inductive
invariant is `ObstacleInv`:

* `ObstacleTypes`, and `BorderInv`: the border holds each cell marked for it once,
  and the neighbours still to be visited are some of those around the cell.
  `DistinctIsShort` leaves room for one more.
* `MarkInv`: a search comes to candidates only, which are the cells a search may
  start at; the loop has left none of them behind.
* `GoneOnInv`: what a cell with an id leads to has an id, and no later one, or is
  on the border of the cluster being grown, or is still to be visited. With two
  empty queues this is `NoneLeftOut`.
* `RootInv`: each cluster is `Rooted` in its first cell: from each part of it that
  has this cell and is not all of it, a step leads to the rest of it.
  `RootedAdd` adds the cell that a search comes to; `ReachedFromRoot` shows that
  the rounds of `ReachedInside` add a cell each until none is missing, in at most
  as many rounds as there are cells.
* `AssignInv`: while the cells under obstacles get their ids, these are at most as
  many as the cells that hold them. The index of `clusterSize`, which has an
  element for each cell and counts from zero, fits since the cell under the
  obstacle holds none. The cells passed have joined most (`MostAroundIs`,
  `MostJoins`), and the ids of the others are as the searches left them.
* `SettledInv`: what `GoneOnInv` and `RootInv` have shown by the end of the
  searches, which remains after it.

The searches test the obstacle only at the neighbour or along the line, never
whether the cell reached is a candidate. `ObstacleEndsPath` shows that the line to
a cell under an obstacle is blocked at its last step, and `LeadsToCandidates` that
a search which starts at a candidate therefore stays with them.
`TieInv`, inductive where `ObstacleInv` holds, says that `clusterSize` has counted for
each id the cells under obstacles that were given to it before the cursor
(`TakenBefore`), and nothing else. A cell assigned later does not change what an
earlier one was decided by (`TiesSteady`).
There is one lemma per action (`BeginClusterInv`, `TakeCellInv`, `TryNeighbourInv`,
`AssignCellInv`, ...). The runs check the two properties but not `ObstacleInv`.

### The distances

`DistanceProofs`, from `GridAssumption` and `DistanceAssumption` (a straight step
is positive, a diagonal one longer but shorter than two of them; `Infinity`,
which is the largest float in the code, exceeds the longest way over the raster;
nodata is no number), for every raster of targets, obstacles and travel times.

* `TypeCorrect`: `Spec => []TypeOK`.
* `BorderIsMarked`: `Spec => []BorderMarked`, with no overflow.
* `DistancesAreShortest`: `Spec => []ShortestPaths`.
* `ValuesAreOfNearest`: `Spec => []NearestTargets`.

The invariant is `TypeOK /\ SearchInv`, with four parts:

* `QueueInv`: the border holds every cell marked `InBorder` once and no other.
  The cell that is popped is marked `Done` at once, so it may come back.
* `SeedInv`: the scan has seeded what it has passed and nothing else has a
  distance; distances never exceed `Unreachable`.
* `SettledInv`: an edge that would shorten a path leaves a cell on the border, or
  is one of those that are about to be looked at. With an empty border no edge is
  left.
* `SupportedInv`: a distance is that of a target, or came from a neighbour.
  The neighbour may have come closer since, so that only an inequality is
  inductive, with equality of distance giving equality of the carried value.
  On return it is an equality, because no edge can be relaxed.

On return the ways of the handlers are those the maps leave open (`WaysOnReturn`), but
for steps from a cell whose own distance is nodata: no path goes on from there,
and none has come there (`BlockedHasNoDistance`). For this `SeedInv` knows that what
the maps hide has been hidden. `CornersOf`: the cells beside a diagonal are those that
touch both of its ends.

`NearestTargets` also says that the sentinel `rows * cols + 1` is above every
distance when nothing stands in the way: `StraightPathBound`, by induction over
the steps along row and column that a cell is away from a target.

### The sums within a travel distance

`TravelSumProofs`, from `GridAssumption` and `TravelSumAssumption` (both steps are
even and positive, `Huge` exceeds every distance that counts, nodata is no
number), for every grid, mask, resistance and value.

* `ScratchIsRestored`: `Spec => []ScratchRestored`: no search of
  sum_within_travel_distance finds anything that an earlier one left, and none of
  the queues overflows.
* `SumsAreExact`: `Spec => []SumsExact`: each cell of the mask gets the sum over the
  cells that a walk of at most the maximal resistance comes to, and over those
  beside them, each counted once; each cell gets the sum of the targets that
  reach it, each once; or the best of what targets send it.

The invariant of the first is `Inv`, with three parts:

* `TypeInv`: the types, and that only cells with a price are searched from:
  without it a distance could be computed from nodata.
* `QueueInv`: the queue holds the cells marked `InBorder`, each once, and is empty
  between two searches; `RoomForOneMore` follows as for the clusters.
* `ScratchInv`: whatever a search has changed is in its lists. A cell has another
  mark than `Todo` exactly if it is in `cells`, and has a distance exactly if it is
  there; later the marks left are those of `adjacentCells`. Only with it can
  it be said that undoing the two lists undoes the search.

The invariant of the second, `SumsInv`, adds six parts.

* `LengthInv` says of a search what makes its distances those of shortest walks at
  the end. `Stale`: where a distance can still be shortened, the cell from
  which it can is in the border or has that neighbour still to be handled.
  `Connected`: every set of cells that has the start, but not all cells
  with a distance, is left by a step which accounts for a distance
  (not for an equal one: the distance of the cell stepped from may have fallen
  since). A distance that falls keeps this, and with it no predecessors need be
  recorded. A step into a cell without resistance costs `Huge` and is never short
  enough: `NoDataIsFar`.
* `CursorInv`: searches start from cells of the mask.
* `AroundInv`: the sum is that of the cells reached and of those beside the ones
  visited so far, because `handleAdjacent` marks what it adds.
* `SumWithinInv`, `SumTargetsInv`, `DecayInv`: the results are right for the cells of
  the mask before the cursor, and for the target at the cursor as far as its
  search has come. A cell that leaves the border a second time is in `added`. What a
  longer way has brought to a cell stays in it until the shortest arrives
  (`OnItsWay`), which brings no less, unless the target is negative, and then nothing
  it sends is above the zero that the cell starts with.

`ReachedIs` ties the two together: distances with no stale step and `Connected` are
those of the shortest walks. No walk is shorter, by the steps of the walk
(`NoWalkIsShorter`); and `rows * cols - 1` steps are enough to walk each distance
(`ShortestIsWalked`), because a set of cells walked to in their distance that leaves
one out is left by a step as in `Connected`, which one step more then takes. So
`SumsExact` may count walks up to that many steps, as TLC has to. `FoldIsValueSum` and
`ValueSumIs` turn the loop over the cells, and the sum that the property writes, into the
same sum over a set.

### Drain maps and flows

`GridProofs` (from `CourseDef` on) and `FlowProofs`, from `GridAssumption` and
`FlowAssumption`, for every map of bytes and every input with nodata anywhere.

* `TypeCorrect`: `Spec => []TypeOK`, also when a function throws.
* `UnsoundMapsAreThrown`: `Spec => []ThrowsOnUnsound`: accuflux and
  accufractionflux return on no map with a flow that does not drain, and what any
  of the six functions throws for is there.

`ThrowsOnUnsound` says where water goes with `Course`, a function of the number
of steps; the code keeps a set of the cells traversed. The invariant `FlowInv`
connects the two (`WalkInv`: the traversal is on the way from its start, and
the set is what has been passed) and says that nothing behind the scan was let
through (`ScanInv`). A loop is entered after at most as many steps as there are
cells: `SeenBound`, from `DistinctIsShort`.

* `FluxesAreExact`: `Spec => []FluxExact`.
* `StationsAreExact`: `Spec => []StationsExact`.
* `FlowDistancesAreExact`: `Spec => []DistancesExact`, with
  `FrictionDistancesAreExact` for the half of it about ldd_dist.

These say that what is returned depends on the map alone and not on the scan.
Their definitions speak of the ways that water takes, sequences of cells, of which
there is one for each start and number of steps (`WaysAgree`) and finitely many
(`WaysFinite`). What the traversals know is an invariant about those ways:

* `FluxInv`: a cell has its own freight and the sum over the ways to it that
  start before the cursor, and from the cursor itself the steps taken so far
  (`Arrivals`). A step adds one way to one cell (`ArrivedStep`), so the sum grows
  by one term (`TotalAdds`), with nodata contagious. A traversal
  ends when its way cannot go on, and an accepted map lets none go round.
* `StationInv`: every cell behind the cursor has its answer (`Answers`), and no
  other cell has been written; a traversal knows what is left of its freight, or
  how far it is, along a way that met no station (`Knows`). That the
  next station is unique is `FirstDownIs`.
* `UpstreamInv`: every distance is the length of some way to the cell, and a
  visited cell has told the next one how far it is, but for the cell the
  traversal stands in. Breaking off where a longer way is known is right because
  that cell has passed its distance on. That a scan which starts at sources only
  has come everywhere is `AllVisited`: the cells it has missed would flow into
  each other for ever. `NoLongerWay` follows by induction over the length of a way.
  It is here that the map must drain and the byte for nodata be no direction.

### Up the drains

The second part of `LddScanProofs`, from `GridAssumption` and `LddUpstreamAssumption` (both steps
are even and positive, nodata is no number and no direction, the bytes of data
are those of the table, one call for each cell fits on the stack), for every
grid, map, friction and station.

* `UpstreamTypeCorrect`: `Spec => []Types`.
* `OnlyLoopsOverflow`: `Spec => []OverflowsOnLoops`.
* `SlopeLengthIsLongest`: `Spec => []SlopeLengthExact`.
* `CatchmentIsLast`: `Spec => []CatchmentExact`.

The properties speak of where the water of a cell goes, step by step (`Course`),
the code goes the other way. For the recursion of slope_length, `SlopeInv` has
these parts:

* `FramesInv`: the frames are of known cells that have no length yet, each waits
  for the next one, and what it does not wait for any more has its length.
* `ChainInv`: water of a frame's cell comes down the frames below, one by one
  (`StepsDown`). If there are more frames than cells, some cell is met twice on
  that way and its water goes round (`ComesBack`).
* `OrderInv`: every cell with a length comes after all known cells above it, so
  that no set of such cells flows round. A scan that has come to its end has
  therefore met no circle.
* `GatherInv`: a frame has the longest way over the neighbours it has asked, and
  knows if one was known or unknown.
* `LengthInv`: a length is the longest over all neighbours that drain there.
  That this is the longest way from a spring is by induction over the cells
  with a length, with what a way costs one step further (`Cost`).

Friction must not be negative in `SlopeLengthExact`: the maximum starts at 0
(`algo/accuflux.h:314`). A data cell with byte 0 points at its own cell and is
left out among the neighbours, which makes it the end of a way, not a circle.

For catchment, `CatchmentInv`: an entry of the stack carries the id that its cell
gets from further down (`EntryInv`); a cell has its answer, or its water passes
a cell on the stack or a pit that the scan has not come to, and no cell has any
other value (`AnswerInv`). An answer does not depend on the order because
the id that a cell hands on is a function of where its water goes.

### Validation with threads

The first part of `LoopProofs`, from `GridAssumption` and `ValidateAssumption`, for any set
of threads, any assignment of rows to them, any interleaving, with and without
Python and callbacks.

* `TypeCorrect`: `Spec => []TypeOK`.
* `VerdictsAreExact`: `Spec => []VerdictsExact`: the flag that all threads write
  without a lock is right on return, and only closed loops are accepted.
* `ReportsAreExact`: `Spec => []ReportsExact`: every fault is reported, nothing
  else is, a loop once, and one loop at a time.

The parts of `ValidateInv`: `WalkInv` (where each thread is on its flow),
`FaultInv` (what it has to report is the fault of that flow; who reports a loop
holds the mutex), `DoneInv` (no row left behind has an unreported fault or an
unset verdict), `TruthInv` (nothing untrue was written or reported, every row
belongs to some thread) and `LoopsInv` (a loop in the set is reported or some
thread is about to). `NoFaultMet` and `FaultMet` connect a flow of the thread
with the definition of its fault.

That only closed loops pass is `BadFlowHasSource`: a flow that does not drain is
itself part of a loop, or some cell without inflow upstream of it does not
drain. Were neither so, every cell upstream would have an inflow from another
one, a choice of one for each would be a permutation of a finite set, and
following it back would come to the cell again.

### Repair

The first part of `LddScanProofs`, from `GridAssumption` and `LddFixAssumption` (the maps have their
type), for every map of bytes, in whatever order the repairs come, and for every
outcome of the reads beyond the table or the map:

* `SoundFlowsAreKept`: `RepairSpec => []SoundFlowsKept`.
* `FlowsOutAreRefused`: `RepairSpec => []FlowsOutRefused`.

fix_ldd follows flows in the map that it is changing, takes the places of repairs
from the original, and knows of a flow only the set of cells it has passed. The
invariant `FixInv` connects the three maps:

* `WayInv`: a flow goes from each cell passed to the next, nothing flows into
  the first. The cell in which a flow closes a loop therefore has an inflow from
  the way to it, beside the one from the loop.
* `RepairInv`: cells whose water comes to a pit have their byte. A repair writes
  in the cell that the traversal stands in, in the nodata that it drains into,
  or in the entry of a loop; none of them is sound (`LoopsAreUnsound`, and
  `PassedIsOriginal` for the way in between).
* `Unturned`: in a map without zeros no cell is ever turned. The entry of a loop
  has two inflows then, or the scan would not have come there
  (`NothingTurned`); such a loop is left as it is, which is the disagreement of
  section 3.
* `SeenBefore`: where the byte for nodata is zero, a cell that became nodata
  has an inflow that hides it from the scan.
* `RefusalInv`: no spring above a cell that flows out has been passed. With
  `SourceOrLoop` there is such a spring on the way up from every flow that leaves
  the map, or the cell would be part of a loop.

Both properties suppose `NodataDrainsNowhere`. If the byte for nodata is a
direction, a nodata cell passes for an inflow of the cell it points at, as in
validate_ldd, and a repair that writes nodata makes a new direction.

### The windows

The other parts of `LoopProofs`, for every size of raster, every
window wherever it is cut off and every set of nodata, from `GridAssumption` (both
sizes positive), `AreaAssumption` (`Null` is no integer) and `CallsAssumption` (the
calls have their type):

* `StaysInside`: `AreaSpec => []InsideWindow`.
* `ReadsTheRaster`: the offset that is looked at is that of an element.
* `VisitsArePromised`: `AreaSpec => []VisitsExactly`.

`InsideWindow` speaks of offsets; the invariant `IInv` says which row and column
of the window the offset is, where the column is `currentColOffset` if the
window is narrower than the raster and free otherwise: without that link a step
at the end of a row cannot be told from one inside of it. `ClippedInside` is the
lemma that a window that clip_area_to_raster leaves over lies inside the raster, and
`NextRow` and `RowsInOrder` are what is needed of products.

`VisitInv` adds that what has been visited is what is wanted and has been
passed, in rising order. What a call promises is stated without windows, by
distances; `PromisedByWindow` shows that the clipped window and the filters leave
exactly that, with `CircleInSquare` for the circles.

`FiltersAreExact`: `AreaSpec => []FiltersExact`, from `ImagesAssumption` besides (an
image has an integer in every cell). Each algorithm has a lemma for every raster
of integers (`ImageOK`) and every radius, and the theorem puts them together with
`InputsAre`: the rasters that a call is made with are of that kind.

* `SumsAre`: `IntegralImageIs` says that an element of the integral image is the
  sum of a rectangle, by its row first; `SquareSumIs` takes the four corners apart
  into disjoint sets, with the corners that are cut off. For the circles,
  `MovedPlaces` shows that the border on one side is what a circle gains when it
  moves one cell and the border on the other what it loses. The loop carries the
  last circle and its sum: `CircleStates` keeps them of the right type, and
  `CircularAlong` names the states of the fold, of which the first wrong one is
  refuted by `CircleStep`. It is here that the squares which sum to zero must not
  mislead: the zero would be the sum the next circle starts from.
* `MajoritiesAre`: `MajorityIs` with the greatest of finitely many counts.
* `CategorySumsAre`: both sides are sums over the same set of cells.
* `VoronoiIs`: `NearestAlong` and `FirstNearest` follow the location that is
  nearest so far, and `DistancesAre` says that only a cell itself has the distance
  zero. `MissingCellsAre`: the locations are cells without duplicates.
* `FilterConservesIs`: a share is a whole number of sixtieths of the value, whatever
  is cut off, since `FactorsAre` lists what the factors around a cell can sum to;
  `PartsAre` says that the shares sum to the value. `FilterStep` is one turn of the loop: all cells together hold
  what they held and the value, or more if the filter is the exponential one. Along
  the loop (`FilterAlong`) what is held is the sum of the data seen (`Conserved`).

### The storages

The first part of `ContainerProofs`: `StoragesKeepPromise`, that is `Spec => KeepsPromise`:
`RasterStorage` implements `OptionalRaster` for dense and masked rasters of any
size, any content and any numbers. From `StorageAssumption` (the elements of the
other raster of a call, 0 to 2, fit in a byte or whatever `Modulus` stands for)
and `ElementsAssumption` (a NaN is no integer, `None` neither).

The invariant is `RasterOK`: a mask, if there is one, is as long as the data,
and a raster of integers holds no NaN. `Step` is a step of the promise that
leads to such a raster again, and there is one lemma for each call and storage
(`DenseFill`, `MaskedFill`, ...). Each comes down to `DenseElement` or
`MaskedElement`, what is left to show of a single element: that some reading of
it, as itself or, if it equals a number in band, as nothing, gives what is
wanted. `MaskedMarked` and `MarkingContents` are what the members that mark some
cells have in common. What `DoneAs`
names, the disagreements of section 3, is part of what is implemented.

From `Invariance`, which says that every raster reached is `RasterOK`, follow the
properties of `RasterOperations` about what is made of such a raster:

* `OperatorsAreContagious`: `Spec => []OperatorsContagious`. One lemma for each
  operator and storage (`DenseCombined`, `MaskedDivided`, ...). For a dense
  raster they come down to `DenseShown`, that some reading of both sides gives
  the element, and DenseCombined goes through the three ways the code takes
  (two of float, two of integers with numbers, all others); for a masked one the
  element is exact (`MaskedComputes`), with `MaskedPair` for what two masks leave.
* `AllComparisonsAgree`: `Spec => []ComparisonsAgree`. `DenseTold` and
  `MaskedTold` are what is left to show of a byte. `SameCells` compares
  `DiffClass`, isClose and operator== cell by cell, and from it follows that the
  counts of two reports are equal and which of them are zero.

The two operators of dense rasters that `OperatorsContagious` excludes under a
condition (`ScalarMinus`, `ScalarDivided`) are proved under the same.

* `AlgorithmsAlike`: `Spec => []AlgorithmsAgree`, one lemma for each group of algorithms
  (`MasksHold`, `ConditionsHold`, `ReplacementsHold`, `CombinationsHold`,
  `SummariesHold`, `TablesHold`) and below it one for each function. `PairIs` gives the
  rasters that are combined as many elements (`Shaped`). A result is made of
  metadata, elements and marks; what each of the three steps leaves a cell with is
  said once, of both storages (`Having` for the elements), so that a function comes
  down to what it computes for one cell. The summaries that count or look for an
  extreme are about the set of the cells with data, and need no order.

### Induction

The theorems on induction take operators as parameters and cannot be used with
the provers at hand. Where a proof above is by induction, it takes the least
natural number of a set of counterexamples (`LeastNatural`, from the
well-foundedness of `<`), or a minimal set (`MinimalSet`). A recursive function
is a CHOOSE; that there is a function which satisfies its equation is shown by
iterating (`Iteration`), for `Course`, `Component`, the ways of `Flow`, `Walks` and the
library's folds and sums: `SumIs` and `SumRemove` say of `SumFunction`, and
`LeftFoldSteps` of `FoldLeft`, that they take one element after the other.

The proofs led to changes in the modules, of which none changes a behaviour
that TLC sees: arms of a CASE that overlapped are disjoint now, since TLC takes
the first and the logic any of them. `BadFlowHasSource` and `OnlyClosedLoopsPass`
got their precondition on the byte for nodata, and so did `LongestUpstream`: TLC
has a counterexample without it, a start below a nodata cell whose byte points at
it, which is taken to have inflow and passed over (`algo/accuflux.h:922`).
`SummariesAgree` got its bound on the range of values, and `TablesAgree` the key of
nodata (section 3): larger values than those of the runs differ.

### Only model-checked

Liveness (fairness and ENABLED are beyond the prover). `ZonesExact` and
`TotalsConserved`, which compare functions of whole rasters, most of them sums over
zones and loops over polygons, with definitions of their own.

## 5. Not modelled

* Sparse storage: it is Eigen's SparseMatrix, whose insertion and iteration are
  not in the repository; no binding and no alternative of `core/raster.h` holds
  one.
* Functions of one number (abs, round, logarithm), random numbers, colours: no
  two pieces of state are related.
* Vector data: geometry computed by GDAL, and lines drawn with floating point.
  What first turns lines or points into a raster (`dasline.h`, `propdist.h`, ...)
  is left out with it; the distribution that follows is in `Zones`.
* Which part of a polygon lies in which cell: computed by GEOS. cutout_polygon.
* Changes of metadata other than the number, warping and resampling.
* Reading tables and writing them to files; the choice of one of seven element
  types in `raster.cpp`; argument conversion in the bindings; the command line
  tools; benchmarks.
* filter for a radius above 1, whose factors are no fractions. sum_in_buffer of
  bytes, which casts first and then replaces the number for nodata
  (`algo/suminbuffer.h:205`): on a dense raster the cells that held the old number
  become data and are summed.
* move, copy, RasterSpan and the Eigen glue.

## 6. Plan

What is left to prove: `ZonesExact` and `TotalsConserved`, with `LeftFoldSteps` and
`SumRemove` of `GridProofs`.

The modules that have no invariant of types in their runs get one with their
proofs.
