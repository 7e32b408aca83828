--------------------------- MODULE PolygonCoverage ---------------------------
(***************************************************************************)
(* polygoncoverage.cpp, and rasterize_polygons of rasterize.h, on rasters  *)
(* of one row.  How much of a polygon lies in which cell is computed by    *)
(* GEOS: here a polygon is a name, the value to burn and the part of its   *)
(* surface in every cell that it meets, in Surface-ths.  Cells may lie     *)
(* beside the raster.                                                      *)
(*                                                                         *)
(* The iterations of the two parallel loops read nothing that changes and  *)
(* append one result each, under a mutex: all that a schedule decides is   *)
(* the order of the results, a permutation.                                *)
(***************************************************************************)
EXTENDS CellAlgorithms

LOCAL INSTANCE FiniteSetsExt
LOCAL INSTANCE SequencesExt

Surface == 4

create_polygon_coverage(polygon) ==
    [name |-> polygon.name, value |-> polygon.value,
     cells |-> [i \in DOMAIN polygon.surface |-> <<polygon.surface[i], Surface>>]]

metadata_intersects(cov, other) ==
    /\ Min(DOMAIN cov.cells) <= Max(DOMAIN other.cells)
    /\ Min(DOMAIN other.cells) <= Max(DOMAIN cov.cells)

intersectingCoverages(covs, cov) ==
    {k \in DOMAIN covs : covs[k].name # cov.name /\ metadata_intersects(covs[k], cov)}

\* The part of a cell that a polygon gets, in proportion to the parts that the
\* others have there.  A polygon that lies within the cell keeps the whole.
adjusted_coverage(covs, cov, i) ==
    LET others == {k \in intersectingCoverages(covs, cov) : i \in DOMAIN covs[k].cells}
        otherPolygonCoverages == MapThenSumSet(LAMBDA k : covs[k].cells[i][1], others)
        coverage == cov.cells[i][1]
    IN  CASE coverage = Surface -> cov.cells[i]
          [] coverage # Surface /\ others = {} -> <<1, 1>>
          [] OTHER -> <<coverage, coverage + otherPolygonCoverages>>

\* What replaces a coverage has a name and cells, and the default value.
process_region_borders(covs, order) ==
    LET region(cov) ==
            IF intersectingCoverages(covs, cov) = {} THEN cov
            ELSE [name |-> cov.name, value |-> 0,
                  cells |-> [i \in DOMAIN cov.cells |-> adjusted_coverage(covs, cov, i)]]
    IN  [k \in DOMAIN covs |-> region(covs[order[k]])]

\* Without a field for the names all polygons have the empty one.
create_polygon_coverages(polygons, borderHandling, nameField, order) ==
    LET polygon(k) == IF nameField THEN polygons[k] ELSE [polygons[k] EXCEPT !.name = ""]
        covs == [k \in DOMAIN polygons |-> create_polygon_coverage(polygon(order[k]))]
    IN  IF borderHandling = "AdjustCoverage" THEN process_region_borders(covs, order) ELSE covs

\* A raster of float with n cells and the number nod for nodata.
rasterize_polygons(storage, nod, n, initNodata, polygons, borderHandling, order) ==
    LET begun(r, i) ==
            IF IsNodata(r, i) THEN MarkedAsData([r EXCEPT !.data[i] = initNodata], {i}) ELSE r
        burned(cov, r, i) ==
            [begun(r, i) EXCEPT !.data[i] = @ + (cov.cells[i][1] * cov.value) \div cov.cells[i][2]]
        burnAll(r, cov) == FoldLeft(LAMBDA s, i : burned(cov, s, i), r,
                                    SetToSortSeq(DOMAIN cov.cells \cap 1..n, <))
    IN  FoldLeft(burnAll, Filled(storage, "float", nod, n, IF nod = None THEN 0 ELSE nod),
                 create_polygon_coverages(polygons, borderHandling, FALSE, order))

-----------------------------------------------------------------------------
(* Properties *)

\* All ways to lie in three cells, of two polygons beside a third one.
Surfaces ==
    UNION {{s \in [cells -> 1..Surface] : MapThenSumSet(LAMBDA i : s[i], cells) = Surface} :
           cells \in SUBSET (1..3) \ {{}}}

Maps ==
    {<<[name |-> "a", value |-> Surface, surface |-> s],
       [name |-> "b", value |-> 3 * Surface, surface |-> t],
       [name |-> "c", value |-> 5 * Surface, surface |-> (2 :> 1 @@ 3 :> 3)]>> : s, t \in Surfaces}

Orders == {f \in [1..3 -> 1..3] : \A j, k \in 1..3 : f[j] = f[k] => j = k}

\* Every cell that polygons of different names share is divided over them, in
\* whatever order they are handled; a polygon that nothing comes near keeps its
\* part, and one that lies within the cell the whole of it.
BordersDivided(polygons, order) ==
    LET before == create_polygon_coverages(polygons, "None", TRUE, order)
        covs == create_polygon_coverages(polygons, "AdjustCoverage", TRUE, order)
    IN  \A i \in 1..3 :
            LET here == {k \in DOMAIN covs : i \in DOMAIN covs[k].cells}
                part(k) == covs[k].cells[i]
                whole == \E k \in DOMAIN before : i \in DOMAIN before[k].cells /\ before[k].cells[i][1] = Surface
                alone == \E k \in DOMAIN before : /\ i \in DOMAIN before[k].cells
                                                  /\ intersectingCoverages(before, before[k]) = {}
            IN  here # {} /\ ~whole /\ ~alone =>
                    /\ \A j, k \in here : part(j)[2] = part(k)[2]
                    /\ \A k \in here : MapThenSumSet(LAMBDA j : part(j)[1], here) = part(k)[2]

\* What is burned into the cells of the raster is what the polygons have there,
\* in every order, and other cells are nodata.  Whether borders are to be divided
\* makes no difference: polygons without names have no neighbours.
BurnedExactly(storage, nod, n, polygons, order) ==
    \A init \in {0, 1}, borderHandling \in {"None", "AdjustCoverage"} :
        LET x == Contents(rasterize_polygons(storage, nod, n, init, polygons, borderHandling, order))
            parts(i) == {k \in DOMAIN polygons : i \in DOMAIN polygons[k].surface}
            burned(i) == MapThenSumSet(LAMBDA k : polygons[k].surface[i] * (polygons[k].value \div Surface), parts(i))
        IN  \A i \in 1..n :
                x[i] = CASE nod = None -> burned(i)
                         [] nod # None /\ parts(i) = {} -> None
                         [] OTHER -> init + burned(i)
=============================================================================
