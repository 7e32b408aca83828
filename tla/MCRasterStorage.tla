-------------------------- MODULE MCRasterStorage --------------------------
(***************************************************************************)
(* Rasters of one and of two cells.  The numbers: none, one that is an     *)
(* element of both types, one that does not fit into "uint", and NaN.      *)
(***************************************************************************)
EXTENDS Zones

MCFloatElements == {0, 1, 2, NaN}
\* The call is there for the promise only: what can come next, and the
\* invariants, depend on the raster alone.
RasterAlone == raster

MCNumbers == {None, 2, Modulus, NaN}
=============================================================================
