------------------------------- MODULE MCFiLo -------------------------------
(* A FiLo of a 2 x 2 raster: five slots, so that the indices wrap around   *)
(* while the queue holds zero to four elements and overflows at five.     *)
EXTENDS FiLo
CONSTANTS a, b
MCElem == {a, b}
=============================================================================
