----------------------------- MODULE MCViewLayers -----------------------------
(* Model checking of ViewLayers; the constants are given in the cfg files. *)
EXTENDS ViewLayers
=============================================================================
