---------------------------- MODULE MCGraphStream ----------------------------
(* Model checking of GraphStream; the constants are given in the cfg files. *)
EXTENDS GraphStream
=============================================================================
