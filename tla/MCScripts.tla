------------------------------ MODULE MCScripts ------------------------------
(* Model checking of Scripts; the bounds are given in the cfg files.         *)
EXTENDS Scripts
=============================================================================
