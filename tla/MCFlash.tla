------------------------------- MODULE MCFlash -------------------------------
(* Model checking of Flash; the constants are given in the cfg files.        *)
EXTENDS Flash
=============================================================================
