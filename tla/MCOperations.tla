--------------------------- MODULE MCOperations ---------------------------
(***************************************************************************)
(* Operations on a repository of two changes.                              *)
(***************************************************************************)
EXTENDS Operations
=============================================================================
