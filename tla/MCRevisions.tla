----------------------------- MODULE MCRevisions -----------------------------
(***************************************************************************)
(* A small repository for Revisions, which is rewritten once: change a     *)
(* gets a new commit, change c and an old, hidden commit of a go away and  *)
(* the working copy moves.  With BatchSize 1 the first log comes in two    *)
(* batches and the second one in one.                                      *)
(***************************************************************************)
EXTENDS Revisions

Commit(id, change, wc) == [id |-> id, change |-> change, raw |-> change, wc |-> wc]
Hidden(id, change) == [id |-> id, change |-> id, raw |-> change, wc |-> FALSE]

MCLogs == <<
  <<Commit("a1", "a", TRUE), Commit("b1", "b", FALSE),
    Commit("c1", "c", FALSE), Hidden("a0", "a")>>,
  <<Commit("b1", "b", TRUE), Commit("a2", "a", FALSE)>> >>
=============================================================================
