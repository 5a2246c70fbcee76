------------------------------- MODULE Evolog -------------------------------
(***************************************************************************)
(* The versions of a change (ui/operations/evolog).  In select mode the    *)
(* list of versions has the keys; in restore mode the keys move the cursor *)
(* of the revision list, which tells evolog the target by a message, and   *)
(* Enter restores the version chosen before.  A click carries the index of *)
(* a row of the last frame drawn.                                          *)
(***************************************************************************)
EXTENDS Integers, Sequences, FiniteSets

CONSTANTS
  MaxVersions,  \* bound on the versions of the change
  ERevisions    \* rows of the revision list

ASSUME EvologAssumption == MaxVersions \in Nat /\ IsFiniteSet(ERevisions)

VARIABLES
  evolog,      \* the operation
  eFrame,      \* the rows and the mode of the last frame
  eSelected,   \* the revision under the cursor of the revision list
  eMsgs        \* messages under way

evologVars == <<evolog, eFrame, eSelected, eMsgs>>

\* rows is the number of versions, the cursor counts from 1.
NewEvolog(rev) == [open |-> TRUE, mode |-> "select", rows |-> 0, cursor |-> 1, rev |-> rev, target |-> rev]

SetEvologCursor(i) == IF i \in 1 .. evolog.rows THEN [evolog EXCEPT !.cursor = i] ELSE evolog

EvologNavigates(step) ==
  LET to == evolog.cursor + step
  IN  IF evolog.rows = 0 THEN evolog
      ELSE SetEvologCursor(IF to < 1 THEN 1 ELSE IF to > evolog.rows THEN evolog.rows ELSE to)

\* updateEvologMsg, the answer to the load of Init.
EvologArrives ==
  /\ <<"versions", 0>> \in eMsgs /\ eMsgs' = eMsgs \ {<<"versions", 0>>}
  /\ evolog' \in {[evolog EXCEPT !.rows = n, !.cursor = 1] : n \in 0 .. MaxVersions}
  /\ UNCHANGED <<eFrame, eSelected>>

\* Mutant of EvologNavigate: the mode is not looked at.
EvologNavigateSelect(step) ==
  /\ evolog.open /\ evolog' = EvologNavigates(step)
  /\ UNCHANGED <<eFrame, eSelected, eMsgs>>

\* In restore mode the revision list moves, and tells about it.
EvologNavigate(step) ==
  /\ evolog.open
  /\ IF evolog.mode = "restore"
       THEN \E r \in ERevisions : eSelected' = r /\ eMsgs' = eMsgs \cup {<<"selected", r>>} /\ UNCHANGED evolog
       ELSE evolog' = EvologNavigates(step) /\ UNCHANGED <<eSelected, eMsgs>>
  /\ UNCHANGED eFrame

EvologSelectionChanged ==
  \E r \in {r \in ERevisions : <<"selected", r>> \in eMsgs} :
    /\ eMsgs' = eMsgs \ {<<"selected", r>>}
    /\ evolog' = [evolog EXCEPT !.target = r]
    /\ UNCHANGED <<eFrame, eSelected>>

EvologRestore ==
  /\ evolog.open
  /\ evolog' = [evolog EXCEPT !.mode = "restore"]
  /\ UNCHANGED <<eFrame, eSelected, eMsgs>>

EvologClicked ==
  /\ evolog.open /\ eFrame.mode = "select"
  /\ \E i \in 1 .. eFrame.rows : evolog' = SetEvologCursor(i)
  /\ UNCHANGED <<eFrame, eSelected, eMsgs>>

EvologDraws ==
  /\ eFrame' = [mode |-> evolog.mode, rows |-> evolog.rows]
  /\ UNCHANGED <<evolog, eSelected, eMsgs>>

\* Enter in restore mode runs jj and closes.
EvologApply ==
  /\ evolog.open /\ evolog.mode = "restore" /\ evolog.rows > 0
  /\ eMsgs' = eMsgs \cup {<<"close", 0>>}
  /\ UNCHANGED <<evolog, eFrame, eSelected>>

\* Without a row the index of getSelectedEvolog is out of range: for Enter and for the marker
\* drawn at the target in restore mode, for the diff key in select mode.  The panic ends the program.
EvologPanics ==
  /\ evolog.open /\ evolog.rows = 0
  /\ evolog' = [evolog EXCEPT !.open = FALSE] /\ eMsgs' = {}
  /\ UNCHANGED <<eFrame, eSelected>>

EvologCancel ==
  /\ evolog.open /\ eMsgs' = eMsgs \cup {<<"close", 0>>}
  /\ UNCHANGED <<evolog, eFrame, eSelected>>

EvologCloses ==
  /\ <<"close", 0>> \in eMsgs /\ eMsgs' = eMsgs \ {<<"close", 0>>}
  /\ evolog' = [evolog EXCEPT !.open = FALSE]
  /\ UNCHANGED <<eFrame, eSelected>>

EvologInit ==
  /\ eSelected \in ERevisions /\ evolog = NewEvolog(eSelected)
  /\ eFrame = [mode |-> "select", rows |-> 0] /\ eMsgs = {<<"versions", 0>>}

EvologNext ==
  \/ EvologArrives \/ EvologSelectionChanged \/ EvologRestore \/ EvologClicked \/ EvologDraws
  \/ EvologApply \/ EvologPanics \/ EvologCancel \/ EvologCloses
  \/ \E step \in {-2, -1, 1, 2} : EvologNavigate(step)

EvologSpec == EvologInit /\ [][EvologNext]_evologVars

(***************************************************************************)
(* Properties.                                                             *)
(***************************************************************************)

\* The version to restore stays the one chosen: once the restore mode is on screen,
\* moving to the target does not move the cursor of the versions.
RestoreKeepsVersion ==
  [][ evolog.mode = "restore" /\ eFrame.mode = "restore" /\ <<"versions", 0>> \notin eMsgs
      => evolog'.cursor = evolog.cursor ]_evologVars
=============================================================================
