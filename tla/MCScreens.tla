------------------------------ MODULE MCScreens ------------------------------
(***************************************************************************)
(* What is drawn, side by side: the preview, the operation log, the diff   *)
(* and the frame they are in.  One part is in use and the others stand still. *)
(***************************************************************************)
EXTENDS Preview, OpLog, Diff, Layout

VARIABLE inUse

\* No line, no id, a first line without an id and operations of one to three lines.
OLine(id, words) == [id |-> id, words |-> words]
MCOutputs ==
  {<<>>, <<OLine(0, {"a"}), OLine(0, {})>>,
   <<OLine(0, {}), OLine(11, {"a"}), OLine(12, {}), OLine(0, {"b"}), OLine(0, {}), OLine(13, {"a"})>>,
   <<OLine(11, {}), OLine(0, {}), OLine(0, {"b"}), OLine(12, {})>>}

\* Three files and one, and lines shorter and longer than the widths of the view.
MCDiffFiles == [args \in {1, 2} |-> IF args = 1 THEN <<11, 12, 13>> ELSE <<11>>]
MCLinesOf(args, file) ==
  IF file = AllFiles THEN (IF args = NoDiffArgs THEN <<0>> ELSE <<3, 1, 5, 2>>)
  ELSE IF file = 11 THEN <<2, 5, 0>> ELSE <<4>>

MCWindows == {<<6, 4>>, <<2, 3>>}
MCPointers == {<<1, 2>>, <<4, 2>>}

screensVars == <<inUse, previewVars, opLogVars, diffVars, layoutVars>>

Init ==
  /\ inUse \in {"preview", "oplog", "diff", "layout"}
  /\ PreviewInit /\ OpLogInit /\ DiffInit /\ LayoutInit
  /\ inUse = "preview" \/ highlighted = 1               \* the others start in one state
  /\ inUse = "layout" \/ (pane.auto /\ screen.w = 2)

Next ==
  /\ UNCHANGED inUse
  /\ \/ inUse = "preview" /\ PreviewNext /\ UNCHANGED <<opLogVars, diffVars, layoutVars>>
     \/ inUse = "oplog" /\ OpLogNext /\ UNCHANGED <<previewVars, diffVars, layoutVars>>
     \/ inUse = "diff" /\ DiffNext /\ UNCHANGED <<previewVars, opLogVars, layoutVars>>
     \/ inUse = "layout" /\ LayoutNext /\ UNCHANGED <<previewVars, opLogVars, diffVars>>

Spec == Init /\ [][Next]_screensVars
=============================================================================
