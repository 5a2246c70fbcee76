------------------------------ MODULE MCViews ------------------------------
(***************************************************************************)
(* The views and operations that keep lists and texts of their own, side   *)
(* by side: one of them is in use and the others stand still.              *)
(***************************************************************************)
EXTENDS Details, Describe, Evolog, Annotation, Patch, BookmarkPane

VARIABLE inUse

viewsVars == <<inUse, detailsVars, describeVars, evologVars, annotationViewVars, patchVars, paneVars>>

\* The old and new numbers of the lines of two diffs: a file that is rewritten between two
\* loads and gets shorter, and a deleted one.
FileF == FileItem(1, FALSE, << <<0, 0>>, <<0, 2>> >>, 2)
FileShort == FileItem(1, FALSE, << <<0, 1>> >>, 1)
FileG == FileItem(2, TRUE, << <<1, 0>> >>, 1)
MCDiffs == [rev \in ARevisions |-> IF rev = 1 THEN {<<FileF>>, <<FileShort>>} ELSE {<<FileG>>}]

\* Two bookmarks, the second without a local side; then the first is gone and the second has one.
L(name, remote, tracked, commit) == Line(name, remote, TRUE, tracked, commit)
MCBookmarkLists ==
  {<<L(1, LocalRemote, FALSE, 21), L(1, GitRemote, TRUE, 21), L(1, Origin, TRUE, 21), L(2, Origin, FALSE, 22)>>,
   <<L(2, LocalRemote, FALSE, 22)>>}
MCContexts == {[current |-> 22, visible |-> <<22>>]}

Init ==
  /\ inUse \in {"details", "describe", "evolog", "annotation", "patch", "bookmarks"}
  /\ DetailsInit /\ DescribeInit /\ EvologInit /\ AnnotationInit /\ PatchInit /\ PaneInit
  /\ inUse = "describe" \/ desc.original = <<>>     \* the others start in one state
  /\ inUse = "evolog" \/ eSelected = 1
  /\ inUse = "annotation" \/ ann.rev = 1

Next ==
  /\ UNCHANGED inUse
  /\ \/ inUse = "details" /\ DetailsNext /\ UNCHANGED <<describeVars, evologVars, annotationViewVars, patchVars, paneVars>>
     \/ inUse = "describe" /\ DescribeNext /\ UNCHANGED <<detailsVars, evologVars, annotationViewVars, patchVars, paneVars>>
     \/ inUse = "evolog" /\ EvologNext /\ UNCHANGED <<detailsVars, describeVars, annotationViewVars, patchVars, paneVars>>
     \/ inUse = "annotation" /\ AnnotationNext /\ UNCHANGED <<detailsVars, describeVars, evologVars, patchVars, paneVars>>
     \/ inUse = "patch" /\ PatchNext /\ UNCHANGED <<detailsVars, describeVars, evologVars, annotationViewVars, paneVars>>
     \/ inUse = "bookmarks" /\ PaneNext /\ UNCHANGED <<detailsVars, describeVars, evologVars, annotationViewVars, patchVars>>

Spec == Init /\ [][Next]_viewsVars
=============================================================================
