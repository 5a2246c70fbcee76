----------------------------- MODULE ViewLayers -----------------------------
(***************************************************************************)
(* The views that the root model keeps over the revision list: one ordered *)
(* list of layers, the expanded status help around it, and the messages    *)
(* that open and close them.  A message that closes or opens a view says   *)
(* not which one: it acts on the list as it finds it, and between a key    *)
(* and its message other messages may have changed the list.               *)
(*                                                                         *)
(* A layer is its kind.  Dialogs of other kinds behave as "bookmarks" (a   *)
(* command of theirs ends with CloseApplied), as "choose" (choose, input)  *)
(* or as "picker".                                                         *)
(***************************************************************************)
EXTENDS Integers, Sequences, FiniteSets, Bags, SequencesExt

CONSTANTS
  Dialogs,      \* kinds of dialogs in use
  MaxLayers,    \* bound on the list
  MaxMsgs,      \* bound on the messages under way
  MaxOpLayers  \* bound on the own layers of the revisions view

Screens == {"oplog", "diff", "annotation"}
AllDialogs == {"bookmarks", "choose", "picker", "history"}

ASSUME DialogsAssumption == Dialogs \subseteq AllDialogs
ASSUME BoundsAssumption == MaxLayers \in Nat /\ MaxMsgs \in Nat /\ MaxOpLayers \in Nat

VARIABLES
  layers,           \* bottom to top
  statusExpanded, sequence,   \* help overlay; key sequence under way
  contentFocused,   \* the split pane is shown and has the focus
  baseOp, opLayers, \* the revisions view runs an operation; its own layers
  uncopied, confirming,       \* comments of the annotation not yet copied; its question
  msgs              \* messages under way

statusVars == <<statusExpanded, sequence>>
operationVars == <<baseOp, opLayers>>
annotationVars == <<uncopied, confirming>>
vars == <<layers, statusVars, contentFocused, operationVars, annotationVars, msgs>>

Init ==
  /\ layers = <<>> /\ statusExpanded = FALSE /\ sequence = "none"
  /\ contentFocused = FALSE /\ baseOp = FALSE /\ opLayers = 0
  /\ uncopied = FALSE /\ confirming = FALSE /\ msgs = EmptyBag

-----------------------------------------------------------------------------
(* layers.go.                                                              *)

Top == IF layers = <<>> THEN "revisions" ELSE Last(layers)
IsDialog(kind) == kind \in AllDialogs
primary == IF "oplog" \in Range(layers) THEN "oplog" ELSE "revisions"
ScreenOnTop ==
  LET screens == SelectSeq(layers, LAMBDA l : l \in Screens)
  IN  IF screens = <<>> THEN "revisions" ELSE Last(screens)
acceptsTargets == ScreenOnTop \in {"diff", "annotation"}

closeDialog(ls) == IF ls # <<>> /\ IsDialog(Last(ls)) THEN Front(ls) ELSE ls
openDialog(ls, kind) == Append(closeDialog(ls), kind)
\* Mutant of openScreen: the screen that is open already stays.
openAnotherScreen(ls, kind) == Append(ls, kind)
\* The screens of that kind go first; there is at most one (OneScreenOfAKind).
WithoutScreen(ls, kind) ==
  IF kind \in Range(ls) THEN RemoveAt(ls, CHOOSE i \in DOMAIN ls : ls[i] = kind) ELSE ls
openScreen(ls, kind) == Append(WithoutScreen(ls, kind), kind)

Fits(ls) == Len(ls) <= MaxLayers

\* A message joins the ones under way.
Post(bag, m) == bag (+) SetToBag({m})
Close(applied, from) == [type |-> "close", applied |-> applied, from |-> from]

\* The annotation view goes away with its comments.
ForgetAnnotation == uncopied' = FALSE /\ confirming' = FALSE

\* Mutants of closeTopLayer: no question is asked; every dialog answers a close
\* with a close.
closeTopLayerAtOnce(m, rest) ==
  /\ layers' = Front(layers)
  /\ msgs' = IF Top = "choose" THEN Post(rest, [type |-> "answered"]) ELSE rest
  /\ IF Top = "annotation" THEN ForgetAnnotation ELSE UNCHANGED annotationVars
closeTopLayerEchoes(m, rest) ==
  /\ layers' = Front(layers)
  /\ msgs' = IF IsDialog(Top) THEN Post(rest, Close(FALSE, "key")) ELSE rest
  /\ IF Top = "annotation" THEN ForgetAnnotation ELSE UNCHANGED annotationVars

\* An annotation with uncopied comments asks before a close that was not
\* applied; a dialog is told of the close and may answer with a message.
closeTopLayer(m, rest) ==
  IF Top = "annotation" /\ ~m.applied /\ uncopied
    THEN /\ confirming' = TRUE
         /\ msgs' = rest
         /\ UNCHANGED <<layers, uncopied>>
    ELSE /\ layers' = Front(layers)
         /\ msgs' = CASE Top = "choose"  -> Post(rest, [type |-> "answered"])
                      [] Top = "history" -> Post(rest, Close(FALSE, "history"))
                      [] OTHER -> rest
         /\ IF Top = "annotation" THEN ForgetAnnotation ELSE UNCHANGED annotationVars

-----------------------------------------------------------------------------
(* Keys.  A key that ends a sequence first closes the help it opened.      *)

ExpandedAfterClear == IF sequence = "auto" THEN FALSE ELSE statusExpanded
clearSequenceStatusHelp == sequence' = "none" /\ statusExpanded' = ExpandedAfterClear

setSequenceStatusHelp ==
  /\ IF sequence = "none"
       THEN sequence' = (IF statusExpanded THEN "kept" ELSE "auto") /\ statusExpanded' = TRUE
       ELSE UNCHANGED statusVars
  /\ UNCHANGED <<layers, contentFocused, operationVars, annotationVars, msgs>>

\* The ui scope is out of reach behind a scope that leaks nothing.
UiReachable == Top # "picker" /\ ~(Top = "annotation" /\ confirming)

KeyOnLayers(new) ==
  /\ UiReachable /\ Fits(new)
  /\ layers' = new
  /\ clearSequenceStatusHelp
  /\ UNCHANGED <<contentFocused, operationVars, annotationVars, msgs>>

OpenBookmarks == "bookmarks" \in Dialogs /\ KeyOnLayers(openDialog(layers, "bookmarks"))
OpLogOpen == KeyOnLayers(openScreen(layers, "oplog"))
CommandHistoryToggle ==
  /\ "history" \in Dialogs
  /\ KeyOnLayers(IF Top = "history" THEN closeDialog(layers) ELSE openDialog(layers, "history"))

\* Keys that start a command; its message arrives later.
KeyPosts(m) ==
  /\ BagCardinality(msgs) < MaxMsgs
  /\ msgs' = Post(msgs, m)
  /\ clearSequenceStatusHelp
  /\ UNCHANGED <<layers, contentFocused, operationVars, annotationVars>>

\* From the revisions view: a refresh, a diff, an annotation.
ShowFromRevisions(type) == Top = "revisions" /\ KeyPosts([type |-> type])

OpenTargetPicker ==
  /\ "picker" \in Dialogs /\ ~confirming
  /\ Top \in {"diff", "annotation"} \/ (Top = "revisions" /\ baseOp)
  /\ KeyPosts([type |-> "openPicker"])

\* A script asks the user.
ShowChoose == "choose" \in Dialogs /\ KeyPosts([type |-> "choose"])

\* Closing keys: the cancel key of the top view, or the cancel fallback.
CancelKey ==
  CASE Top = "choose" -> KeyPosts([type |-> "answered"])
    [] Top = "picker" -> KeyPosts([type |-> "pickerDone"])
    [] Top = "annotation" /\ confirming -> FALSE
    [] Top = "revisions" /\ ~baseOp /\ opLayers = 0 /\ ~contentFocused -> FALSE
    [] OTHER -> KeyPosts(Close(FALSE, "key"))

\* The cancel fallback with no layer collapses the help itself.
CancelHelp ==
  /\ layers = <<>> /\ ExpandedAfterClear
  /\ sequence' = "none" /\ statusExpanded' = FALSE
  /\ UNCHANGED <<layers, contentFocused, operationVars, annotationVars, msgs>>

\* The dialog or the operation runs its command, which ends with CloseApplied;
\* until then it stays open.
ApplyCommand ==
  /\ Top = "bookmarks" \/ (Top = "revisions" /\ baseOp)
  /\ KeyPosts(Close(TRUE, "command"))

\* The help expands only if the status line has had to truncate it.
ExpandStatusToggle ==
  /\ UiReachable
  /\ sequence' = "none"
  /\ statusExpanded' \in IF ExpandedAfterClear THEN {FALSE} ELSE BOOLEAN
  /\ UNCHANGED <<layers, contentFocused, operationVars, annotationVars, msgs>>

\* Keys of the annotation view: a comment, a copy, and its question.
AnnotationKey(u, c) ==
  /\ Top = "annotation"
  /\ uncopied' = u /\ confirming' = c
  /\ clearSequenceStatusHelp
  /\ UNCHANGED <<layers, contentFocused, operationVars, msgs>>
AddComment    == ~confirming /\ AnnotationKey(TRUE, FALSE)
CopyComments  == ~confirming /\ AnnotationKey(FALSE, FALSE)
KeepReviewing == Top = "annotation" /\ confirming /\ KeyPosts([type |-> "keepReviewing"])
Discard == Top = "annotation" /\ confirming /\ KeyPosts(Close(TRUE, "discard"))

\* Keys of the revisions view and its split pane.
StartOperation ==
  /\ Top = "revisions" /\ ~baseOp /\ opLayers = 0
  /\ baseOp' = TRUE /\ opLayers' = 0
  /\ clearSequenceStatusHelp
  /\ UNCHANGED <<layers, contentFocused, annotationVars, msgs>>
FocusPane ==
  /\ Top = "revisions" /\ contentFocused' = ~contentFocused
  /\ clearSequenceStatusHelp
  /\ UNCHANGED <<layers, operationVars, annotationVars, msgs>>

-----------------------------------------------------------------------------
(* Messages.                                                               *)

\* revisions.Model: a close pops a layer of its own or leaves the operation.
popLayer == opLayers' = (IF opLayers > 0 THEN opLayers - 1 ELSE 0) /\ UNCHANGED baseOp
RevisionsClose == IF opLayers > 0 THEN popLayer ELSE baseOp' = FALSE /\ UNCHANGED opLayers

closeTopScope(m, rest) ==
  IF ~m.applied /\ ~IsDialog(Top) /\ statusExpanded
    THEN /\ statusExpanded' = FALSE /\ msgs' = rest
         /\ UNCHANGED <<layers, sequence, contentFocused, operationVars, annotationVars>>
    ELSE IF layers # <<>>
      THEN closeTopLayer(m, rest) /\ UNCHANGED <<statusVars, contentFocused, operationVars>>
      ELSE /\ contentFocused' = FALSE
           /\ IF contentFocused THEN UNCHANGED operationVars ELSE RevisionsClose
           /\ msgs' = rest
           /\ UNCHANGED <<layers, statusVars, annotationVars>>

CloseView(m, rest) ==
  /\ m.type = "close"
  /\ closeTopScope(m, rest)

\* Handlers that change the list only.
ListMsg(new, rest) ==
  /\ Fits(new)
  /\ layers' = new /\ msgs' = rest
  /\ UNCHANGED <<statusVars, contentFocused>>

\* SelectedMsg or CancelledMsg of a choice closes the dialog on top, whichever
\* it is; TargetSelectedMsg and TargetPickerCancelMsg too, over a screen that
\* accepts targets, and otherwise concern the revisions view.
Answered(m, rest) ==
  /\ m.type \in {"answered", "pickerDone"}
  /\ ListMsg(IF m.type = "answered" \/ acceptsTargets THEN closeDialog(layers) ELSE layers, rest)
  /\ IF m.type = "pickerDone" /\ ~(acceptsTargets /\ IsDialog(Top)) /\ primary = "revisions"
       THEN popLayer ELSE UNCHANGED operationVars
  /\ UNCHANGED <<annotationVars>>

ShowChooseMsg(m, rest) ==
  /\ m.type = "choose"
  /\ ListMsg(openDialog(layers, "choose"), rest)
  /\ UNCHANGED <<operationVars, annotationVars>>

OpenTargetPickerMsg(m, rest) ==
  /\ m.type = "openPicker"
  /\ ListMsg(IF acceptsTargets THEN openDialog(layers, "picker") ELSE layers, rest)
  /\ opLayers' = IF ~acceptsTargets /\ primary = "revisions" THEN opLayers + 1 ELSE opLayers
  /\ opLayers' <= MaxOpLayers /\ UNCHANGED baseOp
  /\ UNCHANGED <<annotationVars>>

DiffShow(m, rest) ==
  /\ m.type = "diffShow"
  /\ ListMsg(openScreen(layers, "diff"), rest)
  /\ UNCHANGED <<operationVars, annotationVars>>

\* A new annotation view takes the place of one that is open.
AnnotationShow(m, rest) ==
  /\ m.type = "annotationShow"
  /\ ListMsg(openScreen(layers, "annotation"), rest)
  /\ ForgetAnnotation
  /\ UNCHANGED operationVars

\* confirmation.CloseMsg reaches the annotation view wherever it is.
KeepReviewingMsg(m, rest) ==
  /\ m.type = "keepReviewing"
  /\ ListMsg(layers, rest)
  /\ confirming' = FALSE
  /\ UNCHANGED <<operationVars, uncopied>>

\* Any other message goes to the layers and to the primary view (which the
\* revisions view is only while there is no oplog) and changes no layer.
Broadcast(m, rest) ==
  /\ m.type = "rows"
  /\ ListMsg(layers, rest)
  /\ UNCHANGED <<operationVars, annotationVars>>

\* status.setGroups, on a frame: another number of help groups collapses it.
Frame ==
  /\ statusExpanded /\ statusExpanded' = FALSE
  /\ UNCHANGED <<layers, sequence, contentFocused, operationVars, annotationVars, msgs>>

-----------------------------------------------------------------------------
Handle(m) ==
  LET rest == msgs (-) SetToBag({m}) IN
  \/ CloseView(m, rest) \/ Answered(m, rest) \/ ShowChooseMsg(m, rest)
  \/ OpenTargetPickerMsg(m, rest) \/ DiffShow(m, rest) \/ AnnotationShow(m, rest)
  \/ KeepReviewingMsg(m, rest) \/ Broadcast(m, rest)

Key ==
  \/ setSequenceStatusHelp
  \/ OpenBookmarks \/ OpLogOpen \/ CommandHistoryToggle
  \/ \E type \in {"rows", "diffShow", "annotationShow"} : ShowFromRevisions(type)
  \/ OpenTargetPicker \/ ShowChoose
  \/ CancelKey \/ CancelHelp \/ ApplyCommand \/ ExpandStatusToggle
  \/ AddComment \/ CopyComments \/ KeepReviewing \/ Discard
  \/ StartOperation \/ FocusPane

Next ==
  \/ Key
  \/ \E m \in BagToSet(msgs) : Handle(m)
  \/ Frame

Spec == Init /\ [][Next]_vars

-----------------------------------------------------------------------------
(* Properties.                                                             *)

TypeOK ==
  /\ layers \in Seq(Screens \cup Dialogs) /\ Len(layers) <= MaxLayers
  /\ statusExpanded \in BOOLEAN /\ sequence \in {"none", "auto", "kept"}
  /\ contentFocused \in BOOLEAN /\ baseOp \in BOOLEAN /\ opLayers \in 0 .. MaxOpLayers
  /\ uncopied \in BOOLEAN /\ confirming \in BOOLEAN

\* There is at most one screen of each kind, whatever is opened in which order
\* (openScreen; findLayer and primary rely on it).
OneScreenOfAKind ==
  \A i, j \in DOMAIN layers : layers[i] = layers[j] /\ layers[i] \in Screens => i = j

\* The question about uncopied comments is open only while there are any and
\* the annotation is there to ask it.
QuestionIsAboutComments == confirming => uncopied /\ "annotation" \in Range(layers)

\* How often the message m is under way; it was handled.
Copies(m, bag) == IF m \in DOMAIN bag THEN bag[m] ELSE 0
Handled(m) == Copies(m, msgs') < Copies(m, msgs)
Loses == uncopied /\ ~uncopied' /\ ~CopyComments

\* A close that nobody applied never takes uncopied comments with it: only an
\* applied close or a new annotation does (closeTopLayer).
PlainCloseKeepsComments ==
  [][Loses => \E m \in BagToSet(msgs) :
                /\ Handled(m)
                /\ m.type = "annotationShow" \/ (m.type = "close" /\ m.applied)]_vars

\* A close takes one layer and is gone: it is not answered with another close
\* that would take the next one (closeTopLayer).  Only the command history
\* does answer so (command_history.go:97), and closes what is below it too.
Closes == Copies(Close(FALSE, "key"), msgs) + Copies(Close(FALSE, "history"), msgs)
          + Copies(Close(TRUE, "command"), msgs) + Copies(Close(TRUE, "discard"), msgs)
LayerClosed ==
  /\ layers # <<>> /\ layers' = Front(layers)
  /\ \E m \in BagToSet(msgs) : m.type = "close" /\ Handled(m)
OneCloseOneLayer == [][LayerClosed /\ Top # "history" => Closes' < Closes]_vars

\* However views are opened over one another and messages close them, there is one screen of a
\* kind, and the question about comments has comments to ask about (layers.go).
LayersAreSound == TypeOK /\ OneScreenOfAKind /\ QuestionIsAboutComments
=============================================================================
