----------------------------- MODULE Operations -----------------------------
(***************************************************************************)
(* The operations of the revision list (rebase, squash, abandon, ...): the *)
(* base operation of revisions.Model, the layers above it (the target      *)
(* picker and ace jump), the checked revisions, and the messages between   *)
(* them.  An operation learns where the cursor is by a message that the    *)
(* root model sends after every update that moved the highlight, so it may *)
(* lag behind; it runs jj by a command that closes the operation when it   *)
(* has ended.                                                              *)
(*                                                                         *)
(* A commit is <<change, version>>: the change id stays when a commit is   *)
(* rewritten, the commit id does not.  Change n + 1 is the child of n.     *)
(* Loading is one step here; Revisions has its details.  What a tea.Cmd    *)
(* sends is a sequence of messages, delivered front to back; sequences     *)
(* interleave.                                                             *)
(***************************************************************************)
EXTENDS Integers, Sequences, FiniteSets, Bags, SequencesExt

CONSTANTS
  Changes,     \* 1 .. n, the changes of the repository
  MaxVersion,  \* bound on the snapshots of the working copy
  MaxChecked,  \* bound on the revisions checked at a time
  MaxStarts,   \* bound on the number of operations started
  MaxMoves,    \* bound on the notifications of a moved cursor
  MaxCmds,     \* a key is taken while less than this many commands are under way
  MaxAsked     \* bound on the queries of one operation

ASSUME OperationsAssumption ==
  /\ IsFiniteSet(Changes) /\ Changes # {} /\ Changes = 1 .. Cardinality(Changes)
  /\ {MaxVersion, MaxChecked, MaxStarts, MaxMoves, MaxCmds, MaxAsked} \subseteq Nat

VARIABLES
  version,           \* of the working copy, in the repository
  rows, cursor,      \* the list; the cursor counts from 1
  checkedRevisions,
  reload,            \* the load under way: the change to select, or NoLoad
  baseOp, layers,
  cmds,              \* commands under way, a bag of sequences of messages
  lastHighlighted,
  sent,              \* number of the last notification sent
  seen,              \* whether it is also the last one handled
  started            \* operations started so far

vars == <<version, rows, cursor, checkedRevisions, reload, baseOp, layers, cmds,
          lastHighlighted, sent, seen, started>>

Commits == Changes \X (0 .. MaxVersion)
NoCommit == <<0, 0>>

\* The change a refresh asks to select: none, none and the checks are kept, or a change.
NoChange == 0
Keep == -1
NoLoad == -2

\* Kinds of base operations, after the directories of ui/operations.
InsertKinds == {"rebase", "revert", "duplicate"}
PickerKinds == InsertKinds \cup {"squash", "diff_range"}
FollowKinds == PickerKinds \cup {"absorb", "abandon", "set_parents", "new_between",
                                 "move_bookmark", "create_bookmark"}
EditKinds == {"set_bookmark"}
Kinds == FollowKinds \cup EditKinds

\* The fields of an operation.  from: what it is about; to: the commit under the
\* cursor, as far as it knows; start: where an insertion starts, and the end of a
\* diff range that does not move; marks: what the user toggled; chosen: what jj says
\* the marks stand for; asked: the queries sent; missed (history, of an abandon):
\* the answer to its last query was lost, or the answer to another query came after it
\* or in its place.
Default ==
  [kind |-> "normal", no |-> 0, from |-> {}, to |-> NoCommit, mode |-> "onto",
   start |-> NoCommit, marks |-> {}, chosen |-> {}, asked |-> 0, missed |-> FALSE]

New(kind, from, current) ==
  [Default EXCEPT !.kind = kind, !.no = started + 1, !.from = from, !.to = current]

(***************************************************************************)
(* Messages.                                                               *)
(***************************************************************************)
Msg(type) == [type |-> type, no |-> 0, n |-> 0, at |-> NoCommit, set |-> {}]
Close(o) == [Msg("close") EXCEPT !.no = o.no]
Refresh(change) == [Msg("refresh") EXCEPT !.n = change]
Ended(o) == [Msg("ended") EXCEPT !.no = o.no]
OpenPicker(o) == [Msg("picker") EXCEPT !.no = o.no]

SelectedRevision == IF cursor \in DOMAIN rows THEN rows[cursor] ELSE NoCommit

\* The checked rows, or else the row under the cursor.
SelectedRevisions ==
  LET checked == checkedRevisions \cap Range(rows)
  IN  IF checked # {} THEN checked ELSE {SelectedRevision} \ {NoCommit}

InNormalMode == baseOp.kind = "normal" /\ layers = <<>>

\* RunCommand: jj runs, then the continuations follow, whether it failed or not.
RunCommand(o, continuations) == {<<Ended(o)>> \o continuations}

(***************************************************************************)
(* What the intents of each operation do: the operation afterwards and the *)
(* commands sent.                                                          *)
(***************************************************************************)
Outcome(o, send) == [op |-> o, send |-> send]
AceJumpKey(o) == Outcome(o, {<<Msg("ace")>>})
CancelKey(o) == Outcome(o, {<<Close(o)>>})
PickerKey(o) == Outcome(o, {<<OpenPicker(o)>>})
Flip(S, x) == IF x \in S THEN S \ {x} ELSE S \cup {x}
LastOf(S) == IF S = {} THEN 0 ELSE (CHOOSE c \in S : \A d \in S : c[1] <= d[1])[1]

setTarget(o) ==
  {Outcome([o EXCEPT !.mode = "insert", !.start = o.to], {}), Outcome([o EXCEPT !.mode = "onto"], {})}

rebaseApply(o) == RunCommand(o, <<Refresh(LastOf(o.from)), Close(o)>>)
rebaseIntents(o) == {AceJumpKey(o), PickerKey(o), CancelKey(o), Outcome(o, rebaseApply(o))} \cup setTarget(o)

revertApply(o) == RunCommand(o, <<Refresh(LastOf(o.from)), Close(o)>>)
revertIntents(o) == {AceJumpKey(o), PickerKey(o), CancelKey(o), Outcome(o, revertApply(o))} \cup setTarget(o)

duplicateApply(o) == RunCommand(o, <<Refresh(LastOf(o.from)), Close(o)>>)
duplicateIntents(o) == {AceJumpKey(o), PickerKey(o), CancelKey(o), Outcome(o, duplicateApply(o))} \cup setTarget(o)

\* Squash closes at once, concurrently with the command.
squashApply(o) == {<<Close(o)>>} \cup RunCommand(o, <<Refresh(o.to[1])>>)
squashIntents(o) == {AceJumpKey(o), PickerKey(o), CancelKey(o), Outcome(o, squashApply(o))}

\* The end that follows the cursor is to; swapping only exchanges the roles.
diffRangeApply(o) == {<<Close(o), Ended(o)>>}
diffRangeIntents(o) ==
  {CancelKey(o), PickerKey(o), Outcome(o, diffRangeApply(o))}
    \cup (IF NoCommit \in {o.to, o.start} THEN {Outcome(o, {})}
          ELSE {Outcome([o EXCEPT !.mode = IF @ = "swapped" THEN "onto" ELSE "swapped"], {})})

newBetweenApply(o) ==
  IF o.from = {} /\ o.marks = {} /\ o.to = NoCommit
  THEN {} ELSE {<<Close(o), Ended(o), Refresh(NoChange)>>}
newBetweenIntents(o) ==
  {CancelKey(o), Outcome(o, newBetweenApply(o)),
   Outcome(IF o.to = NoCommit THEN o ELSE [o EXCEPT !.marks = Flip(@, o.to[1])], {})}

\* marks are the parents to add or to remove; without any there is nothing to do.
setParentsIntents(o) ==
  {AceJumpKey(o), CancelKey(o),
   Outcome(IF o.to[1] = LastOf(o.from) THEN o ELSE [o EXCEPT !.marks = Flip(@, o.to[1])], {}),
   Outcome(o, IF o.marks = {} THEN {<<Close(o)>>}
              ELSE RunCommand(o, <<Refresh(LastOf(o.from)), Close(o)>>))}

\* What jj would absorb into by itself; selectDescendantsCmd asks for the part of it
\* that descends from the commit under the cursor.
loadDefaultTargets(source) == {c \in Changes : c < source[1]}
selectDescendantsCmd(o) ==
  Outcome([o EXCEPT !.asked = @ + 1],
          {<<[Msg("targets") EXCEPT !.no = o.no, !.n = o.asked + 1,
               !.set = {c \in Changes : o.to[1] <= c /\ c < LastOf(o.from)}]>>})

\* chosen are the targets, start with the defaults (marks) and are replaced by answers.
NewAbsorb(source) ==
  [New("absorb", {source}, source) EXCEPT
     !.marks = loadDefaultTargets(source), !.chosen = loadDefaultTargets(source)]
absorbIntents(o) ==
  {AceJumpKey(o), CancelKey(o),
   Outcome(IF o.to[1] = LastOf(o.from) THEN o ELSE [o EXCEPT !.chosen = Flip(@, o.to[1])], {}),
   Outcome(o, IF o.chosen = {} /\ o.marks # {} THEN {<<Close(o)>>}
              ELSE RunCommand(o, <<Refresh(LastOf(o.from)), Close(o)>>))}
    \cup (IF o.asked = MaxAsked THEN {} ELSE {selectDescendantsCmd(o)})

(***************************************************************************)
(* Abandon: toggled changes and toggled descendants are resolved by jj,    *)
(* asynchronously, and Apply abandons the last resolution.                 *)
(***************************************************************************)
Resolve(marks) == UNION {IF m[2] THEN {c \in Changes : c >= m[1]} ELSE {m[1]} : m \in marks}

\* A mark is <<change, with descendants>>.
NewAbandon(revisions, current) ==
  [New("abandon", revisions, current) EXCEPT
     !.marks = {<<c[1], FALSE>> : c \in revisions}, !.chosen = {c[1] : c \in revisions}]
toggle(marks, change, descendants) ==
  IF <<change, descendants>> \in marks THEN marks \ {<<change, descendants>>}
  ELSE (marks \ {<<change, ~descendants>>}) \cup {<<change, descendants>>}

\* Mutant of refreshSelectedRevisionsCmd: an empty revset leaves the last resolution.
refreshSelectedRevisionsKept(o) ==
  IF o.marks = {} THEN Outcome([o EXCEPT !.asked = @ + 1, !.missed = FALSE], {})
  ELSE Outcome([o EXCEPT !.asked = @ + 1, !.missed = FALSE],
               {<<[Msg("selection answer") EXCEPT !.no = o.no, !.n = o.asked + 1, !.set = Resolve(o.marks)]>>})

refreshSelectedRevisionsCmd(o) ==
  IF o.marks = {} THEN Outcome([o EXCEPT !.chosen = {}, !.asked = @ + 1, !.missed = FALSE], {})
  ELSE Outcome([o EXCEPT !.asked = @ + 1, !.missed = FALSE],
               {<<[Msg("selection answer") EXCEPT !.no = o.no, !.n = o.asked + 1, !.set = Resolve(o.marks)]>>})

abandonApply(o) == IF o.chosen = {} THEN {} ELSE RunCommand(o, <<Refresh(NoChange), Close(o)>>)
abandonIntents(o) ==
  {AceJumpKey(o), CancelKey(o), Outcome(o, abandonApply(o))}
    \cup (IF o.asked = MaxAsked THEN {} ELSE
           {refreshSelectedRevisionsCmd([o EXCEPT !.marks = toggle(@, o.to[1], d)]) : d \in BOOLEAN})

moveBookmarkIntents(o) ==
  {Outcome(o, {<<Close(o), Msg("move cancelled")>>}),
   Outcome(o, IF o.to = NoCommit THEN {} ELSE RunCommand(o, <<Close(o), Refresh(NoChange)>>))}
createBookmarkIntents(o) ==
  {CancelKey(o),
   Outcome(o, IF o.to = NoCommit THEN {} ELSE {<<[Msg("set bookmark") EXCEPT !.at = o.to]>>})}
setBookmarkIntents(o) == {CancelKey(o), Outcome(o, RunCommand(o, <<Close(o), Refresh(NoChange)>>))}

Intents(o) ==
  CASE o.kind = "rebase" -> rebaseIntents(o)
    [] o.kind = "revert" -> revertIntents(o)
    [] o.kind = "duplicate" -> duplicateIntents(o)
    [] o.kind = "squash" -> squashIntents(o)
    [] o.kind = "diff_range" -> diffRangeIntents(o)
    [] o.kind = "new_between" -> newBetweenIntents(o)
    [] o.kind = "set_parents" -> setParentsIntents(o)
    [] o.kind = "absorb" -> absorbIntents(o)
    [] o.kind = "abandon" -> abandonIntents(o)
    [] o.kind = "move_bookmark" -> moveBookmarkIntents(o)
    [] o.kind = "create_bookmark" -> createBookmarkIntents(o)
    [] o.kind = "set_bookmark" -> setBookmarkIntents(o)
    [] OTHER -> {}

\* TargetSelectedMsg: an operation with a picker takes the name and applies.
targetSelected(o) ==
  CASE o.kind = "rebase" -> Outcome(o, rebaseApply(o))
    [] o.kind = "revert" -> Outcome(o, revertApply(o))
    [] o.kind = "duplicate" -> Outcome(o, duplicateApply(o))
    [] o.kind = "squash" -> Outcome(o, squashApply(o))
    [] o.kind = "diff_range" -> Outcome(o, diffRangeApply(o))
    [] OTHER -> Outcome(o, {})

\* Mutant of setSelectedRevision: an operation that inserts keeps its target.
setSelectedRevisionOnce(o, commit) ==
  IF o.kind \in FollowKinds /\ o.mode # "insert" THEN [o EXCEPT !.to = commit] ELSE o

setSelectedRevision(o, commit) ==
  IF o.kind \in FollowKinds /\ commit # NoCommit THEN [o EXCEPT !.to = commit] ELSE o

(***************************************************************************)
(* The root model notifies the views when the highlight has moved; what an *)
(* update sends is handed over here.                                       *)
(***************************************************************************)
Send(bag, sequences) == bag (+) SetToBag(sequences)

notifyHighlightChange(bag) ==
  LET now == SelectedRevision'
  IN  IF now = lastHighlighted THEN cmds' = bag /\ UNCHANGED <<lastHighlighted, sent, seen>>
      ELSE /\ lastHighlighted' = now /\ sent' = sent + 1 /\ seen' = FALSE
           /\ cmds' = Send(bag, {<<[Msg("selection changed") EXCEPT !.n = sent + 1, !.at = now]>>})

CanAct == BagCardinality(cmds) < MaxCmds
CanMove == CanAct /\ sent < MaxMoves
IsEditing == IF layers # <<>> THEN TRUE ELSE baseOp.kind \in EditKinds

setBaseOperation(o) == baseOp' = o /\ layers' = <<>> /\ started' = started + 1
resetOperations == baseOp' = Default /\ layers' = <<>>
popLayer == layers' = Front(layers)
pushLayer(layer) == layers' = Append(layers, layer)

(***************************************************************************)
(* Keys of the list.                                                       *)
(***************************************************************************)

\* Navigation, clicks, searches: the cursor goes to some row.
Move ==
  /\ CanMove /\ ~IsEditing
  /\ \E i \in DOMAIN rows \ {cursor} : cursor' = i
  /\ UNCHANGED <<version, rows, checkedRevisions, reload, baseOp, layers, started>>
  /\ notifyHighlightChange(cmds)

\* RevisionsToggleSelect and a click with Ctrl.
toggleCheckedRevision ==
  /\ CanAct /\ InNormalMode /\ SelectedRevision # NoCommit
  /\ checkedRevisions' = Flip(checkedRevisions, SelectedRevision)
  /\ Cardinality(checkedRevisions') <= MaxChecked
  /\ UNCHANGED <<version, rows, cursor, reload, baseOp, layers, cmds, lastHighlighted, sent, seen, started>>

\* A click with Alt toggles every row from the cursor to the one clicked.
rangeSelect ==
  /\ CanMove /\ ~IsEditing
  /\ \E to \in DOMAIN rows :
       LET range == {rows[i] : i \in {j \in DOMAIN rows : (cursor <= j /\ j <= to) \/ (to <= j /\ j <= cursor)}}
       IN  /\ checkedRevisions' = (checkedRevisions \ range) \cup (range \ checkedRevisions)
           /\ cursor' = to
  /\ Cardinality(checkedRevisions') <= MaxChecked
  /\ UNCHANGED <<version, rows, reload, baseOp, layers, started>>
  /\ notifyHighlightChange(cmds)

\* The operations that need a revision refuse to start without one.
Start(kind) ==
  /\ CanAct /\ InNormalMode /\ started < MaxStarts
  /\ \/ SelectedRevisions # {} /\ kind # "squash"
     \/ kind \in {"diff_range", "new_between"}
  /\ setBaseOperation(
       CASE kind = "diff_range" -> [New(kind, {SelectedRevision}, SelectedRevision) EXCEPT !.start = SelectedRevision]
         [] kind = "abandon" -> NewAbandon(SelectedRevisions, SelectedRevision)
         [] kind = "absorb" -> NewAbsorb(SelectedRevision)
         [] kind \in {"set_parents", "set_bookmark", "move_bookmark", "create_bookmark"} ->
              New(kind, {SelectedRevision}, SelectedRevision)
         [] OTHER -> New(kind, SelectedRevisions, SelectedRevision))
  /\ UNCHANGED <<version, rows, cursor, checkedRevisions, reload, cmds, lastHighlighted, sent, seen>>

\* The row of the parent of what is selected, or else the next one.
jumpToParent ==
  LET parents == {i \in DOMAIN rows : rows[i][1] = LastOf(SelectedRevisions) - 1}
  IN  IF parents # {} THEN CHOOSE i \in parents : TRUE
      ELSE IF cursor < Len(rows) THEN cursor + 1 ELSE cursor

\* Squash first moves the cursor to the parent of what is squashed, or down.
startSquash ==
  /\ CanMove /\ InNormalMode /\ started < MaxStarts /\ SelectedRevisions # {}
  /\ cursor' = jumpToParent
  /\ setBaseOperation(New("squash", SelectedRevisions, rows[jumpToParent]))
  /\ UNCHANGED <<version, rows, checkedRevisions, reload>>
  /\ notifyHighlightChange(cmds)

\* An intent of the operation; the layers above it take its keys.
OperationKey ==
  /\ CanAct /\ layers = <<>>
  /\ \E outcome \in Intents(baseOp) :
       baseOp' = outcome.op /\ cmds' = Send(cmds, outcome.send)
  /\ UNCHANGED <<version, rows, cursor, checkedRevisions, reload, layers, lastHighlighted, sent, seen, started>>

\* Cancel in normal mode clears what is checked.
CancelChecked ==
  /\ CanAct /\ InNormalMode /\ checkedRevisions # {}
  /\ checkedRevisions' = {} /\ resetOperations
  /\ UNCHANGED <<version, rows, cursor, reload, cmds, lastHighlighted, sent, seen, started>>

(***************************************************************************)
(* The layers.  A picker knows which operation opened it only in the model;*)
(* ace jump holds the commits it labelled, by row.                         *)
(***************************************************************************)
PickerLayer(no) == [type |-> "picker", no |-> no, labels |-> <<>>]
AceLayer == [type |-> "ace", no |-> 0, labels |-> rows]
HasTop(type) == layers # <<>> /\ Last(layers).type = type

\* Enter: accept sends the target; the picker stays until the message is handled.
accept ==
  /\ CanAct /\ HasTop("picker")
  /\ cmds' = Send(cmds, {<<[Msg("target") EXCEPT !.no = Last(layers).no]>>})
  /\ UNCHANGED <<version, rows, cursor, checkedRevisions, reload, baseOp, layers, lastHighlighted, sent, seen, started>>

TargetPickerCancel ==
  /\ CanAct /\ HasTop("picker")
  /\ cmds' = Send(cmds, {<<Msg("picker cancelled")>>})
  /\ UNCHANGED <<version, rows, cursor, checkedRevisions, reload, baseOp, layers, lastHighlighted, sent, seen, started>>

\* The last letter of a label: the cursor goes to the row that had the label.
AceFound(i) ==
  /\ CanMove /\ HasTop("ace") /\ i \in DOMAIN Last(layers).labels
  /\ cursor' = IF i \in DOMAIN rows THEN i ELSE cursor
  /\ UNCHANGED <<version, rows, checkedRevisions, reload, baseOp, layers, started>>
  /\ notifyHighlightChange(Send(cmds, {<<Msg("close")>>}))

AceCancel ==
  /\ CanAct /\ HasTop("ace")
  /\ cmds' = Send(cmds, {<<Msg("close")>>})
  /\ UNCHANGED <<version, rows, cursor, checkedRevisions, reload, baseOp, layers, lastHighlighted, sent, seen, started>>

(***************************************************************************)
(* Messages.  rest is what follows in the same tea.Sequence.               *)
(***************************************************************************)
Rest(sequence) ==
  LET others == cmds (-) SetToBag({sequence})
  IN  IF Len(sequence) = 1 THEN others ELSE Send(others, {Tail(sequence)})

\* A close pops the top layer, whichever view it was meant for.
CloseView(rest) ==
  /\ IF layers # <<>> THEN popLayer /\ UNCHANGED baseOp ELSE resetOperations
  /\ cmds' = rest
  /\ UNCHANGED <<version, rows, cursor, checkedRevisions, reload, lastHighlighted, sent, seen, started>>

SelectionChanged(m, rest) ==
  /\ baseOp' = setSelectedRevision(baseOp, m.at) /\ seen' = (m.n = sent) /\ cmds' = rest
  /\ UNCHANGED <<version, rows, cursor, checkedRevisions, reload, layers, lastHighlighted, sent, started>>

OpenTargetPicker(m, rest) ==
  /\ pushLayer(PickerLayer(m.no)) /\ cmds' = rest
  /\ UNCHANGED <<version, rows, cursor, checkedRevisions, reload, baseOp, lastHighlighted, sent, seen, started>>

StartAceJump(rest) ==
  /\ pushLayer(AceLayer) /\ cmds' = rest
  /\ UNCHANGED <<version, rows, cursor, checkedRevisions, reload, baseOp, lastHighlighted, sent, seen, started>>

TargetSelected(rest) ==
  /\ layers' = IF layers = <<>> THEN <<>> ELSE Front(layers)
  /\ LET outcome == targetSelected(baseOp)
     IN  baseOp' = outcome.op /\ cmds' = Send(rest, outcome.send)
  /\ UNCHANGED <<version, rows, cursor, checkedRevisions, reload, lastHighlighted, sent, seen, started>>

PickerCancelled(rest) ==
  /\ layers' = IF layers = <<>> THEN <<>> ELSE Front(layers)
  /\ cmds' = rest
  /\ UNCHANGED <<version, rows, cursor, checkedRevisions, reload, baseOp, lastHighlighted, sent, seen, started>>

\* What an answer does to an abandon and to an absorb: it carries no name, and replaces
\* what is chosen.
IsLatest(o, m) == m.no = o.no /\ m.n = o.asked
addSelection(o, m) ==
  IF o.kind = "abandon" THEN [o EXCEPT !.chosen = m.set, !.missed = ~IsLatest(o, m)] ELSE o
setTargets(o, m) == IF o.kind = "absorb" THEN [o EXCEPT !.chosen = m.set] ELSE o
lose(o, m) == [o EXCEPT !.missed = @ \/ (m.type = "selection answer" /\ IsLatest(o, m))]

\* An answer goes to the top layer, or else to the operation, which may be another
\* one by now; if jj fails there is none.
Answer(m, rest) ==
  /\ \/ baseOp' = lose(baseOp, m)
     \/ /\ layers = <<>>
        /\ baseOp' = IF m.type = "selection answer" THEN addSelection(baseOp, m) ELSE setTargets(baseOp, m)
  /\ cmds' = rest
  /\ UNCHANGED <<version, rows, cursor, checkedRevisions, reload, layers, lastHighlighted, sent, seen, started>>

\* OpenSetBookmark sent by the operation that looks for a revision.
OpenSetBookmark(m, rest) ==
  /\ setBaseOperation([New("set_bookmark", {m.at}, m.at) EXCEPT !.no = baseOp.no])
  /\ cmds' = rest
  /\ UNCHANGED <<version, rows, cursor, checkedRevisions, reload, lastHighlighted, sent, seen>>

\* refresh of revisions.Model: what is checked goes unless the refresh keeps it.
refresh(m, rest) ==
  /\ checkedRevisions' = IF m.n = Keep THEN checkedRevisions ELSE {}
  /\ reload' = m.n /\ cmds' = rest
  /\ UNCHANGED <<version, rows, cursor, baseOp, layers, lastHighlighted, sent, seen, started>>

\* The end of a command, and messages for other views.
Unheard(rest) ==
  /\ cmds' = rest
  /\ UNCHANGED <<version, rows, cursor, checkedRevisions, reload, baseOp, layers, lastHighlighted, sent, seen, started>>

Deliver ==
  \E sequence \in BagToSet(cmds) :
    LET m == Head(sequence)
        rest == Rest(sequence)
    IN  \/ m.type = "close" /\ CloseView(rest)
        \/ m.type = "selection changed" /\ SelectionChanged(m, rest)
        \/ m.type = "picker" /\ OpenTargetPicker(m, rest)
        \/ m.type = "ace" /\ StartAceJump(rest)
        \/ m.type = "target" /\ TargetSelected(rest)
        \/ m.type = "picker cancelled" /\ PickerCancelled(rest)
        \/ m.type \in {"selection answer", "targets"} /\ Answer(m, rest)
        \/ m.type = "set bookmark" /\ OpenSetBookmark(m, rest)
        \/ m.type = "refresh" /\ refresh(m, rest)
        \/ m.type \in {"ended", "move cancelled"} /\ Unheard(rest)

(***************************************************************************)
(* jj snapshots the working copy, jjui notices and reloads.                *)
(***************************************************************************)
AutoRefresh ==
  /\ CanAct
  /\ version < MaxVersion /\ version' = version + 1
  /\ cmds' = Send(cmds, {<<Refresh(Keep)>>})
  /\ UNCHANGED <<rows, cursor, checkedRevisions, reload, baseOp, layers, lastHighlighted, sent, seen, started>>

\* The newest change is the working copy.
Commit(c) == <<c, IF c = Cardinality(Changes) THEN version ELSE 0>>

\* What a revset may show: some of the changes, newest first.
Lists ==
  UNION {{list \in [1 .. n -> {Commit(c) : c \in Changes}] : \A i, j \in 1 .. n : i < j => list[i][1] > list[j][1]} :
           n \in 0 .. Cardinality(Changes)}

CursorAfterLoad(list) ==
  LET wanted == IF reload > 0 THEN reload ELSE SelectedRevision[1]
      found == {i \in DOMAIN list : list[i][1] = wanted}
  IN  IF found # {} THEN CHOOSE i \in found : TRUE ELSE 1

\* The operation is told of another commit under the cursor, directly.
operationSelectionChanged ==
  baseOp' = IF SelectedRevision' \in {NoCommit, SelectedRevision} THEN baseOp
            ELSE setSelectedRevision(baseOp, SelectedRevision')

\* updateRevisionsMsg: the cursor stays with its change or goes to the one asked for.
updateGraphRows ==
  /\ reload # NoLoad /\ sent < MaxMoves
  /\ reload' = NoLoad
  /\ \E list \in Lists :
       rows' = list /\ cursor' = CursorAfterLoad(list)
  /\ operationSelectionChanged
  /\ UNCHANGED <<version, checkedRevisions, layers, started>>
  /\ notifyHighlightChange(cmds)

Init ==
  /\ version = 0
  /\ rows \in Lists /\ cursor = 1 /\ checkedRevisions = {} /\ reload = NoLoad
  /\ baseOp = Default /\ layers = <<>> /\ cmds = EmptyBag
  /\ lastHighlighted = SelectedRevision /\ sent = 0 /\ seen = TRUE /\ started = 0

Next ==
  \/ Move \/ toggleCheckedRevision \/ rangeSelect
  \/ \E kind \in Kinds : Start(kind)
  \/ startSquash \/ OperationKey \/ CancelChecked
  \/ accept \/ TargetPickerCancel \/ AceCancel
  \/ \E i \in 1 .. Cardinality(Changes) : AceFound(i)
  \/ Deliver \/ AutoRefresh \/ updateGraphRows

Spec == Init /\ [][Next]_vars

(***************************************************************************)
(* Properties.                                                             *)
(***************************************************************************)

\* Every variable has a value of its type, and the cursor is on a row if there is one.
TypeOK ==
  /\ rows \in Seq(Commits) /\ checkedRevisions \subseteq Commits
  /\ rows # <<>> => cursor \in DOMAIN rows
  /\ baseOp.kind \in Kinds \cup {"normal"} /\ baseOp.to \in Commits \cup {NoCommit}
  /\ \A i \in DOMAIN layers : layers[i].type \in {"picker", "ace"}
  /\ IsABag(cmds) /\ sent \in 0 .. MaxMoves /\ seen \in BOOLEAN

\* The target of an operation is the row under the cursor, unless the notifications
\* of the moves are still under way or arrived out of order: moving, ace jump, a
\* reload and a rewritten commit all reach the operation.
TargetFollowsCursor ==
  ( /\ baseOp.kind \in FollowKinds
    /\ SelectedRevision # NoCommit
    /\ seen )
  => baseOp.to = SelectedRevision

\* The answer to the last query of an abandon is still to come.
AnswerUnderWay ==
  \E sequence \in BagToSet(cmds) :
    Head(sequence).type = "selection answer" /\ IsLatest(baseOp, Head(sequence))

\* What Apply would abandon is what the markers in the list say, or the answer that will
\* make it so is under way: through toggles, cleared marks, answers in any order and
\* abandons closed and opened again.  It is not so from the moment an answer to an earlier
\* query, or to one of an abandon closed by now, is handled, since an answer carries no
\* name, or the answer to the last query is lost under a layer or because jj fails
\* (missed), until the answer to the last query is handled or the next toggle.
AbandonsWhatIsMarked ==
  baseOp.kind = "abandon" => baseOp.chosen = Resolve(baseOp.marks) \/ AnswerUnderWay \/ baseOp.missed

\* GetChangeId of a missing commit panics: an operation always has a target and a
\* source, and an insertion a start, whatever is reloaded while it is open.  A diff
\* range and "new between" do start on an empty list.
NothingMissing ==
  /\ baseOp.kind \in Kinds \ {"diff_range", "new_between"} => baseOp.to # NoCommit /\ baseOp.from # {}
  /\ baseOp.mode = "insert" => baseOp.start # NoCommit

\* An operation of the list has a target and a source at all times, and its target is the row under
\* the cursor once the notifications of the moves have come (SetSelectedRevision of each operation).
TargetsAreSound == TypeOK /\ TargetFollowsCursor /\ NothingMissing
=============================================================================
