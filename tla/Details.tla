------------------------------ MODULE Details ------------------------------
(***************************************************************************)
(* The files of a revision (ui/operations/details): the list with its      *)
(* filter and marks, the questions asked before split, restore and absorb, *)
(* and the loads of `jj status`.                                           *)
(*                                                                         *)
(* load runs jj when it is called, but reads which files are marked later, *)
(* in the goroutine of its command; the answer does not say of which       *)
(* revision it is, and goes to the details that are open when it arrives.  *)
(* Clicks reach the list also while a question is open.                    *)
(***************************************************************************)
EXTENDS Integers, Sequences, FiniteSets, Ordered, Confirmation

CONSTANTS
  Files,          \* 1 .. n, the files a revision may change
  DRevisions,     \* revisions, a set of numbers without 0
  MaxLoads,       \* bound on the loads
  MaxDetailCmds   \* keys are taken while less than this many messages are under way

ASSUME DetailsAssumption ==
  /\ IsFiniteSet(Files) /\ Files = 1 .. Cardinality(Files)
  /\ 0 \notin DRevisions /\ {MaxLoads, MaxDetailCmds} \subseteq Nat

VARIABLES
  details,   \* the operation, or NoDetails
  dLoads,    \* loads under way
  dCmds,     \* sequences of messages under way
  dSent      \* loads begun so far

detailsVars == <<details, dLoads, dCmds, dSent>>

\* A query is 0 (empty) or the file it matches.
Queries == Files \cup {0}
FileItems == [file : Files, selected : BOOLEAN]

\* The cursor counts the visible files from 1; 0 is none.  shown is the number of the
\* load that filled the list and of the revision it was for.
NewDetails(rev) ==
  [open |-> TRUE, rev |-> rev, cur |-> rev, files |-> <<>>, cursor |-> 0, filter |-> "off",
   query |-> 0, question |-> NoQuestion, shown |-> [no |-> 0, rev |-> 0]]
NoDetails == [NewDetails(0) EXCEPT !.open = FALSE]

(***************************************************************************)
(* The list.                                                               *)
(***************************************************************************)
Marked(d) == {d.files[i].file : i \in {j \in DOMAIN d.files : d.files[j].selected}}

\* The indices of the files that pass the filter.
Passing(d) == {i \in DOMAIN d.files : d.filter = "off" \/ d.query \in {0, d.files[i].file}}
Visible(d) == InOrder(Passing(d))

\* The index of the file under the cursor, and that file, as sets with at most one element.
current(d) == IF d.cursor \in DOMAIN Visible(d) THEN {Visible(d)[d.cursor]} ELSE {}
currentFile(d) == {d.files[i].file : i \in current(d)}

rebuildMatches(d, preferred) ==
  LET seen == Visible(d)
      found == {i \in DOMAIN seen : d.files[seen[i]].file \in preferred}
  IN  [d EXCEPT !.cursor = IF seen = <<>> THEN 0
                           ELSE IF found # {} THEN CHOOSE i \in found : TRUE
                           ELSE IF preferred # {} \/ d.cursor = 0 THEN 1
                           ELSE IF d.cursor > Len(seen) THEN Len(seen) ELSE d.cursor]

setItems(d, files) == rebuildMatches([d EXCEPT !.files = files], currentFile(d))

setFilter(d, filter, query) ==
  rebuildMatches([d EXCEPT !.filter = filter, !.query = query], currentFile(d))

clearFilter(d) == setFilter(d, "off", 0)
openFilter(d) == setFilter(d, "editing", d.query)
applyFilter(d) == IF d.query = 0 THEN clearFilter(d) ELSE setFilter(d, "applied", d.query)

setListCursor(d, i) == IF i \in DOMAIN Visible(d) THEN [d EXCEPT !.cursor = i] ELSE d

navigate(d, step) ==
  LET n == Len(Visible(d))
      to == d.cursor + step
  IN  IF n = 0 THEN d ELSE setListCursor(d, IF to < 1 THEN 1 ELSE IF to > n THEN n ELSE to)

Invert(d, indices) ==
  [d EXCEPT !.files = [i \in DOMAIN d.files |->
     IF i \in indices THEN [d.files[i] EXCEPT !.selected = ~@] ELSE d.files[i]]]

toggleSelection(d) == Invert(d, current(d))

DetailsRange(d, from, to) ==
  Invert(d, {Visible(d)[i] : i \in {j \in DOMAIN Visible(d) : (from <= j /\ j <= to) \/ (to <= j /\ j <= from)}})

\* Without a mark the file under the cursor counts as marked.
invertSelection(d) ==
  IF Marked(d) # {} THEN Invert(d, DOMAIN d.files) ELSE
  IF current(d) # {} THEN Invert(d, DOMAIN d.files \ current(d)) ELSE d

getSelectedFiles(d) == IF Marked(d) # {} THEN Marked(d) ELSE currentFile(d)

(***************************************************************************)
(* Keys: the operation afterwards and the messages sent.                   *)
(***************************************************************************)
DOutcome(d, send) == [d |-> d, send |-> send]

Ask(d, options) ==
  IF getSelectedFiles(d) = {} THEN DOutcome(d, {})
  ELSE DOutcome([d EXCEPT !.question = Question(options, Len(options),
                                                [rev |-> d.rev, files |-> getSelectedFiles(d)])], {})

detailsSplit(d) ==
  Ask(d, <<{<<"refresh">>, <<"close">>}, {<<"refresh">>, <<"close">>}, QuestionClosed>>)

detailsRestore(d) ==
  Ask(d, <<{<<"ended", "refresh">>} \cup QuestionClosed, {<<"refresh">>, <<"close">>}, QuestionClosed>>)

detailsAbsorb(d) == Ask(d, <<{<<"ended", "refresh", "question closed">>}, QuestionClosed>>)

\* Squash takes the place of the details; what changed a file is a new revset.
detailsLeave(d) ==
  (IF getSelectedFiles(d) = {} THEN {} ELSE {DOutcome(d, {<<"open squash">>})})
  \cup (IF current(d) = {} THEN {} ELSE {DOutcome(d, {<<"close">>, <<"revset">>}), DOutcome(d, {<<"show diff">>})})
  \cup {DOutcome(d, {<<"close">>}), DOutcome(d, {<<"refresh">>})}

ListKeys(d) ==
  {DOutcome(navigate(d, step), {}) : step \in {-2, -1, 1, 2}}
  \cup {DOutcome(IF current(d) = {} THEN d ELSE navigate(toggleSelection(d), 1), {}),
        DOutcome(invertSelection(d), {}), DOutcome(openFilter(d), {}),
        detailsSplit(d), detailsRestore(d), detailsAbsorb(d)}
  \cup detailsLeave(d)

FilterKeys(d) ==
  {DOutcome(setFilter(d, "editing", query), {}) : query \in Queries}
  \cup {DOutcome(applyFilter(d), {}), DOutcome(clearFilter(d), {})}

\* The innermost scope that takes keys: the question, the filter being edited, the list.
DetailsKeys(d) ==
  IF d.question # NoQuestion
    THEN {DOutcome([d EXCEPT !.question = k.q], k.send) : k \in QuestionKeys(d.question)}
  ELSE IF d.filter = "editing" THEN FilterKeys(d)
  ELSE ListKeys(d) \cup (IF d.filter = "applied" THEN {DOutcome(clearFilter(d), {})} ELSE {})

\* Something other than a key changed what the question is asked over.
Touch(d) == IF d.question = NoQuestion THEN d ELSE [d EXCEPT !.question.touched = TRUE]

DetailsKey ==
  /\ details.open /\ Cardinality(dCmds) < MaxDetailCmds
  /\ \E k \in DetailsKeys(details) : details' = k.d /\ dCmds' = dCmds \cup k.send
  /\ UNCHANGED <<dLoads, dSent>>

\* A click on a file, alone, with Ctrl or with Alt, and DetailsSelectFile of a script.
FileClicked ==
  /\ details.open /\ Cardinality(dCmds) < MaxDetailCmds
  /\ details' \in {Touch(d) : d \in
       (UNION {{setListCursor(details, i), toggleSelection(setListCursor(details, i)),
                DetailsRange(setListCursor(details, i), details.cursor, i)} : i \in DOMAIN details.files})
       \cup {[details EXCEPT !.files[i].selected = TRUE] : i \in DOMAIN details.files}}
  /\ UNCHANGED <<dLoads, dCmds, dSent>>

OptionClicked ==
  /\ details.open /\ Cardinality(dCmds) < MaxDetailCmds /\ details.question # NoQuestion
  /\ \E i \in DOMAIN details.question.options :
       LET k == selectOption(details.question, i)
       IN  details' = [details EXCEPT !.question = k.q] /\ dCmds' = dCmds \cup k.send
  /\ UNCHANGED <<dLoads, dSent>>

(***************************************************************************)
(* Loads.  jj prints some of the files, in order, or fails.                *)
(***************************************************************************)
loadDetails(rev) ==
  /\ dSent < MaxLoads /\ dSent' = dSent + 1
  /\ \/ \E list \in SUBSET Files :
          dLoads' = dLoads \cup {[no |-> dSent + 1, rev |-> rev, list |-> list, read |-> FALSE, selected |-> {}]}
     \/ UNCHANGED dLoads

Read(l) == IF l.read THEN l ELSE [l EXCEPT !.read = TRUE, !.selected = Marked(details)]

\* The goroutine of the command reads the marks.
LoadReads ==
  \E l \in {l \in dLoads : ~l.read} :
    /\ dLoads' = (dLoads \ {l}) \cup {Read(l)}
    /\ UNCHANGED <<details, dCmds, dSent>>

createListItems(list, selected) ==
  [i \in 1 .. Cardinality(list) |-> [file |-> InOrder(list)[i], selected |-> InOrder(list)[i] \in selected]]

\* updateCommitStatusMsg.
StatusArrives ==
  \E l \in {l \in dLoads : l.read} :
    /\ dLoads' = dLoads \ {l}
    /\ details' = IF ~details.open THEN details
                  ELSE [Touch(setItems(details, createListItems(l.list, l.selected))) EXCEPT
                          !.shown = [no |-> l.no, rev |-> l.rev]]
    /\ UNCHANGED <<dCmds, dSent>>

OpenDetails(rev) ==
  /\ ~details.open
  /\ details' = NewDetails(rev) /\ loadDetails(rev)
  /\ UNCHANGED dCmds

\* Mutant of DetailsSelectionChanged: the new revision is recorded and not loaded.
DetailsSelectionChangedOnly(rev) ==
  /\ details.open
  /\ details' = [Touch(details) EXCEPT !.cur = rev, !.rev = rev]
  /\ UNCHANGED <<dLoads, dCmds, dSent>>

\* setSelectedRevision: another revision is highlighted in the list.
DetailsSelectionChanged(rev) ==
  /\ details.open
  /\ details' = [Touch(details) EXCEPT !.cur = rev, !.rev = rev]
  /\ IF rev = details.rev THEN UNCHANGED <<dLoads, dSent>> ELSE loadDetails(rev)
  /\ UNCHANGED dCmds

(***************************************************************************)
(* Messages.                                                               *)
(***************************************************************************)
DetailsRefresh == IF details.open THEN loadDetails(details.rev) ELSE UNCHANGED <<dLoads, dSent>>

DetailsDeliver ==
  \E c \in dCmds :
    /\ dCmds' = (dCmds \ {c}) \cup (IF Len(c) = 1 THEN {} ELSE {Tail(c)})
    /\ \/ /\ Head(c) = "refresh" /\ DetailsRefresh
          /\ UNCHANGED details
       \/ /\ Head(c) \in {"close", "open squash"}
          /\ details' = NoDetails /\ UNCHANGED dSent
          /\ dLoads' = {Read(l) : l \in dLoads}   \* the marks stay as they are at the end
       \/ /\ Head(c) = "question closed"
          /\ details' = [details EXCEPT !.question = NoQuestion] /\ UNCHANGED <<dLoads, dSent>>
       \/ /\ Head(c) \in {"ended", "revset", "show diff"}
          /\ UNCHANGED <<details, dLoads, dSent>>

DetailsInit == details = NoDetails /\ dLoads = {} /\ dCmds = {} /\ dSent = 0

DetailsNext ==
  \/ DetailsKey \/ FileClicked \/ OptionClicked \/ LoadReads \/ StatusArrives \/ DetailsDeliver
  \/ \E rev \in DRevisions : OpenDetails(rev) \/ DetailsSelectionChanged(rev)

DetailsSpec == DetailsInit /\ [][DetailsNext]_detailsVars

(***************************************************************************)
(* Properties.                                                             *)
(***************************************************************************)

\* Every variable of the details has a value of its type, and the cursor is on a
\* visible file whenever there is one: the filter and late loads keep it there.
DetailsTypeOK ==
  /\ details.files \in Seq(FileItems) /\ details.query \in Queries
  /\ details.filter \in {"off", "editing", "applied"}
  /\ IF Visible(details) = <<>> THEN details.cursor = 0 ELSE details.cursor \in DOMAIN Visible(details)
  /\ dSent \in 0 .. MaxLoads

\* Once the answer to the last load is shown, the list is that of the revision the
\* details act on, whatever was highlighted, refreshed or closed in between.
LatestStatusShown ==
  details.open /\ details.shown.no = dSent => details.shown.rev = details.rev

\* What Yes would do is what the marks in the list say, until a click, a script, a
\* reload or another revision changes the list under the question: no key does.
QuestionMatchesMarks ==
  details.question # NoQuestion /\ ~details.question.touched
  => details.question.about = [rev |-> details.rev, files |-> getSelectedFiles(details)]

\* The list of files is that of the revision it acts on once its last load is shown, its cursor is on
\* a visible file, and a question is about the files marked (details.go Update).
DetailsAreSound == DetailsTypeOK /\ LatestStatusShown /\ QuestionMatchesMarks
=============================================================================
