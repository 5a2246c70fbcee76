---------------------------- MODULE BookmarkPane ----------------------------
(***************************************************************************)
(* The bookmark pane beside the revision list (ui/bookmarkpane): a tree of *)
(* bookmarks with their remotes, of which the rows shown are kept as       *)
(* indices, a cursor among the rows, marks, a filter, a remote to show,    *)
(* questions and the prompt for a new name.                                *)
(*                                                                         *)
(* A load reads what is expanded and the order of the revisions in the     *)
(* goroutine of its command; loads are not numbered.  Messages reach the   *)
(* pane while it is shown, except the order of the revisions.              *)
(***************************************************************************)
EXTENDS Bookmarks, Confirmation

CONSTANTS
  BookmarkLists,    \* what `jj bookmark list` may print: sequences of lines
  Contexts,         \* [current, visible]: the revision under the cursor, the list
  PaneQueries,      \* what may be typed into the filter
  MaxPaneLoads,     \* bound on the loads
  MaxPaneCmds       \* keys of the pane are taken while less than this many messages are under way

ASSUME BookmarkPaneAssumption ==
  /\ {MaxPaneLoads, MaxPaneCmds} \subseteq Nat
  /\ \A context \in Contexts : context.visible \in Seq(Nat)

VARIABLES
  pane,     \* the model
  pLoads,   \* loads under way: [read, tree]
  pCmds,    \* sequences of messages under way
  pSent     \* loads begun so far

paneVars == <<pane, pLoads, pCmds, pSent>>

AllRemotes == -1
LocalOnly == -2
DeletedQuery == -3
NoTarget == <<0, 0>>

NewPane ==
  [shown |-> FALSE, focused |-> FALSE, context |-> [current |-> NoCommit, visible |-> <<>>],
   tree |-> <<>>, rows |-> <<>>, remote |-> AllRemotes, expanded |-> {}, cursor |-> 1, marks |-> {},
   filter |-> "off", input |-> 0, text |-> 0, pending |-> "none", asked |-> NoTarget, touched |-> FALSE,
   hint |-> NoTarget, reset |-> TRUE, question |-> NoQuestion]

PaneInit == pane = NewPane /\ pLoads = {} /\ pCmds = {} /\ pSent = 0

(***************************************************************************)
(* tree.go.  An item is a bookmark and whether it is expanded; a node is a *)
(* side of it.                                                             *)
(***************************************************************************)
localNode(b) == [name |-> b.name, side |-> b.sides[1]]
remoteNode(b, i) == [name |-> b.name, side |-> b.remotes[i]]
Target(node) == <<node.name, node.side.remote>>

nodeMatches(node, query) ==
  \/ query \in {0, node.name, node.side.commit, node.side.remote}
  \/ query = DeletedQuery /\ ~node.side.present

\* A bookmark without a local side has its first remote for its own node.
bookmarkMatches(b, query) ==
  \/ query = 0
  \/ HasLocal(b) /\ nodeMatches(localNode(b), query)
  \/ \E i \in DOMAIN b.remotes : nodeMatches(remoteNode(b, i), query)

bookmarkSortRank(b) == IF IsPresent(b) THEN 0 ELSE IF HasLocal(b) THEN 1 ELSE 2

treeBefore(a, b, context) ==
  LET cmp == compareDistance(bookmarkDistance(context, LocalCommit(a)), bookmarkDistance(context, LocalCommit(b)))
  IN  IF bookmarkSortRank(a) # bookmarkSortRank(b) THEN bookmarkSortRank(a) < bookmarkSortRank(b)
      ELSE IF cmp # 0 THEN cmp < 0 ELSE a.name < b.name

sortTree(tree, context) == SortSeq(tree, LAMBDA a, b : treeBefore(a.b, b.b, context))

loadBookmarkTree(lines, expanded, context) ==
  LET list == ParseBookmarkListOutput(lines)
  IN  sortTree([i \in DOMAIN list |-> [b |-> list[i], expanded |-> list[i].name \in expanded]], context)

\* A row: the index of its item, the index of its remote or 0 for the local side, its depth.
Row(item, remote, depth) == [item |-> item, remote |-> remote, depth |-> depth]

RemoteRows(tree, i, depth, shown) ==
  LET all == [r \in DOMAIN tree[i].b.remotes |-> Row(i, r, depth)]
  IN  SelectSeq(all, LAMBDA row : row.remote \in shown)

\* The remotes of a bookmark that a search finds by themselves.
RemotesFound(b, query) == {r \in DOMAIN b.remotes : nodeMatches(remoteNode(b, r), query)}

\* One remote, or only what is local, flat.
buildVisibleRowsForRemote(tree, query, remote) ==
  LET Of(i) == IF remote = LocalOnly
                 THEN IF HasLocal(tree[i].b) /\ nodeMatches(localNode(tree[i].b), query)
                        THEN <<Row(i, 0, 0)>> ELSE <<>>
                 ELSE RemoteRows(tree, i, 0, {r \in RemotesFound(tree[i].b, query) :
                                                tree[i].b.remotes[r].remote = remote})
  IN  FlattenSeq([i \in DOMAIN tree |-> Of(i)])

buildVisibleRows(tree, query, remote) ==
  LET Of(i) ==
        LET b == tree[i].b
            found == RemotesFound(b, query)
        IN  IF ~bookmarkMatches(b, query) THEN <<>>
            ELSE IF ~HasLocal(b) THEN RemoteRows(tree, i, 0, found)
            ELSE <<Row(i, 0, 0)>> \o
                 (IF ~tree[i].expanded THEN <<>>
                  ELSE RemoteRows(tree, i, 1, IF nodeMatches(localNode(b), query) THEN DOMAIN b.remotes ELSE found))
  IN  IF remote # AllRemotes THEN buildVisibleRowsForRemote(tree, query, remote)
      ELSE FlattenSeq([i \in DOMAIN tree |-> Of(i)])

(***************************************************************************)
(* selection.go.                                                           *)
(***************************************************************************)
rowNode(p, row) ==
  IF row.remote = 0 THEN localNode(p.tree[row.item].b) ELSE remoteNode(p.tree[row.item].b, row.remote)

\* The row under the cursor, its node and its target, as sets with at most one element.
selectedRow(p) == IF p.cursor \in DOMAIN p.rows THEN {p.rows[p.cursor]} ELSE {}
selectedNode(p) == {rowNode(p, row) : row \in selectedRow(p)}
selectedBookmark(p) == {p.tree[row.item].b : row \in selectedRow(p)}
selectedTarget(p) == {Target(node) : node \in selectedNode(p)}

currentFilterText(p) == IF p.filter = "editing" THEN p.input ELSE p.text
Rebuilt(p) == [p EXCEPT !.rows = buildVisibleRows(p.tree, currentFilterText(p), p.remote)]

applyFilters(p, reset) ==
  LET new == Rebuilt(p)
  IN  IF reset \/ p.cursor > Len(new.rows) THEN [new EXCEPT !.cursor = 1] ELSE new

RemoteNames(p) ==
  UNION {{p.tree[i].b.remotes[r].remote : r \in DOMAIN p.tree[i].b.remotes} : i \in DOMAIN p.tree}
syncRemoteNamesWithTree(p) ==
  IF p.remote \in {AllRemotes, LocalOnly} \cup RemoteNames(p) THEN p ELSE [p EXCEPT !.remote = AllRemotes]

TargetsOf(b) ==
  (IF HasLocal(b) THEN {<<b.name, LocalRemote>>} ELSE {})
  \cup {<<b.name, b.remotes[r].remote>> : r \in DOMAIN b.remotes}
ListedTargets(p) == UNION {TargetsOf(p.tree[i].b) : i \in DOMAIN p.tree}

\* Mutant of syncSelectionsWithTree: marks of bookmarks that are gone stay.
syncSelectionsNever(p) == p
syncSelectionsWithTree(p) == [p EXCEPT !.marks = @ \cap ListedTargets(p)]

RowsAt(p, target) == {i \in DOMAIN p.rows : Target(rowNode(p, p.rows[i])) = target}
selectTarget(p, target) ==
  IF RowsAt(p, target) = {} THEN p
  ELSE [p EXCEPT !.cursor = CHOOSE i \in RowsAt(p, target) : \A j \in RowsAt(p, target) : i <= j]

paneMoveCursor(p, delta) ==
  LET next == p.cursor + delta
      n == Len(p.rows)
  IN  [p EXCEPT !.cursor = IF n = 0 \/ next < 1 THEN 1 ELSE IF next > n THEN n ELSE next]

toggleSelect(p, at) ==
  LET targets == {Target(rowNode(p, p.rows[i])) : i \in at \cap DOMAIN p.rows}
  IN  [p EXCEPT !.marks = (@ \ targets) \cup (targets \ @)]

rangeSelect(p, to) ==
  LET lo == IF p.cursor < to THEN p.cursor ELSE to
      hi == IF p.cursor < to THEN to ELSE p.cursor
  IN  [toggleSelect(p, lo .. hi) EXCEPT !.cursor = to]

\* The marked bookmarks in the order of the tree, hidden ones too, or the one under the cursor.
selectionsForBookmarkOperation(p) ==
  LET NodesOf(b) == (IF HasLocal(b) THEN <<localNode(b)>> ELSE <<>>)
                    \o [r \in DOMAIN b.remotes |-> remoteNode(b, r)]
      all == FlattenSeq([i \in DOMAIN p.tree |->
               LET nodes == NodesOf(p.tree[i].b)
               IN  [n \in DOMAIN nodes |-> [b |-> p.tree[i].b, node |-> nodes[n]]]])
  IN  IF p.marks = {}
        THEN SetToSeq({[b |-> b, node |-> node] : b \in selectedBookmark(p), node \in selectedNode(p)})
        ELSE SelectSeq(all, LAMBDA s : Target(s.node) \in p.marks)

(***************************************************************************)
(* actions.go: the commands of an operation.                               *)
(***************************************************************************)
IsLocal(s) == s.node.side.remote = LocalRemote

addCommands(cmds, new) == cmds \o SetToSeq(new \ Range(cmds))

\* Commands in the order of the selections, each one once.
Commands(lists) == FoldLeft(addCommands, <<>>, lists)

deleteCommands(p) ==
  LET sel == selectionsForBookmarkOperation(p)
  IN  Commands([i \in DOMAIN sel |-> IF IsLocal(sel[i]) THEN BookmarkDeleteCommand(sel[i].b) ELSE {}])

forgetCommands(p) ==
  LET sel == selectionsForBookmarkOperation(p)
  IN  Commands([i \in DOMAIN sel |-> BookmarkForgetCommand(sel[i].b)])

\* A local bookmark is tracked on the default remote.
trackCommands(p, default) ==
  LET sel == selectionsForBookmarkOperation(p)
  IN  FlattenSeq([i \in DOMAIN sel |->
        SetToSeq(IF IsLocal(sel[i]) THEN BookmarkTrackLocalCommand(sel[i].b, default)
                 ELSE BookmarkTrackRemoteCommand(sel[i].b, sel[i].node.side))])

untrackCommands(p) ==
  LET sel == selectionsForBookmarkOperation(p)
      OnAll(b) == UNION {BookmarkUntrackRemoteCommand(b, b.remotes[r]) : r \in DOMAIN b.remotes}
  IN  Commands([i \in DOMAIN sel |->
        IF IsLocal(sel[i]) THEN OnAll(sel[i].b) ELSE BookmarkUntrackRemoteCommand(sel[i].b, sel[i].node.side)])

\* A jj command with its refresh; several run one after the other.
PaneOutcome(p, send) == [p |-> p, send |-> send]

openConfirmation(p, cmds) ==
  IF cmds = <<>> THEN PaneOutcome(p, {})
  ELSE PaneOutcome([p EXCEPT !.question = Question(<<{<<"refresh">>} \cup QuestionClosed, QuestionClosed>>, 2, {})], {})

\* edit, new, push and fetch of the target under the cursor; new needs a commit.
AskOne(p) ==
  UNION {{openConfirmation(p, <<<<verb, Target(node)[1], Target(node)[2]>>>>) :
            verb \in {"edit", "push", "fetch"} \cup (IF node.side.commit = NoCommit THEN {} ELSE {"new"})} :
         node \in selectedNode(p)}

AskMarked(p) ==
  {openConfirmation(p, cmds) : cmds \in {deleteCommands(p), forgetCommands(p), untrackCommands(p)}
                                        \cup {trackCommands(p, default) : default \in {{}, {Origin}}}}

LocalUnderCursor(p) == \E b \in selectedBookmark(p) : IsPresent(b) /\ \A node \in selectedNode(p) : node.side.remote = LocalRemote

renameSelected(p) ==
  IF LocalUnderCursor(p)
    THEN PaneOutcome([p EXCEPT !.pending = "rename", !.asked = CHOOSE t \in selectedTarget(p) : TRUE, !.touched = FALSE],
                     {<<"show prompt">>})
    ELSE PaneOutcome(p, {})

moveSelected(p) ==
  IF LocalUnderCursor(p)
    THEN PaneOutcome([p EXCEPT !.hint = CHOOSE t \in selectedTarget(p) : TRUE], {<<"focus revisions">>})
    ELSE PaneOutcome(p, {})

revealSelected(p) ==
  IF \E node \in selectedNode(p) :
       /\ node.side.commit # NoCommit
       /\ node.side.commit \in {p.context.current} \cup Range(p.context.visible)
    THEN PaneOutcome(p, {<<"focus revisions">>}) ELSE PaneOutcome(p, {})

\* Only a row with remotes below it can be expanded; not one of a single remote or local ones.
toggleExpandSelected(p) ==
  IF \E row \in selectedRow(p) : row.remote = 0 /\ p.remote = AllRemotes /\ p.tree[row.item].b.remotes # <<>>
    THEN LET i == (CHOOSE row \in selectedRow(p) : TRUE).item
             name == p.tree[i].b.name
             now == ~p.tree[i].expanded
             new == [p EXCEPT !.tree[i].expanded = now, !.expanded = IF now THEN @ \cup {name} ELSE @ \ {name}]
         IN  selectTarget(applyFilters(new, FALSE), CHOOSE t \in selectedTarget(p) : TRUE)
    ELSE p

(***************************************************************************)
(* The filter and the focus.                                               *)
(***************************************************************************)
startFilterEditing(p) == [p EXCEPT !.filter = "editing"]

finishFilterEditing(p) == [p EXCEPT !.text = p.input, !.filter = IF p.input = 0 THEN "off" ELSE "applied"]
paneClearFilter(p) == applyFilters([p EXCEPT !.input = 0, !.text = 0, !.filter = "off"], TRUE)

SetFocused(p, focused) ==
  LET new == [p EXCEPT !.focused = focused]
  IN  IF ~focused /\ p.filter = "editing" THEN finishFilterEditing(new) ELSE new

OnShow(p) ==
  [SetFocused(p, FALSE) EXCEPT !.shown = TRUE, !.question = NoQuestion, !.hint = NoTarget, !.reset = TRUE,
                               !.cursor = 1, !.marks = {}]
OnHide(p) == [SetFocused(p, FALSE) EXCEPT !.shown = FALSE, !.question = NoQuestion, !.marks = {}]

cycleRemotes(p) ==
  {applyFilters([p EXCEPT !.remote = r], TRUE) :
     r \in ({AllRemotes, LocalOnly} \cup RemoteNames(p)) \ {p.remote}}

(***************************************************************************)
(* Keys, by the mode of the pane.                                          *)
(***************************************************************************)
NormalKeys(p) ==
  {PaneOutcome(paneMoveCursor(p, delta), {}) : delta \in {-1, 1}}
  \cup {PaneOutcome(q, {}) : q \in cycleRemotes(p)}
  \cup {PaneOutcome(toggleExpandSelected(p), {}), PaneOutcome(startFilterEditing(p), {}),
        PaneOutcome(toggleSelect(p, {p.cursor}), {}),
        renameSelected(p), moveSelected(p), revealSelected(p), PaneOutcome(p, {<<"focus revisions">>})}
  \cup AskOne(p) \cup AskMarked(p)
  \cup {IF currentFilterText(p) # 0 THEN PaneOutcome(paneClearFilter(p), {})
        ELSE IF p.marks # {} THEN PaneOutcome([p EXCEPT !.marks = {}], {})
        ELSE PaneOutcome(p, {<<"close">>})}

PaneFilterKeys(p) ==
  {PaneOutcome(applyFilters([p EXCEPT !.input = query], TRUE), {}) : query \in PaneQueries \ {p.input}}
  \cup {PaneOutcome(applyFilters(finishFilterEditing(p), TRUE), {}), PaneOutcome(paneClearFilter(p), {})}

PaneKeys(p) ==
  IF p.question # NoQuestion
    THEN {PaneOutcome([p EXCEPT !.question = k.q], k.send) : k \in QuestionKeys(p.question)}
  ELSE IF p.filter = "editing" THEN PaneFilterKeys(p) ELSE NormalKeys(p)

\* Something other than a reload may have moved the cursor since the prompt was asked for.
Touched(p) == [p EXCEPT !.touched = p.pending # "none"]

Idle == Cardinality(pCmds) < MaxPaneCmds

PaneKey ==
  /\ pane.shown /\ pane.focused /\ pane.pending # "prompt" /\ Idle
  /\ \E k \in PaneKeys(pane) :
       /\ pane' = IF pane.pending = "none" THEN k.p ELSE Touched(k.p)
       /\ pCmds' = pCmds \cup k.send
  /\ UNCHANGED <<pLoads, pSent>>

\* Clicks on rows, remotes and options.  They reach the pane below a prompt, and focus it.
PaneClicked ==
  /\ pane.shown /\ Idle
  /\ LET p == SetFocused(pane, TRUE)
         clicked == IF p.question # NoQuestion THEN {p}
                    ELSE {p} \cup {[p EXCEPT !.cursor = i] : i \in DOMAIN p.rows}
                         \cup {toggleSelect([p EXCEPT !.cursor = i], {i}) : i \in DOMAIN p.rows}
                         \cup {rangeSelect(p, i) : i \in DOMAIN p.rows} \cup cycleRemotes(p)
     IN  pane' \in {Touched(q) : q \in clicked}
  /\ UNCHANGED <<pLoads, pCmds, pSent>>

PaneOptionClicked ==
  /\ pane.shown /\ pane.question # NoQuestion /\ Idle
  /\ \E i \in DOMAIN pane.question.options :
       LET k == selectOption(pane.question, i)
       IN  pane' = [pane EXCEPT !.question = k.q] /\ pCmds' = pCmds \cup k.send
  /\ UNCHANGED <<pLoads, pSent>>

(***************************************************************************)
(* Loads and the order of the revisions.                                   *)
(***************************************************************************)
loadRows == pSent < MaxPaneLoads /\ pSent' = pSent + 1 /\ pLoads' = pLoads \cup {[no |-> pSent + 1, read |-> FALSE, tree |-> <<>>]}

\* jj has answered, or failed, and the goroutine reads what it needs of the model.
PaneLoadReads ==
  \E l \in {l \in pLoads : ~l.read} :
    /\ \/ \E lines \in BookmarkLists :
            pLoads' = (pLoads \ {l}) \cup
              {[l EXCEPT !.read = TRUE, !.tree = loadBookmarkTree(lines, pane.expanded, pane.context)]}
       \/ pLoads' = (pLoads \ {l}) \cup {[l EXCEPT !.read = TRUE]}
    /\ UNCHANGED <<pane, pCmds, pSent>>

rowsLoaded(p, tree) ==
  LET new == syncSelectionsWithTree(syncRemoteNamesWithTree([p EXCEPT !.tree = tree]))
      filtered == [applyFilters(new, p.reset) EXCEPT !.hint = NoTarget, !.reset = FALSE]
      keep == IF p.hint # NoTarget THEN {p.hint} ELSE IF p.reset THEN {} ELSE selectedTarget(p)
  IN  IF keep = {} THEN filtered ELSE selectTarget(filtered, CHOOSE t \in keep : TRUE)

\* Has the row that the prompt asks about gone?
Lost(p) == IF RowsAt(p, p.asked) = {} THEN Touched(p) ELSE p

\* An answer that comes while the pane is hidden goes nowhere.
PaneRowsLoaded ==
  \E l \in {l \in pLoads : l.read} :
    /\ pLoads' = pLoads \ {l}
    /\ pane' = IF ~pane.shown THEN pane
               ELSE IF pane.hint # NoTarget \/ pane.reset THEN Touched(rowsLoaded(pane, l.tree))
               ELSE Lost(rowsLoaded(pane, l.tree))
    /\ UNCHANGED <<pCmds, pSent>>

SyncRevisionContext(p, context) ==
  LET new == Rebuilt(syncSelectionsWithTree(syncRemoteNamesWithTree(
               [p EXCEPT !.context = context, !.tree = sortTree(p.tree, context)])))
      n == Len(new.rows)
      clamped == [new EXCEPT !.cursor = IF n = 0 THEN 1 ELSE IF @ > n THEN n ELSE @]
  IN  IF selectedTarget(p) = {} THEN clamped ELSE selectTarget(clamped, CHOOSE t \in selectedTarget(p) : TRUE)

\* The revisions were loaded or the revision under the cursor changed.
PaneContextChanged ==
  /\ \E context \in Contexts \ {pane.context} : pane' = Lost(SyncRevisionContext(pane, context))
  /\ UNCHANGED <<pLoads, pCmds, pSent>>

\* A refresh of any origin; the one of a command of the pane too.
PaneRefresh ==
  /\ pane.shown /\ pane' = [pane EXCEPT !.reset = FALSE]
  /\ pCmds' \in {pCmds, pCmds \ {<<"refresh">>}} /\ loadRows

(***************************************************************************)
(* The container shows, hides and focuses the pane; the prompt.            *)
(***************************************************************************)
TogglePane ==
  /\ pane.pending # "prompt" /\ UNCHANGED pCmds
  /\ IF pane.shown THEN pane' = OnHide(pane) /\ UNCHANGED <<pLoads, pSent>>
     ELSE pane' = Touched(SetFocused(OnShow(pane), TRUE)) /\ loadRows

FocusNextPane ==
  /\ pane.shown /\ Idle /\ pane.pending # "prompt" /\ (pane.focused => pane.filter # "editing" /\ pane.question = NoQuestion)
  /\ pane' = SetFocused(pane, ~pane.focused)
  /\ UNCHANGED <<pLoads, pCmds, pSent>>

PaneMessage(p, name) ==
  CASE name = "question closed" -> [p EXCEPT !.question = NoQuestion]
    [] name = "close" -> IF p.shown THEN OnHide(p) ELSE p
    [] name = "focus revisions" -> SetFocused(p, FALSE)
    [] name = "show prompt" -> [p EXCEPT !.pending = IF @ = "rename" THEN "prompt" ELSE @]

PaneMessageArrives ==
  \E c \in pCmds :
    /\ c # <<"refresh">>
    /\ pCmds' = pCmds \ {c} /\ pane' = PaneMessage(pane, c[1])
    /\ UNCHANGED <<pLoads, pSent>>

\* A refresh that comes while the pane is hidden does nothing to it.
PaneRefreshHidden ==
  /\ ~pane.shown /\ <<"refresh">> \in pCmds /\ pCmds' = pCmds \ {<<"refresh">>}
  /\ UNCHANGED <<pane, pLoads, pSent>>

\* The prompt, or while its answer is still waited for another one, is answered with a new
\* name, with the old one or not at all.  The new name is given to the bookmark under the
\* cursor, and is looked for after the reload.  A hidden pane sees no answer and waits on.
PromptAnswered ==
  /\ pane.pending # "none"
  /\ IF ~pane.shown THEN pane' = [pane EXCEPT !.pending = "rename"] /\ UNCHANGED pCmds
     ELSE LET done == [pane EXCEPT !.pending = "none", !.asked = NoTarget, !.touched = FALSE]
          IN  \/ pane' = done /\ UNCHANGED pCmds
              \/ /\ \E b \in selectedBookmark(pane), lines \in BookmarkLists : \E i \in DOMAIN lines :
                      /\ IsPresent(b) /\ lines[i].name # b.name
                      /\ pane' = [done EXCEPT !.hint = <<lines[i].name, LocalRemote>>]
                 /\ pCmds' = pCmds \cup {<<"refresh">>}
  /\ UNCHANGED <<pLoads, pSent>>

PaneNext ==
  \/ PaneKey \/ PaneClicked \/ PaneOptionClicked \/ PaneLoadReads \/ PaneRowsLoaded
  \/ PaneContextChanged \/ PaneRefresh \/ TogglePane \/ FocusNextPane \/ PaneMessageArrives
  \/ PaneRefreshHidden \/ PromptAnswered

(***************************************************************************)
(* Properties.                                                             *)
(***************************************************************************)
\* The rows are kept as indices into the tree and rebuilt by hand: at all times they are
\* what the tree, the filter and the remote in use give, and the cursor is on one of them
\* unless there is none (bookmarkpane.go 253-303, selection.go 35-41).
PaneRowsAreFresh ==
  /\ pane.rows = buildVisibleRows(pane.tree, currentFilterText(pane), pane.remote)
  /\ pane.cursor \in 1 .. (IF pane.rows = <<>> THEN 1 ELSE Len(pane.rows))

\* No mark outlives the bookmark it is on, so that a question about the marked
\* bookmarks never is about one that is not listed (selection.go 238-257).
MarksAreListed == pane.marks \subseteq ListedTargets(pane)

\* What delete, forget and untrack run, they run once, also when a bookmark and its
\* remote are both marked (actions.go 197-225, 255-284).
CommandsAreDistinct ==
  \A cmds \in {deleteCommands(pane), forgetCommands(pane), untrackCommands(pane)} :
    \A i, j \in DOMAIN cmds : cmds[i] = cmds[j] => i = j

\* While the new name of a bookmark is asked for, reloads and changes in the list of
\* revisions leave that bookmark under the cursor, which is the one renamed by the answer,
\* if no key or click moves the cursor, the bookmark stays in the rows and the first load
\* of the pane has come (bookmarkpane.go 281-303, 331-347, 377-388).
PromptIsAboutCursor ==
  pane.pending # "none" /\ ~pane.touched /\ pane.shown => pane.asked \in selectedTarget(pane)

\* Rows, cursor, marks and prompts of the pane follow the tree through loads, filters and changes of
\* expansion, so that a command is for what is listed, and once (bookmarkpane.go Update).
PaneIsSound == PaneRowsAreFresh /\ MarksAreListed /\ CommandsAreDistinct /\ PromptIsAboutCursor
=============================================================================
