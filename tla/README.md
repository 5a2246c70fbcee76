# A TLA+ model of jjui

jjui is a terminal interface for the version control system jj.  It is a Bubble
Tea program: one event loop owns the state of all views and handles one message
at a time, and everything slow (running jj, waiting for a helper process) is a
command, a function that runs in a goroutine of its own and ends by sending a
message.  What is hard about the program is hardly ever one handler; it is what
happens between two of them: the list was reloaded, another view was opened, the
process ended, a later request was answered first.  The modules here keep that
part, the control of the event loop and of the goroutines around it, and leave
the contents of rows, texts and colours out.

## The system

| Part | State | Operations | What makes it correct |
|---|---|---|---|
| incremental log loading (`ui/graph`, `parser`) | control channel, batch channel, context, parser goroutine | `NewGraphStreamer`, `RequestMore`, `Close` | the batches are the log; the end is not announced early; nothing hangs or is left behind |
| revision list (`ui/revisions`) | rows, rows off screen, cursor, tag, pending reload, streamer, flags | refresh, load, batches, navigation, search, clicks | the list is that of the latest load; the cursor is on a row; loading ends |
| view layers (`ui/layers.go`, `ui/ui.go`) | ordered list of screens and dialogs, expanded help, key sequence | open, close, cancel, answers of dialogs, broadcast | one close closes one view; no work of the user is dropped unasked |
| credential prompts (`askpass`, `ui/password`, `cmd/jjui`) | registered keys, channels per prompt, the prompt on the screen | register, connect, prompt, answer, supersede, return | no channel is misused; a password reaches its own prompt only; nobody waits for a prompt nobody sees |
| command runner (`ui/context`) | running commands | run, stream, interactive | every command ends with its messages, in order |
| annotation view (`ui/annotation`) | revision, file, comments, request number | load, navigate, comment, copy | a late answer of another file or revision is not shown |
| flash messages, command history (`ui/flash`) | messages, running commands | add, expire, complete, dismiss | a command that ended is not shown as running |
| scripting (`scripting`, `ui/ui.go`) | stack of Lua runners, what each one waits for | start, suspend, resume | a script resumes once, on the message it waits for |
| key dispatch (`ui/dispatch`, `ui/bindings`) | keys of the sequence so far, its candidates, its help | resolve a key over the scopes | the innermost scope wins, a blocking scope hides the rest, a sequence ends in an action that is still offered |
| operations (`ui/operations`) | base operation, stack of layers, targets, marks | start, push, pop, apply, cancel | an operation acts on the row that is highlighted and on what is marked |
| details, describe, evolog (`ui/operations/...`) | file list with marks, text and kill buffer, versions | load, mark, ask, kill, restore | a late load does not undo a choice; what is killed can be brought back; a restore takes the version chosen |
| preview, split (`ui/preview`, `ui/split`, `ui/common/debounce.go`) | debounced calls, content, focus, size | select, load, scroll, drag | the preview is that of the selection; one pane has the focus; the separator is where the pointer is |
| bookmark pane, git and bookmark menus | tree, rows, cursor, filter, marks, loads | load, expand, filter, run | the cursor is on a row shown; what is run is what is shown |
| operation log (`ui/oplog`, `ui/render/list.go`) | rows, cursor, window of the list | load, select, search, draw | rows are the output; the cursor is drawn; the frame is a window of the list |
| diff view (`ui/diff`) | text, files of the summary, wrapping | load, go to a file, wrap, scroll | the files are those of the diff shown |
| status line, revset, completion, histories | inputs, lists of matches, timers, suggestions, histories | edit, complete, preview, accept, cancel | a preview is undone; a list belongs to its input; no line of a history is lost |
| choice, picker and help dialogs | filter, cursor, columns | type, move, click, accept | what is accepted is what is drawn under the cursor |
| frame (`ui/layout`, `ui/render`) | boxes, mouse regions of the last frame | divide, draw, look up | the boxes tile the window; a click stops at a dialog |
| configuration loading, themes, ANSI text, jj command lines, generated catalogs, e2e harness | | | input and output, or stateless |

How they interact: `ui.Model.Update` gives a key to the scopes of the top layer
and broadcasts everything else; a view asks for something by returning a command
whose message comes back through the same loop.  `tea.Batch` runs commands
concurrently, `tea.Sequence` one after the other.  Goroutines share channels with
the loop only in two places: the streamer of a log, and the answer channel of a
prompt.  The revision list uses the streamer; every command that runs jj
registers with the askpass server.

## The modules

| Module | What it is |
|---|---|
| `RowStream` | abstract: what a consumer of the log is promised |
| `GraphStream` | the streamer with its goroutines; implements `RowStream` |
| `GraphStreamProofs` | its type invariant, `NoFalseEnd` and the refinement, proved |
| `Revisions` | the revision list over streamers that behave like `RowStream` |
| `RevisionsProofs` | that the list is sound, shows the latest load and keeps the selection while it grows, proved |
| `ViewLayers` | the views above the list and the messages that open and close them |
| `ViewLayersProofs` | its safety properties, proved |
| `Askpass` | commands, helper connections and the prompt |
| `AskpassProofs` | its safety properties, proved |
| `Scripts` | the stack of Lua runners, the calls between them and the dialogs they use |
| `ScriptsProofs` | that calls nest and that effects come before their answer, proved |
| `Flash` | running commands, messages that expire, the spinner, the history dialog |
| `FlashProofs` | its safety properties, proved |
| `Operations` | the operations of the list: targets, marks, layers, late notifications |
| `OperationsProofs` | that targets follow the cursor and what alone parts an abandon from its marks, proved |
| `Confirmation` | the question with options that several views ask |
| `Ordered` | lists in the order of numbers or of another list |
| `Details`, `Describe`, `Evolog` | the three operations with views of their own |
| `Annotation`, `Patch` | the review view, and the parser of git diffs it rests on |
| `Bookmarks`, `BookmarkPane` | the parser of bookmark lists with the commands for a bookmark; the pane |
| `Menus` | the bookmark menu and the git menu |
| `Dispatch` | from a key to an action |
| `StatusLine`, `RevsetInput` | the input lines and their histories |
| `Dialogs` | choice, target picker, help |
| `Preview` | the pane beside the list and the debounced preview in it |
| `ListView`, `OpLog`, `Diff`, `Layout` | the list renderer, and the screens that are drawn with it |
| `ViewsProofs` | the properties of `Preview`, `Details`, `Describe`, `Evolog`, `Annotation`, `Patch` and `StatusLine`, proved |
| `MC...` | instances for TLC; the numbers are in the cfg files |

The variables of a component are prefixed (`previewVars`, `diffVars`) and its actions
collected in an action of its own (`PreviewNext`), so that one instance can hold
several.  `MCViews`, `MCInputs` and `MCScreens` put components side by side that
share no state: `inUse` says which one moves, and a run visits the sum of their
states, not the product.  Where components do share state they are composed:
`Details`, `Describe` and `BookmarkPane` contain the questions of `Confirmation`,
`BookmarkPane` and `Menus` rest on `Bookmarks`, `OpLog`, `Diff` and `Dialogs` on `ListView`,
`Details` and `StatusLine` on `Ordered`.

### GraphStream

`parser` is the program counter of the goroutine of `ParseRowsStreaming`
("waitMid", "waitEnd", "waitEmpty" are its three calls of `waitForControl`,
"sendMid" and "sendEnd" its two sends); `caller[c]` is that of a goroutine in
`RequestMore` ("request" and "receive" are its two selects).  The channels with
room for one are `control` and `rowsChan`, a closed `rowsChan` is `parser =
"exit"`.  `Close` is three steps, because the mutex is released before the
context is cancelled and the process killed.  A row is its number, so that "the
batches are the log" is a statement about intervals: a batch in the middle has
`BatchSize + 1` rows since the flush tests `len(rows) > batchSize` before the row
in hand is added.  `total` may be 0: jj may print markers and no row.  After
`Close` the parser may see its input end anywhere.

### Revisions

`cmds` and `msgs` are bags, because messages of different commands arrive in any
order and equal ones may coexist.  A streamer carries the tag of the load that
opened it, and the tag of a *request* is separate, as in the code; the pairing of
the two is where things go wrong.  The model keeps every field that takes part
in reloading and drops what a reload does not read.  `lastRowIndex`, which the
last frame left behind, is any index; so is the target of a click or a search;
what the focused pane highlights is the row under the cursor or something the
list does not know.  A hidden commit goes by its commit id (`GetChangeId`), while the search for
a revision also looks at the change id it had.  `repo` changes at any time.  `Names` is whatever may name a
revision: the targets of a refresh, "", "@", change ids and commit ids; within a log
a change id is not the commit id of another change, since jj writes the two in different
letters, and a hidden commit of a change stands below the visible one, which was written
later (`ChangesAssumption`).  `failed` and `exposed` are history: loads that
failed, and whether a batch was requested from a streamer of another load or from one
that already had a request under way.

### ViewLayers

A layer is its kind.  `msgs` holds what is under way: closes (with their origin,
which no handler reads), answers of dialogs, the intents of commands that open a
diff or an annotation.  `sequence` says whether a key sequence is under way and
whether it was the sequence that opened the help.  The comments of the
annotation are one bit, whether some are uncopied, and its question another.
Dialogs that behave alike are one kind.

### Askpass

`proc[s]` is the goroutine of a command, `handler[c]` that of a connection
through `Server.handle` and the callback of `showPassword`.  `full` and `closed`
are the answer channels with an answer, and those closed.  A send to the event
loop blocks until the loop takes it, so the state of the sender is the message;
only the closing message of a key is a command and is counted in `toggles`.
`ApplyKey` on a full channel leaves the loop "blocked".  A failed check of the
peer, a missing prompt and a missed deadline are nondeterministic ends of the
connection.

### Scripts

A frame of `frames` is a `scriptFrame`: the call its runner serves (0 for the
script of a key) and what it waits for.  `Resume` is `Runner.resume` up to the next
step with a matcher: which step that is, the script decides, so it is any.  The
commands of one `tea.Sequence` are one sequence of messages in the bag `cmds`,
delivered front to back; sequences interleave.  That makes the deferred function
of `Update` visible, which puts the answer to a call *after* the command of the
action.  A dispatched action is a script, an intent that opens a view, one that
closes or refreshes, or nothing.  Views are reduced to what scripts notice: the
two dialogs that answer them, other dialogs (the history echoes its close), and
the operation log, which keeps a refresh from the list.

### Flash

`phase` and `announcing` are the two goroutines of `RunCommand` up to the delivery
of their messages; `pendingCommands`, `pendingResults`, `messages`,
`messageHistory` and `currentId` are the fields of the code, `expiring` the timers
under way.  A message is removed by its number, an entry of the dialog by its place.  A message
is its number, whether it is an error, and the command it reports.  Whether a message without error gets a timer is a setting, so both may
happen.  `ticks` holds the ticks of the spinner, an external component: it takes
a tick with its own tag or with tag 0 and asks for one with the next tag.  The
items of the history dialog are the snapshot it was opened with.

### Operations

A commit is a change and a version; the working copy gets new versions, so that
what was marked and what is in the list may differ.  `cmds` is a bag of sequences:
a `tea.Sequence` is delivered in order, several interleave.  `lastHighlighted`,
`sent` and `seen` are the notification that the root model sends after every update
that moved the highlight; an operation may be applied before it has heard of the
move.  `baseOp.asked` numbers the queries of abandon, which the code does not; `missed` is
history: the answer to the last query was lost, under a layer or because jj failed, or an
answer to another query, or to one of an abandon closed by now, was handled in its place or
after it.

### Details, Describe, Evolog, Confirmation

`dLoads` are loads in two steps, because `load` runs jj when it is called and
reads the marks later, in the goroutine; the answer goes to whatever details are
open.  `desc` is a text with a cursor; the text area is external, what it deletes
for a key is modelled, and describe's own forecast of it is compared with that.
`eFrame` is the last frame of the versions, whose rows a click names; `EvologPanics` is what
happens while there are no versions, on Enter and in a frame of restore mode, and on the key for
the diff: the index is out of range and the program ends.  An option of
a question holds the messages its command will send, fixed when it is opened.

### Annotation and Patch

`ann` carries the request number of the code; `aMsgs` is the bag of answers under way.
Those of a file have no number, so two answers of one file may be under way, and the
change may have been rewritten between the two: `Contents` is what a load may find, `held`
the lines that the view has, which a failed load leaves alone.  A comment is on ranges of
old and of new lines, and has an id of the store that is never used again.
`CommentStaysInPlace` and `CommentIsFound` are about a comment while it is written and
once it is saved; they name the two ways to lose the place, a picker confirmed twice and
a mark that goes beyond the lines shown.
`Patch` writes a diff line by line as git does and parses each line as it comes, so
that the invariant can compare the numbers the parser gives with those of the
writer; the pairing of removed with added lines, by the words they share, is checked
to be a matching.

### Bookmarks, BookmarkPane, Menus

The lists of bookmarks are read from lines, sorted, filtered and turned into rows
as in the code; the pane keeps indices of rows, which is why they may go stale.
`pLoads` are read in one step and answered in another.  The menus share the shape
"items, filtered items, cursor"; `menuRan` is what was run.

### Dispatch

`scopes` is `dispatchScopes()` at the moment of a key, `state` the value of the
conditions, which change between two keys; `outcome` says what the last key did.
The bindings of the instance have a sequence, a key bound in two scopes, a
condition, an unconditional binding after a conditional one, and a scope that
blocks.  The help is built from the same bindings by other code, group by group;
`HelpIsHonest` compares what it tells with what a key does.

### StatusLine, RevsetInput, Dialogs

`statusMsgs` are the timers and the searches of the inputs, which may arrive when
another input is open; `revsets` the revsets that a file search previews, ready when
its command is made, and therefore taken to arrive in order and before the next
key.  `decided` and `kept` are history: the revset the user decided on, and the
lines of sessions that ended normally.  In `RevsetInput` a text is a sequence of
seven characters that matter to the completion: a letter, brackets, comma, equals
sign, space and quote; it grows at its end only, and an escaped quote is not among them.  The order of fuzzy matches is that of an external library: any
order of the matching items.  The list of the target picker is compared with the text it was searched
for (`searched`), not with the text typed: the search of an empty text that it starts with may
come late (target_picker.go:122-126).

### Preview

`pcalls` are the goroutines of `Debounce`, each with whether it is the one in the
table and whether its context is cancelled; `answers` what they sent.  The event loop
hands messages to the active pane only, and takes answers in any order and at any time: it
runs jj itself now and then (ui.go:688, revset.go:261 and 291), so that an answer may still wait
when a later call has had its 50 ms.  Three fields are history: `late`, of an answer, that
another call was made since; `pview.scripted`, that a script opened the pane and nothing was
selected since; `pview.overtaken`, that a late answer came after the newest call had looked at
`contentItem`.

### OpLog, ListView, Diff, Layout

`olView` and `olFrame` are what the last frame left for clicks and for scrolling.
The window of `ListView` is computed as in `list.go` and compared with a definition by
lines.  `diffIndex` is the cache of wrapped lines, valid for one width.  The answer to the load of
a file names the file and not the diff; `late` (of a load) and `mixed` (of the view) are history,
that the diff has changed since, and that such an answer has replaced the text.  In `Layout`
sizes are cells, a percentage is a fraction, and everything a mouse event does is
computed with the boxes of the last frame; `stale` counts the changes since.

## The runs

| Run | Shows | Bounds |
|---|---|---|
| `stream` | `NoFalseEnd`, `ImplementsRowStream`, `RequestReturns`, `ParserStops` | two callers, `BatchSize` 1, up to 6 rows: three batches, so first, middle and last differ, and outputs that end on and off a batch boundary |
| `reload` | `ListIsSound`, `LatestLoadShown`, `GrowingKeepsSelection`, `LoadsEnd` | two refreshes (one load overtakes the other), a log of two batches and a shorter one, with and without batching |
| `reload_no_match` | a violation: `NoMatchingIsTrue` | as above |
| `layers` | `LayersAreSound`, `PlainCloseKeepsComments`, `OneCloseOneLayer` | three layers, two messages under way, all kinds of dialogs |
| `prompts` | `NoPanic`, `PasswordOnlyForItsPrompt`, `PromptsMatchHelpers`, `PromptsEnd` | a command that asks twice, two keys per prompt: superseding, answering, returning and closing all meet |
| `prompts_held_enter` | a violation: `PromptCleansItself` | as above |
| `scripts` | `CallsNest`, `EffectsBeforeResume`, `ActionReturns` | three waiting steps, so that a called script can itself call one; two sequences under way when a key comes, two views |
| `flash` | `HistoryIsSound`, `ShownWhileItRuns`, `SpinnerTurns`, `MessagesStay`, `CommandIsReported` | two commands and a history of one, so that it overflows; three messages, two turns of the spinner |
| `operations` | `TargetsAreSound`, `AbandonsWhatIsMarked` | two changes and one new version of the working copy, two moves of the cursor (so two notifications can change places), one operation, two queries; that the answer to a query of an earlier abandon may come is beyond one operation and left to the theorem |
| `views` | `DetailsAreSound`, `AnnotationIsSound`, `PatchIsExact`, `PaneIsSound`, `KillIsUndone`, `RestoreKeepsVersion` | two files, two loads; a text of three characters; two versions; one comment and four requests (to another revision and back for the comment), a diff that may get shorter between two loads; diffs of eight lines with up to two changed ones to pair; two loads of the pane |
| `inputs` | `MenuIsSound`, `KeysAreSound`, `StatusIsSound`, `RevsetIsSound`, `DialogsAreSound` | menus with two remotes or none; two messages of the inputs under way, two paths, one line per session; revsets of four characters out of seven; frames of the help with one to three columns |
| `screens` | `PreviewIsSound`, `OpLogIsSound`, `DiffIsSound`, `LayoutIsSound` | two items, three calls alive or answers to come; outputs of up to six lines in windows of 0, 2 and 3; diffs with one and three files at two widths and one height, one load of a file under way; two windows, one with room for two panes and one without |

Most properties whose name ends in `IsSound`, and `LoadsEnd`, `PromptsEnd`, `CallsNest`,
`PatchIsExact` and `PromptsMatchHelpers`, are conjunctions of parts that are defined and
explained just above them, one part per hazard; TLC names the conjunction, and
evaluating the parts in the error trace says which one failed.  Type invariants
are parts of them.  No fairness is stated in `operations`, `views`, `inputs` and
`screens`: they check invariants and action properties only.

Each property of a passing run has a mutant, an operator "Mutant of ..." next to
the definition it replaces: the change a slip in that piece of code would be, and
under which the run fails.

`ParserStops` and `PromptGoesUnlessBlocked` (in `PromptsEnd`) name their exception: a parser may
stay blocked in a send when two requests were cancelled on the way (it then
leaks a goroutine), and a prompt may stay when a second Enter has blocked the
event loop.  `LatestLoadShown` holds as long as no request went to a streamer of
another load, or to one that had not answered the request before; `exposed` records
that one did.

Deadlock is not checked: the user may stop asking, and a program that waits for
the user is not stuck.

### What the violations show

* `reload_no_match`: refresh, then "go to bottom" before the new stream is ready.
  The request goes to the old streamer under the new tag, is answered with an
  empty last batch when that streamer is closed, and the list ends empty.
* `prompts_held_enter`: two Enters on a prompt whose command has returned fill the
  channel and then block the event loop.

Other places where the code and what is said of it differ, met while modelling;
the properties leave them out, and say so:

* `CommandHistoryModel.Update` answers the close that removes it with
  `common.Close`, which closes the next layer as well (`OneCloseOneLayer` excepts it).
* `CloseApplied` at the end of a command closes whatever view is on top by then,
  without the question about uncopied comments (`PlainCloseKeepsComments` is about
  the other closes).
* An answer to a query of abandon names neither the query nor the operation.  An answer to an
  earlier query that comes last, or one that comes after its abandon was closed and another
  was started, replaces what was chosen, and Enter abandons that; and when jj fails on a query,
  or its answer finds a layer open, the choice stays that of the marks before
  (`AbandonsWhatIsMarked` says that what is abandoned and what is marked part in no other way,
  and come together with the answer to the next query).
* A text that a script puts over the output of the highlighted item (`ui.preview_show`) is not
  replaced by a refresh of that item, because `contentItem` still names it (preview.go:154-156
  and 241-243), until another item is selected.  `TestUpdate_PreviewShowDoesNotBreakSelectionRefresh`
  (preview_test.go:160), whose name says otherwise, begins before any item was shown.
* An answer of the preview that waits while the event loop runs jj may be handled after a newer
  call found the pane up to date and did nothing; the pane then has the older item until the next
  selection or refresh (`PreviewIsCurrent` names both cases and excludes any other).
* The load of a file of a diff answers without saying which diff it is of: when another diff was
  shown meanwhile, the old text replaces the new one, and next and previous count from the old file
  (diff.go:382-388; a summary is compared, diff.go:375).  `TextIsOfDiff` leaves the text out from
  there until a file of the present diff is loaded.
* Restoring a version before the list of versions has come, or when it is empty, panics, on Enter
  and as soon as the marker is drawn (evolog_operation.go:176-182, 218-220 and 243).
* Where a hidden commit of a change stands above the visible one, a search for the change stops at
  the hidden one (revisions.go:1440), and rows that come later take the cursor there;
  `ChangesAssumption` excludes such logs.
* A script that calls `wait_close` while a dialog is open is not told when it closes.
* An answer to a question for parents that arrives during the edit of a comment
  drops its focus, so that saving adds a second comment (`CommentStaysInPlace` covers
  position and text).
* A comment may be saved at no line, and is then copied as about "line 0": a late answer
  with a shorter file arrives during the edit, or a mark was kept while another revision was
  shown for a comment picked there (`CommentIsFound` says that this is the only case).
* A second answer for a file moves the cursor back to the comment being rewritten
  (`CommentStaysInPlace` is about the lines of new comments).
* The help of a key sequence is closed by the next frame when the sequence ends
  elsewhere, not by the key.
* The separator can be dragged behind a dialog (`ClicksStopAtBackdrop` is about the
  regions of the views).
* A click, or a load, may move the cursor of the bookmark pane while the rename
  prompt is open (`PromptIsAboutCursor` is about keys).

### Fairness

Goroutines that can run do run, the event loop takes every message that was sent
to it, jj either prints or exits, a `Close` that has begun ends, and a command
that has registered starts jj and cleans up; the answer to a call and the two
messages of a command are delivered: weak fairness of each of these.  For the reloads
of the list one weak fairness per load is enough, that its command runs or its message
is handled.
Bubble Tea's loop receives from one channel whose senders queue in order, which
is why fairness per message is justified.  Nothing is assumed about the user,
about jj returning while it waits for a password, or about further refreshes.

### Bounds

Every bound is a constant of the module whose guards use it, marked "bound" in its
comment: `MaxRows`, `MaxTag` (refreshes; turns of the spinner), `MaxSearches`,
`MaxTicks`, `MaxLayers`, `MaxMsgs`, `MaxOpLayers`, `MaxKeys`, `MaxWaits`, `MaxCmds`, `MaxId`,
`MaxVersion`, `MaxChecked`, `MaxStarts`, `MaxMoves`, `MaxAsked`, `MaxLoads`, `MaxDetailCmds`,
`MaxText`, `MaxVersions`, `MaxComments`, `MaxRequests`, `MaxAnswers`, `MaxPatchLines`,
`MaxPaneLoads`, `MaxPaneCmds`, `MaxMenuRuns`, `MaxLines`, `MaxRevsets`, `MaxCalls`,
`MaxChanges`, `MaxDiffLoads`, `MaxStale`.  The limits the code itself has
(`HistoryLimit`, `MaxHistoryItems`, `maxRelatedPairingLines`, `ListMax`) are constants
with small values, so that they are reached.  A message that finds a bound used up stays where
it is.  Two of everything is what the hazards need: an answer that is overtaken,
a row that goes, a file that differs.

## The proofs

Every Proofs module follows one pattern: an inductive invariant, a lemma for each action
or group of actions, a theorem or lemma `Spec => []Inv`, and the results as
consequences; an action property follows from the invariant and one more case per
action.  The inductive invariant is always the property together with what the
handlers rely on: the types of what is under way, and who may have sent it.

Nothing is assumed but the ASSUMEs of the modules.  Bounds are natural numbers
(`BatchSize` and `HistoryLimit` positive); `SubOf` maps connections to commands and
`None` is no connection; `NoCommand` is not a command; dialogs are some of those the
code has; the logs of `Revisions` are sequences of commits whose change ids are none of
"", "@" and the commit id of another change, and have hidden commits of a change below the
visible one, and its targets are names; the changes
of `Operations` are numbered from 1; the files of `Details` are numbered in their order; a
diff of `Annotation` lists a path once, since `patchFiles` does, and a file that is read has
a line, since `splitFileLines` makes one of nothing.  All of them are evaluated by the runs.

* `GraphStreamProofs`: `TypeCorrect`, `NoFalseEndCorrect` and `Refinement` (`Spec =>
  ImplementsRowStream`) for any number of callers, any batch size and any log.
  `NoFalseEnd` alone is not inductive: that the end is true depends on where the
  parser was when the last batch left it.  `ParserInv` ties `parser` to the numbers
  `cur`, `sent` and `total`, `ChannelInv` says that a batch in the channel is the one
  after the last received and ends at `sent`, and `EndInv` that a batch without
  successor has left nothing behind.  The refinement then maps `ReceiveBatch` to
  `Deliver`, the first step of `Close` to `Cancel` and everything else to a stutter.
* `AskpassProofs`: `TypeCorrect`, `NeverPanics`, `PasswordStaysWithItsPrompt` and
  `PromptsAndHelpersMatch` for any commands, connections and number of keys.  The
  strengthening: the channel of the prompt on the screen is open, and a channel is
  fresh until its prompt is shown (`ChannelInv`); an answer in the channel of the
  prompt on the screen has a closing message behind it (`AnswerInv`); an answer
  under way was given in time, or its command has returned since (`TimelyInv`),
  which is why the second look at `done` is enough.
* `FlashProofs`: `RunningIsTrue`, `SpinnerIsAlive`, `HistoryIsAlwaysSound` and
  `MessagesAlwaysStay`, for any set of commands, any bounds and any limit of the history
  (the run has a history of one entry).  `ShownWhileItRuns` becomes inductive with the
  types and `NewIsQuiet` (a command that was not run has announced nothing).
  `SpinnerTurns` needs only that `ticks` is a bag of numbers: the lemmas `AddToBag` and
  `TakeFromBag` say what the two operations on bags do to the members, and then a tick
  that the spinner does not take is not the one it waits for.  The history rests on
  order: the lists of messages grow in their numbers and stay below `currentId`
  (`AppendSorted`, `SuffixSorted`, `RemoveSorted`, `WithoutIdSorted`), so that cutting the
  front of the history drops the oldest; timers run only for numbers that were given,
  and never for an error, which is why an error stays until it is dismissed.
* `ScriptsProofs`: `CallsAlwaysNest` and `EffectsAlwaysBeforeResume`.  That each call is
  in one place cannot be shown of a call alone: a handler takes it out of a message
  and puts it into a frame.  `FramesInv` says that the stack is a chain and that the
  numbers of its waits grow from bottom to top, so that only the top runner waits for
  something outside the stack; `BagInv` that the messages under way carry exactly that
  call, once, or none.  That a sequence with an effect has the answer behind it
  (`WellFormed`) then gives the order of effects and answer.
* `ViewLayersProofs`: `LayersAreAlwaysSound`, `PlainCloseAlwaysKeepsComments` and
  `OneCloseAlwaysOneLayer`.  The list of layers is sound by itself (`ListInv`; `Keeps`
  says of each operation on it that it drops no annotation); what is added is that
  closes come from one of four places and that dialogs are asked for only when they
  are in use.  The two action properties count copies of messages: a key takes none
  away, a handler takes its own (`HandlerTakesItsOwn`), and a close that closes a layer
  leaves one close less.
* `RevisionsProofs`: `ListIsAlwaysSound`, `LatestLoadAlwaysShown` and
  `GrowingAlwaysKeepsSelection`.  The first invariant, `RevisionsInv`, adds that the
  streamer of every message and request has been opened.  `LatestLoadShown` needs a
  second one: as long as no request went astray (`exposed`), at most one thing of
  the latest load is under way (`Single`), and it tells how far the load has come
  (`Phase`, one case per kind of message): nothing opened yet, opened and nothing
  read, read up to a position, read to its end.  Messages of other loads have other
  tags and change nothing (`SameLoad`).  For the selection, streamers read logs of the
  repository (`Logged`), and a search for the selected change in a longer list finds a
  row of that change, at the cursor or above it (`SearchFinds`, `GrowthKeepsSelection`).
* `OperationsProofs`: `TargetsAreAlwaysSound` and `AbandonAlwaysResolved`.  An operation
  acts on what it was last told, so the invariant is about what it may still be told:
  `Notice` (a notification under way is of an earlier move, or of the last one and then
  of the row under the cursor) and `Reply` (an answer that names the latest query of the
  abandon that is open is what its marks stand for).  `OpOk` says what is known of the
  operation itself.  `IntentsOk` collects what its keys do, kind by kind; `MovingStep` and
  `RestingStep` the steps that move the highlight and those that do not.  For the abandon,
  `SendElements`, `RestElements` and `NotifyElements` say which messages are under way after a
  step: the answer to the last query stays among them until it is handled (`AbandonStays`,
  `AbandonAnswer`) or a toggle asks anew (`ToggleAsks`).
* `ViewsProofs`, for any items, files, texts, diffs, lines and bounds:
  * `PreviewSound` (`PreviewSpec => []PreviewIsSound`).  That the preview is current once
    nothing is under way says nothing about the way there; `ItemIsComing` does: the
    highlighted item is to be announced, or asked for by the latest call, or answered,
    or shown, or overtaken, or the pane was opened by a script.  It rests on `OneIsLatest` (every
    call but one is cancelled), on `LatestIsNews` (the command of the latest call runs only for an
    item that is not shown, unless a late answer came since it looked) and on `AnswerInv` (one
    answer at most comes in time, and then no call is the latest), which is what the second look
    of `Debounce` is for.  `RemoveAtElements` and `CallEnds` say what is left when one of the
    goroutines ends.
  * `RestoreKeeps`: the types of the versions (`EvologTyped`) are enough, and one case per
    action.
  * `KillUndone`: `CutIsUndone` says for each cut that what `describe` notes is what the
    text area deletes, and that putting it back gives the text; `KillIsNoted` that the
    last kill is the one noted.
  * `DetailsSound`.  `DetailsInv` adds to the types that the cursor is on a visible file
    (`CursorIsVisible`), that the commands of a question are about the marks it was opened
    with (`QuestionIsAbout`), and that the latest load is for the revision shown
    (`LatestIsForRevision`), so that its answer may replace the list.
  * `PatchExact`.  `PatchInv` says that the parser is in the hunk that is being written, at
    the header's numbers plus the lines counted since; the next line has then the number
    its place gives it (`LineNumbersAreExact`).  That the pairing is a matching within a
    block (`PairIsMutual`, `BlockMeets`) is a fact about one state.
  * `StatusSound`.  `StatusInv` adds that no history holds a line twice and that one which
    was not read has nothing to append (`HistoriesInv`), that the history of an open input
    was read (`InputHasRead`), and that a file search asked for or open goes back to the
    revset decided on before it (`SearchGoesBack`), which is what `PreviewIsUndone` needs.
  * `AnnotationSound` (`AnnotationSpec => AnnotationIsSound`).  Each handler is a function
    from the view to the view and to what it sends, so the lemmas are about those:
    `Outcome` (the view is sane, comments are only taken away, what is sent is well
    formed), `FocusStays` and `LoadStays` (what the focus or a load waits for is among the
    messages afterwards if it was before) and `WritingStays`.  `AnnotationInv` is `Sane`
    (types, ids and ranges of the comments, a path listed once, no files while loading)
    with `FocusIsIn` and `LoadIsIn`.  `JumpStep` is the heart of it: after a jump the comment
    is under the cursor, its file is being read, or it has lost the focus.  `BagLess` and
    `BagMore` count the copies of messages, which is how an answer confirmed twice is told
    from one; `LocationHolds` gives `CommentIsFound`.

  Lists in order and least elements are needed in several of them.  The prover cannot do
  induction over data; `LeastOf` (a set of numbers has a least one, from
  `WellFoundedInduction`) stands in for it as a least counterexample: `ElementOfRank`,
  `InOrderElements` and `KeptElements` say what the operators of `Ordered` return.

Stating these proofs corrected the models: the number of copies of a
message now counts in `CallIsSomewhere` and in the properties of closes, `exposed` is set
only when the streamer asked already has a request (which makes `LatestLoadShown`
say more), an answer to an earlier query of an abandon is told from one to the last, and a message of `Flash` is removed by its number.  In `Annotation` two answers of one
file may be under way and may differ, a file that could not be read keeps the lines it
had, and a mark may go beyond the lines shown; `CommentIsFound` was added for it.  Where the
arms of a CASE overlapped, the guards now say which one is meant.

Only model-checked: liveness (fairness and ENABLED are out of the prover's
reach), `CommandIsReported` among it, and these modules with their properties:
`Confirmation`, `Bookmarks`, `BookmarkPane` (`PaneIsSound`), `Menus` (`MenuIsSound`), `Dispatch`
(`KeysAreSound`), `RevsetInput` (`RevsetIsSound`), `Dialogs`, `ListView`, `OpLog`, `Diff`, `Layout`.
Most of them rest on lists that are sorted, filtered, folded or flattened (`SortSeq`,
`SelectSeq`, `FoldLeft`, `FlattenSeq`), or on recursive functions of a parser, of the list
window and of the completion.  What these compute for every input needs induction over
data, which the prover cannot do; TLC compares them with their reference definitions.

## Not modelled, and what may follow

Left out: colours, themes, effects and ANSI parsing (input to output, no state),
the generator and its catalogs (generated code and a build tool), the builders of
jj's command lines (argument lists), the loading and merging of TOML files, the
end-to-end harness, conversions between Lua and Go values, the completion of
bookmark names in the set-bookmark prompt, the rendering of rows and markers.

What would add most from here:

1. A composition of `ViewLayers` and `Revisions`: what a list, or a script that
   waits for it, misses while the operation log is open.
2. A composition of `BookmarkPane` with the prompt it opens and the mouse.
3. Proofs for the parts of `Menus`, `BookmarkPane` and `Layout` that do not rest on sorted
   or flattened lists: where the cursor is, and how the boxes divide the window.
