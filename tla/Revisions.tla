------------------------------ MODULE Revisions ------------------------------
(***************************************************************************)
(* The revision list of revisions.Model while the repository changes under *)
(* it: refreshes, the loads they start, the batches of a streamed log and  *)
(* the cursor.  Every tea.Cmd runs in a goroutine of its own and the       *)
(* messages of different commands reach the event loop in any order, so    *)
(* the commands and the messages under way are two bags.  A streamer is    *)
(* what RowStream promises and GraphStream implements; it is named after   *)
(* the tag of the load that opened it.                                     *)
(*                                                                         *)
(* A row is a commit [id, change, wc]: the commit id, the change id and    *)
(* whether it is the working copy.  The cursor counts from 0 as in Go.     *)
(***************************************************************************)
EXTENDS Integers, Sequences, Bags

CONSTANTS
  Names,        \* commit ids, change ids and what a refresh may name; "" is none
  Logs,         \* what jj log prints for each state of the repository
  Targets,      \* those a refresh asks to select
  LogBatching,  \* values of config revisions.log_batching
  BatchSize,    \* config revisions.log_batch_size
  MaxTag        \* bound on the number of refreshes

\* change is GetChangeId, raw the field ChangeId: for a hidden commit the first is its commit id.
Commits == [id : Names, change : Names, raw : Names, wc : BOOLEAN]

ASSUME LogsAssumption == Logs \in Seq(Seq(Commits)) /\ Logs # <<>>
ASSUME BoundsAssumption == BatchSize \in Nat \ {0} /\ MaxTag \in Nat /\ LogBatching \subseteq BOOLEAN
ASSUME NamesAssumption == Targets \cup {"", "@"} \subseteq Names

\* Within a log a change id names a change only: jj writes change ids and commit
\* ids in different letters.  Hidden commits of a change come below the visible one,
\* which was written later.
ASSUME ChangesAssumption ==
  \A v \in DOMAIN Logs : \A i, j \in DOMAIN Logs[v] :
    /\ Logs[v][i].change \notin {"", "@"}
    /\ Logs[v][j].id = Logs[v][i].change => Logs[v][j].change = Logs[v][i].change
    /\ Logs[v][j].raw = Logs[v][i].change => Logs[v][j].change = Logs[v][i].change \/ i < j

VARIABLES
  batching,         \* config revisions.log_batching, which stays as it is
  repo,             \* state of the repository, the operation id of jj
  previousOpLogId,
  rows, offScreenRows, cursor,
  tag, pending, streamer, hasMore, requestInFlight, isLoading,
  streams,          \* the streamers opened so far
  cmds, msgs,       \* commands running, messages not yet handled
  failed, exposed   \* history, see the properties

listVars   == <<rows, offScreenRows, cursor>>
loadVars   == <<tag, pending, streamer, hasMore, requestInFlight, isLoading>>
repoVars   == <<batching, repo, previousOpLogId>>
vars == <<repoVars, listVars, loadVars, streams, cmds, msgs, failed, exposed>>

Tags      == 1 .. MaxTag
Lengths   == {Len(Logs[v]) : v \in DOMAIN Logs}
MaxLength == CHOOSE n \in Lengths : \A k \in Lengths : k <= n
NoReload  == [tag |-> 0, sel |-> "", keep |-> FALSE]

\* Bags of commands and messages.
Pending(bag) == BagToSet(bag)
Without(bag, x) == bag (-) SetToBag({x})
With(bag, x) == bag (+) SetToBag({x})
Copies(bag, x) == IF x \in DOMAIN bag THEN bag[x] ELSE 0

Refreshing(sel, keep) == [type |-> "refresh", sel |-> sel, keep |-> keep]

Init ==
  /\ batching \in LogBatching /\ repo \in DOMAIN Logs /\ previousOpLogId = 0
  /\ rows = <<>> /\ offScreenRows = <<>> /\ cursor = 0
  /\ tag = 0 /\ pending = NoReload /\ streamer = 0
  /\ hasMore = FALSE /\ requestInFlight = FALSE /\ isLoading = FALSE
  /\ streams = <<>>
  /\ cmds = EmptyBag /\ msgs = SetToBag({Refreshing("@", FALSE)})
  /\ failed = {} /\ exposed = FALSE

-----------------------------------------------------------------------------
(* The list.                                                               *)

InRows(i, rs) == i \in 0 .. Len(rs) - 1

NoCommit == [id |-> "", change |-> "", raw |-> "", wc |-> FALSE]
SelectedRevision == IF InRows(cursor, rows) THEN rows[cursor + 1] ELSE NoCommit

SetCursor(i) == cursor' = IF InRows(i, rows) THEN i ELSE cursor

\* Index of the first row that rev names, -1 if there is none.
selectRevisionExact(rs, rev) ==
  LET named == {i \in 0 .. Len(rs) - 1 :
                  IF rev = "@" THEN rs[i + 1].wc
                  ELSE rev # "" /\ rev \in {rs[i + 1].change, rs[i + 1].raw, rs[i + 1].id}}
  IN  IF named = {} THEN -1 ELSE CHOOSE i \in named : \A j \in named : i <= j

\* The first index found among the candidates, in order.
FirstFound(indices) ==
  LET found == {k \in DOMAIN indices : indices[k] # -1}
  IN  IF found = {} THEN -1 ELSE indices[CHOOSE k \in found : \A l \in found : k <= l]

-----------------------------------------------------------------------------
(* Commands.                                                               *)

\* A batch of streamer s is under way, when the messages left are bag.
Answering(s, bag) ==
  \/ \E c \in Pending(cmds) : c.type = "request" /\ c.streamer = s
  \/ \E m \in Pending(bag) : m.type = "append" /\ m.streamer = s

\* Asks the streamer for a batch; the answer will carry the tag t, whichever
\* load the streamer belongs to.  bag is what is left of the messages.
requestMoreRows(s, t, more, inFlight, bag) ==
  IF inFlight \/ s = 0 \/ ~more \/ t # tag
    THEN requestInFlight' = inFlight /\ UNCHANGED <<cmds, exposed>>
    ELSE /\ requestInFlight' = TRUE
         /\ cmds' = With(cmds, [type |-> "request", streamer |-> s, tag |-> t])
         /\ exposed' = (exposed \/ s # t \/ Answering(s, bag))

\* The streamers once the load with tag t has opened its own: the log as jj prints it now.
Opening(t, open) ==
  [s \in DOMAIN streams \cup {t} |->
     IF s \in DOMAIN streams THEN streams[s] ELSE [log |-> Logs[repo], pos |-> 0, open |-> open]]

\* The goroutine of loadStreaming: nothing when the tag has moved on; else jj
\* starts, or fails before it prints anything.
LoadStreaming(c) ==
  /\ c.type = "loadStreaming"
  /\ cmds' = Without(cmds, c)
  /\ \/ c.tag # tag /\ UNCHANGED <<streams, msgs>>
     \/ /\ c.tag = tag
        /\ streams' = Opening(c.tag, TRUE)
        /\ msgs' = With(msgs, [type |-> "streamingReady", streamer |-> c.tag, tag |-> c.tag])
     \/ /\ c.tag = tag
        /\ msgs' = With(msgs, [type |-> "streamingReady", streamer |-> 0, tag |-> c.tag])
        /\ UNCHANGED streams
  /\ UNCHANGED <<repoVars, listVars, loadVars, failed, exposed>>

\* The goroutine of load: the whole log in one message.
Load(c) ==
  /\ c.type = "load"
  /\ cmds' = Without(cmds, c)
  /\ \/ /\ streams' = Opening(c.tag, FALSE)
        /\ msgs' = With(msgs, [type |-> "updateRevisions", rows |-> Logs[repo], tag |-> c.tag])
        /\ UNCHANGED failed
     \/ /\ msgs' = With(msgs, [type |-> "failed"])
        /\ failed' = failed \cup {c.tag}
        /\ UNCHANGED streams
  /\ UNCHANGED <<repoVars, listVars, loadVars, exposed>>

\* What is left of a stream, and its next batch.
Rest(s) == SubSeq(s.log, s.pos + 1, Len(s.log))
NextBatch(s) ==
  IF Len(Rest(s)) > BatchSize + 2
    THEN [rows |-> SubSeq(Rest(s), 1, BatchSize + 1), more |-> TRUE]
    ELSE [rows |-> Rest(s), more |-> FALSE]

\* GraphStreamer.RequestMore as RowStream describes it: the next batch, or,
\* when the stream has been closed, what was left to say, possibly nothing.
RequestMore(c) ==
  /\ c.type = "request"
  /\ LET s == streams[c.streamer] IN
     \E b \in {NextBatch(s)} \cup
              (IF s.open THEN {} ELSE {[rows |-> SubSeq(Rest(s), 1, n), more |-> FALSE] : n \in 0 .. Len(Rest(s))}) :
       /\ streams' = [streams EXCEPT ![c.streamer].pos = @ + Len(b.rows)]
       /\ msgs' = With(msgs, [type |-> "append", streamer |-> c.streamer, tag |-> c.tag,
                              rows |-> b.rows, more |-> b.more])
  /\ cmds' = Without(cmds, c)
  /\ UNCHANGED <<repoVars, listVars, loadVars, failed, exposed>>

-----------------------------------------------------------------------------
(* The event loop: one action per message.                                 *)

refresh(sel, keep) ==
  /\ tag < MaxTag
  /\ isLoading' = TRUE
  /\ tag' = tag + 1
  /\ pending' = [tag |-> tag + 1, sel |-> sel, keep |-> keep]
  /\ cmds' = With(cmds, [type |-> IF batching THEN "loadStreaming" ELSE "load", tag |-> tag + 1])
  /\ UNCHANGED <<repoVars, rows, offScreenRows, cursor, streamer, hasMore, requestInFlight,
                 streams, failed, exposed>>

RefreshMsg(m) ==
  /\ m.type = "refresh"
  /\ refresh(m.sel, m.keep)
  /\ msgs' = Without(msgs, m)

\* The refresh intent of the user, and the RefreshMsg with which every command
\* that changes the repository ends.
RefreshIntent(sel, keep) == refresh(sel, keep) /\ UNCHANGED msgs

\* The operation id is read on the event loop; when jj fails it reads as "".
\* Ticks are far apart: at most MaxTicks of their refreshes wait at a time.
NoOperation == 0
MaxTicks == 1
AutoRefresh ==
  /\ Copies(msgs, Refreshing("", TRUE)) < MaxTicks
  /\ \E id \in {repo, NoOperation} : id # previousOpLogId /\ previousOpLogId' = id
  /\ msgs' = With(msgs, Refreshing("", TRUE))
  /\ UNCHANGED <<batching, repo, listVars, loadVars, streams, cmds, failed, exposed>>

UpdateRevisionsFailed(m) ==
  /\ m.type = "failed"
  /\ isLoading' = FALSE
  /\ msgs' = Without(msgs, m)
  /\ UNCHANGED <<repoVars, listVars, tag, pending, streamer, hasMore, requestInFlight,
                 streams, cmds, failed, exposed>>

\* A pending reload is used up by the first message of its load.
ReloadOf(t) == IF pending.tag = t THEN pending ELSE NoReload
UseReload(t) == pending' = IF pending.tag = t THEN NoReload ELSE pending

\* updateGraphRows.
GraphRowsCursor(rs, sel) ==
  LET current == IF sel = "" THEN SelectedRevision.change ELSE sel
      idx == FirstFound(<<selectRevisionExact(rs, current), selectRevisionExact(rs, "@"), 0>>)
  IN  IF rs = <<>> THEN 0 ELSE idx

UpdateRevisions(m) ==
  /\ m.type = "updateRevisions"
  /\ msgs' = Without(msgs, m)
  /\ IF m.tag # tag
       THEN UNCHANGED <<rows, cursor, isLoading, pending>>
       ELSE /\ isLoading' = FALSE
            /\ UseReload(m.tag)
            /\ rows' = m.rows
            /\ cursor' = GraphRowsCursor(m.rows, ReloadOf(m.tag).sel)
  /\ UNCHANGED <<repoVars, offScreenRows, tag, streamer, hasMore, requestInFlight,
                 streams, cmds, failed, exposed>>

\* Close may be called on a streamer that is closed already.
Closing(s) == IF s = 0 THEN streams ELSE [streams EXCEPT ![s].open = FALSE]

\* What the focused pane highlights: the row under the cursor (by its change,
\* or by its commit in a file list), or something the list does not know.
Highlighted == {SelectedRevision.change, SelectedRevision.id, ""}

\* Mutant of StreamingReadyStale: the late streamer is dropped, not closed.
StreamingReadyDropped(m) ==
  /\ m.tag # tag
  /\ UNCHANGED <<streams, loadVars, offScreenRows, cmds, failed, exposed>>

StreamingReadyStale(m) ==
  /\ m.tag # tag
  /\ streams' = Closing(m.streamer)
  /\ UNCHANGED <<loadVars, offScreenRows, cmds, failed, exposed>>

StreamingReadyFailed(m) ==
  /\ m.tag = tag /\ m.streamer = 0
  /\ streams' = Closing(streamer)
  /\ streamer' = 0
  /\ hasMore' = FALSE /\ isLoading' = FALSE /\ requestInFlight' = FALSE
  /\ failed' = failed \cup {m.tag}
  /\ UNCHANGED <<tag, pending, offScreenRows, cmds, exposed>>

\* What StreamingReadyOpened does to the reload.
CaptureSelection(m) ==
  IF pending.tag = m.tag /\ pending.sel = ""
    THEN \E h \in Highlighted : pending' = [pending EXCEPT !.sel = h]
    ELSE UNCHANGED pending

\* Mutants of StreamingReadyOpened: the rows of the last load, or its request
\* flag, are not reset.
StreamingReadyKeepsRows(m) ==
  /\ m.tag = tag /\ m.streamer # 0
  /\ streams' = Closing(streamer)
  /\ streamer' = m.streamer
  /\ hasMore' = TRUE
  /\ CaptureSelection(m)
  /\ requestMoreRows(m.streamer, m.tag, TRUE, FALSE, msgs)
  /\ UNCHANGED <<offScreenRows, tag, isLoading, failed>>
StreamingReadyOpened(m) ==
  /\ m.tag = tag /\ m.streamer # 0
  /\ streams' = Closing(streamer)
  /\ streamer' = m.streamer
  /\ offScreenRows' = <<>>
  /\ hasMore' = TRUE
  /\ CaptureSelection(m)
  /\ requestMoreRows(m.streamer, m.tag, TRUE, FALSE, msgs)
  /\ UNCHANGED <<tag, isLoading, failed>>

StreamingReady(m) ==
  /\ m.type = "streamingReady"
  /\ \/ StreamingReadyStale(m) /\ msgs' = Without(msgs, m)
     \/ StreamingReadyFailed(m) /\ msgs' = With(Without(msgs, m), [type |-> "failed"])
     \/ StreamingReadyOpened(m) /\ msgs' = Without(msgs, m)
  /\ UNCHANGED <<repoVars, rows, cursor>>

\* Mutants of ShowRows: a target that was not found is taken for an index; a
\* cursor beyond the last row stays there; the cursor goes to the working copy.
ShowRowsAt(t, collected, index) ==
  /\ rows' = collected /\ cursor' = index
  /\ UseReload(t)
  /\ requestInFlight' = FALSE /\ UNCHANGED <<cmds, exposed>>
ShowRowsAtWorkingCopy(t, collected) ==
  ShowRowsAt(t, collected, FirstFound(<<selectRevisionExact(collected, ReloadOf(t).sel),
                                        selectRevisionExact(collected, "@"), 0>>))

\* The rows collected so far become the list, and the cursor goes to the
\* revision the reload asked for, to the one it was on, or back into range.
ShowRows(t, collected) ==
  LET inRange == IF collected # <<>> /\ ~InRows(cursor, collected) THEN 0 ELSE -1
      target  == FirstFound(<<selectRevisionExact(collected, ReloadOf(t).sel),
                              selectRevisionExact(collected, SelectedRevision.change),
                              inRange>>)
  IN  /\ rows' = collected
      /\ cursor' = IF target = -1 THEN cursor ELSE target
      /\ UseReload(t)
      /\ requestInFlight' = FALSE /\ UNCHANGED <<cmds, exposed>>

\* Mutant of CollectRows: the next batch is not requested.
CollectRowsWaits(m, collected) ==
  /\ \E lastRowIndex \in -1 .. MaxLength - 1 :
       Len(collected) < cursor + 1 \/ Len(collected) < lastRowIndex + 1
  /\ requestInFlight' = FALSE
  /\ UNCHANGED <<cmds, exposed, rows, cursor, pending>>

\* Until the rows reach the cursor and the last row on the screen (which the
\* last frame left behind, so any index) they stay off screen.
CollectRows(m, collected) ==
  /\ \E lastRowIndex \in -1 .. MaxLength - 1 :
       Len(collected) < cursor + 1 \/ Len(collected) < lastRowIndex + 1
  /\ requestMoreRows(streamer, m.tag, TRUE, FALSE, Without(msgs, m))
  /\ UNCHANGED <<rows, cursor, pending>>

AppendRowsCurrent(m) ==
  LET collected == offScreenRows \o m.rows IN
  /\ m.tag = tag
  /\ offScreenRows' = collected
  /\ hasMore' = m.more
  /\ isLoading' = (m.more /\ collected # <<>>)
  /\ \/ m.more /\ CollectRows(m, collected) /\ UNCHANGED streams
     \/ m.more /\ Len(collected) >= cursor + 1 /\ ShowRows(m.tag, collected) /\ UNCHANGED streams
     \/ ~m.more /\ ShowRows(m.tag, collected) /\ streams' = Closing(streamer)

\* The answer of an older load only frees the request flag.
AppendRowsStale(m) ==
  /\ m.tag # tag
  /\ requestInFlight' = FALSE
  /\ UNCHANGED <<rows, offScreenRows, cursor, pending, hasMore, isLoading, streams, cmds, exposed>>

AppendRowsBatch(m) ==
  /\ m.type = "append"
  /\ AppendRowsCurrent(m) \/ AppendRowsStale(m)
  /\ msgs' = Without(msgs, m)
  /\ UNCHANGED <<repoVars, tag, streamer, failed>>

-----------------------------------------------------------------------------
(* The user.                                                               *)

UnchangedByUser == UNCHANGED <<repoVars, rows, offScreenRows, tag, pending, streamer, hasMore,
                               isLoading, streams, msgs, failed>>

\* A request of the user goes to the streamer at hand under the current tag.
AskForMore == requestMoreRows(streamer, tag, hasMore, requestInFlight, msgs)

\* Going down past the last row asks for more instead of moving.
Navigate(step) ==
  /\ rows # <<>>
  /\ IF step > 0 /\ cursor + step >= Len(rows) /\ hasMore
       THEN AskForMore /\ UNCHANGED cursor
       ELSE /\ SetCursor(CASE cursor + step < 0 -> 0
                           [] cursor + step >= Len(rows) -> Len(rows) - 1
                           [] OTHER -> cursor + step)
            /\ UNCHANGED <<requestInFlight, cmds, exposed>>
  /\ UnchangedByUser

GoToBottom ==
  /\ rows # <<>>
  /\ SetCursor(Len(rows) - 1)
  /\ AskForMore
  /\ UnchangedByUser

\* A wheel event near the end of the list, which the screen must show.
Scroll ==
  /\ rows # <<>> /\ hasMore
  /\ AskForMore
  /\ UNCHANGED cursor /\ UnchangedByUser

\* Clicks, searches and jumps to a named revision (parent, child, @, a
\* bookmark, the top) all end in SetCursor.
JumpTo(i) ==
  /\ SetCursor(i)
  /\ UNCHANGED <<requestInFlight, cmds, exposed>> /\ UnchangedByUser

\* External: somebody changes the repository.
RepositoryChanges ==
  /\ repo + 1 \in DOMAIN Logs /\ repo' = repo + 1
  /\ UNCHANGED <<batching, previousOpLogId, listVars, loadVars, streams, cmds, msgs, failed, exposed>>

-----------------------------------------------------------------------------
Run(c) == LoadStreaming(c) \/ Load(c) \/ RequestMore(c)

Handle(m) ==
  \/ RefreshMsg(m) \/ UpdateRevisionsFailed(m) \/ UpdateRevisions(m)
  \/ StreamingReady(m) \/ AppendRowsBatch(m)

User ==
  \/ \E step \in {-1, 1} : Navigate(step)
  \/ GoToBottom \/ Scroll
  \/ \E i \in 0 .. MaxLength - 1 : JumpTo(i)

Next ==
  \/ \E c \in Pending(cmds) : Run(c)
  \/ \E m \in Pending(msgs) : Handle(m)
  \/ \E sel \in Targets, keep \in BOOLEAN : RefreshIntent(sel, keep)
  \/ AutoRefresh \/ User \/ RepositoryChanges

Spec == Init /\ [][Next]_vars

\* Commands run to their end and the event loop handles every message; that each load moves on,
\* by its command or by its message, is enough.
TaggedCmd(t) == \E c \in Pending(cmds) : c.tag = t /\ Run(c)
TaggedMsg(t) == \E m \in Pending(msgs) : m.type \notin {"refresh", "failed"} /\ m.tag = t /\ Handle(m)
UntaggedMsg  == \E m \in Pending(msgs) : m.type \in {"refresh", "failed"} /\ Handle(m)
Fairness ==
  /\ \A t \in Tags : WF_vars(TaggedCmd(t) \/ TaggedMsg(t))
  /\ WF_vars(UntaggedMsg)

FairSpec == Spec /\ Fairness

-----------------------------------------------------------------------------
(* Properties.                                                             *)

IsPrefix(s, t) == Len(s) <= Len(t) /\ s = SubSeq(t, 1, Len(s))

TypeOK ==
  /\ rows \in Seq(Commits)
  /\ cursor \in Nat
  /\ tag \in 0 .. MaxTag /\ pending \in [tag : 0 .. MaxTag, sel : Names, keep : BOOLEAN]
  /\ streamer \in {0} \cup DOMAIN streams
  /\ IsABag(cmds) /\ IsABag(msgs)

\* The cursor is on a row whenever there is one, however the list shrinks
\* (SelectedRevision and every command act on rows[cursor]).
CursorInRange == rows # <<>> => InRows(cursor, rows)

\* Once the current load has shown something, the list is what that load
\* printed: a prefix of it, and all of it when there is no more.  exposed is
\* set when a batch is requested from a streamer of another load, or from one
\* that has a batch under way: the only two ways to lose this.
LatestLoadShown ==
  ~exposed /\ tag \in DOMAIN streams /\ pending.tag # tag =>
    /\ IsPrefix(rows, streams[tag].log)
    /\ ~hasMore => rows = streams[tag].log

\* A streamer that is open is the current one or is on its way to become it:
\* no jj process is left behind by a newer refresh (streamingReadyMsg).
NoStreamerLeaks ==
  \A s \in DOMAIN streams : streams[s].open =>
    s = streamer \/ \E m \in Pending(msgs) : m.type = "streamingReady" /\ m.streamer = s

\* While requestInFlight suppresses requests an answer is really to come, so
\* that the list cannot stop growing (requestMoreRows, appendRowsBatchMsg).
InFlightIsHonest ==
  requestInFlight => \/ \E c \in Pending(cmds) : c.type = "request"
                     \/ \E m \in Pending(msgs) : m.type = "append"

\* Rows that arrive later do not take the cursor off its revision
\* (appendRowsBatchMsg after the first batch).
GrowingKeepsSelection ==
  [][rows # <<>> /\ rows' # rows /\ tag' = tag /\ pending.tag # tag /\ ~exposed'
     => SelectedRevision'.change = SelectedRevision.change]_vars

\* The word "loading" does not stay on an empty screen (ViewRect).
LoadingEnds == (rows = <<>> /\ isLoading) ~> (rows # <<>> \/ ~isLoading)

\* Every refresh is applied, fails, or is overtaken by a newer one.
RefreshIsApplied ==
  \A t \in Tags : (tag = t) ~> (pending.tag # t \/ t \in failed)

\* The screen says "(no matching revisions)" for good only if jj printed none
\* (ViewRect with no rows and nothing loading).
NoMatchingIsTrue ==
  rows = <<>> /\ ~isLoading /\ cmds = EmptyBag /\ msgs = EmptyBag /\ tag \notin failed
    => streams[tag].log = <<>>

\* The cursor is on a row, no jj process is left behind and a request that blocks others is
\* answered, however refreshes, late answers and keys interleave (revisions.go Update).
ListIsSound == TypeOK /\ CursorInRange /\ NoStreamerLeaks /\ InFlightIsHonest

\* Loading comes to an end: the word "loading" goes, and every refresh is applied, fails or is
\* overtaken (revisions.go appendRowsBatchMsg asks for the next batch until it shows one).
LoadsEnd == LoadingEnds /\ RefreshIsApplied
=============================================================================
