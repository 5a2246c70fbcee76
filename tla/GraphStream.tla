----------------------------- MODULE GraphStream -----------------------------
(***************************************************************************)
(* The incremental loading of the revision log: graph.GraphStreamer with   *)
(* the goroutine that parser.ParseRowsStreaming starts.                    *)
(*                                                                         *)
(* Three kinds of threads meet here: the parser goroutine, which reads the *)
(* output of jj and hands over a batch only when asked to; the command     *)
(* goroutines that run RequestMore; and the event loop, which calls Close. *)
(* They share a control channel and a channel of batches, each with room   *)
(* for one element, and a context that Close cancels.  A select of Go with *)
(* several ready cases takes any of them.                                  *)
(*                                                                         *)
(* A row is its number in the output of jj; the local variable "rows" of   *)
(* the parser is the interval sent+1 .. cur-1 and row cur is the one being *)
(* assembled.  A channel with room for one element is a set with at most   *)
(* one member.                                                             *)
(***************************************************************************)
EXTENDS Integers, Sequences

CONSTANTS
  Callers,    \* goroutines that may run RequestMore at the same time
  BatchSize,  \* log_batch_size
  MaxRows     \* bound on the number of rows jj prints

ASSUME BatchSizeAssumption == BatchSize \in Nat \ {0}
ASSUME MaxRowsAssumption   == MaxRows \in Nat

VARIABLES
  total,     \* rows that jj prints before its output ends
  cur,       \* rows whose first line the parser has read
  sent,      \* last row that left the parser in a batch
  parser,    \* where the parser goroutine is
  control,   \* control channel holds a RequestMore
  rowsChan,  \* channel of batches
  closing,   \* how far Close has come
  caller,    \* where each RequestMore is
  hasMore,   \* what the last finished RequestMore said
  got        \* batches received from rowsChan, in order (history)

parserVars   == <<total, cur, sent, parser>>
consumerVars == <<closing, caller, hasMore, got>>
vars == <<parserVars, control, rowsChan, consumerVars>>

Batch == [lo : Nat, hi : Nat, more : BOOLEAN]

ParserStates == {"parse", "waitMid", "sendMid", "waitEnd", "sendEnd", "waitEmpty", "exit"}
CallerStates == {"idle", "request", "receive"}
CloseStates  == {"open", "detached", "cancelled", "closed"}

done == closing \in {"cancelled", "closed"}

TypeOK ==
  /\ total \in Nat /\ cur \in Nat /\ sent \in Nat
  /\ parser \in ParserStates
  /\ control \in BOOLEAN
  /\ rowsChan \subseteq Batch
  /\ closing \in CloseStates
  /\ caller \in [Callers -> CallerStates]
  /\ hasMore \in BOOLEAN
  /\ got \in Seq(Batch)

\* jj has printed at least a byte, but not necessarily a row: an output of
\* elided markers only has none.
Init ==
  /\ total \in 0 .. MaxRows
  /\ cur = 0 /\ sent = 0 /\ parser = "parse"
  /\ control = FALSE /\ rowsChan = {}
  /\ closing = "open"
  /\ caller = [c \in Callers |-> "idle"]
  /\ hasMore = TRUE /\ got = <<>>

-----------------------------------------------------------------------------
(* The parser goroutine.                                                   *)

\* rows holds more than batchSize rows when the next row begins.
BatchIsFull == cur - 1 - sent > BatchSize

\* The first line of the next row: with a full batch the parser turns to the
\* control channel first, otherwise the finished row joins rows.  After Close
\* the reader may still hold buffered output.
ReadRow ==
  /\ parser = "parse" /\ cur < total
  /\ IF BatchIsFull
       THEN parser' = "waitMid" /\ UNCHANGED cur
       ELSE cur' = cur + 1 /\ UNCHANGED parser
  /\ UNCHANGED <<total, sent, control, rowsChan, consumerVars>>

\* jj has nothing more to say, or the cancelled context has killed it.
EndOfOutput ==
  /\ parser = "parse"
  /\ cur = total \/ done
  /\ parser' = IF cur > sent THEN "waitEnd" ELSE "waitEmpty"
  /\ UNCHANGED <<total, cur, sent, control, rowsChan, consumerVars>>

\* waitForControl takes a RequestMore.
TakeControl ==
  /\ control /\ control' = FALSE
  /\ \/ parser = "waitMid"   /\ parser' = "sendMid"
     \/ parser = "waitEnd"   /\ parser' = "sendEnd"
     \/ parser = "waitEmpty" /\ parser' = "exit"
  /\ UNCHANGED <<total, cur, sent, rowsChan, consumerVars>>

\* Mutant of ParserCancelled: the waits at the end of the output ignore the
\* context.
ParserCancelledMidway ==
  /\ parser = "waitMid" /\ done
  /\ parser' = "exit"
  /\ UNCHANGED <<total, cur, sent, control, rowsChan, consumerVars>>

\* waitForControl sees the cancelled context: the parser returns, and its
\* deferred close closes rowsChan.
ParserCancelled ==
  /\ parser \in {"waitMid", "waitEnd", "waitEmpty"} /\ done
  /\ parser' = "exit"
  /\ UNCHANGED <<total, cur, sent, control, rowsChan, consumerVars>>

\* Mutant of SendBatch: rows restarts without the finished row.
SendBatchDropsRow ==
  /\ parser = "sendMid" /\ rowsChan = {}
  /\ rowsChan' = {[lo |-> sent + 1, hi |-> cur - 1, more |-> TRUE]}
  /\ sent' = cur /\ cur' = cur + 1 /\ parser' = "parse"
  /\ UNCHANGED <<total, control, consumerVars>>

\* rowsChan <- RowBatch{rows, true} blocks while the channel is full and does
\* not look at the context; then rows restarts with the finished row.
SendBatch ==
  /\ parser = "sendMid" /\ rowsChan = {}
  /\ rowsChan' = {[lo |-> sent + 1, hi |-> cur - 1, more |-> TRUE]}
  /\ sent' = cur - 1 /\ cur' = cur + 1 /\ parser' = "parse"
  /\ UNCHANGED <<total, control, consumerVars>>

\* The rows left at the end of the output; the goroutine then returns.
SendLastBatch ==
  /\ parser = "sendEnd" /\ rowsChan = {}
  /\ rowsChan' = {[lo |-> sent + 1, hi |-> cur, more |-> FALSE]}
  /\ sent' = cur /\ parser' = "exit"
  /\ UNCHANGED <<total, cur, control, consumerVars>>

-----------------------------------------------------------------------------
(* RequestMore.                                                            *)

\* What RequestMore returns besides a received batch is RowBatch{}: no rows,
\* HasMore false.
ReturnEmpty(c) ==
  /\ caller' = [caller EXCEPT ![c] = "idle"]
  /\ hasMore' = FALSE
  /\ UNCHANGED <<parserVars, control, rowsChan, closing, got>>

\* The consumer asks only while it believes that there is more.  The channels
\* are read under the mutex; after Close they are nil.
CallRequestMore(c) ==
  /\ caller[c] = "idle" /\ hasMore
  /\ \/ /\ closing = "open"
        /\ caller' = [caller EXCEPT ![c] = "request"]
        /\ UNCHANGED <<parserVars, control, rowsChan, closing, hasMore, got>>
     \/ closing # "open" /\ ReturnEmpty(c)

SendControl(c) ==
  /\ caller[c] = "request" /\ ~control
  /\ control' = TRUE
  /\ caller' = [caller EXCEPT ![c] = "receive"]
  /\ UNCHANGED <<parserVars, rowsChan, closing, hasMore, got>>

ReceiveBatch(c) ==
  /\ caller[c] = "receive"
  /\ \E b \in rowsChan :
       /\ got' = Append(got, b)
       /\ hasMore' = b.more
       /\ rowsChan' = rowsChan \ {b}
  /\ caller' = [caller EXCEPT ![c] = "idle"]
  /\ UNCHANGED <<parserVars, control, closing>>

\* Mutant of ReceiveClosed: a select with a default case.
ReceiveNothing(c) ==
  /\ caller[c] = "receive" /\ rowsChan = {}
  /\ ReturnEmpty(c)

\* The goroutine has returned and closed the drained channel.
ReceiveClosed(c) ==
  /\ caller[c] = "receive" /\ rowsChan = {} /\ parser = "exit"
  /\ ReturnEmpty(c)

\* Mutant of RequestCancelled: only the second select looks at the context.
CancelledAfterSend(c) ==
  /\ caller[c] = "receive" /\ done
  /\ ReturnEmpty(c)

RequestCancelled(c) ==
  /\ caller[c] \in {"request", "receive"} /\ done
  /\ ReturnEmpty(c)

-----------------------------------------------------------------------------
(* Close, called by the event loop.  A second call finds nil fields.       *)

CloseStep(from, to) ==
  /\ closing = from /\ closing' = to
  /\ UNCHANGED <<parserVars, control, rowsChan, caller, hasMore, got>>

\* Under the mutex the fields are taken and set to nil.
CloseDetach == CloseStep("open", "detached")
CloseCancel == CloseStep("detached", "cancelled")
\* StreamingCommand.Close: close the pipe, kill jj and wait for it.
CloseCommand == CloseStep("cancelled", "closed")

-----------------------------------------------------------------------------
ParserNext ==
  \/ ReadRow \/ EndOfOutput \/ TakeControl \/ ParserCancelled
  \/ SendBatch \/ SendLastBatch

CallerStep(c) ==
  \/ SendControl(c) \/ ReceiveBatch(c) \/ ReceiveClosed(c) \/ RequestCancelled(c)

Next ==
  \/ ParserNext
  \/ \E c \in Callers : CallRequestMore(c) \/ CallerStep(c)
  \/ CloseDetach \/ CloseCancel \/ CloseCommand

Spec == Init /\ [][Next]_vars

\* Goroutines are scheduled, jj keeps writing or exits, and a Close that has
\* begun runs to its end.  Nothing makes the user ask for more or close.
Fairness ==
  /\ WF_vars(ParserNext)
  /\ \A c \in Callers : WF_vars(CallerStep(c))
  /\ WF_vars(CloseCancel) /\ WF_vars(CloseCommand)

FairSpec == Spec /\ Fairness

-----------------------------------------------------------------------------
(* Properties.                                                             *)

LastRow == IF got = <<>> THEN 0 ELSE got[Len(got)].hi

\* The consumer is not told that the log has ended while rows are missing:
\* HasMore is false only when every row jj printed has been handed over, or
\* the stream was closed (graph_streamer.go RequestMore, the empty RowBatch).
NoFalseEnd == ~hasMore => LastRow = total \/ closing # "open"

\* Batches reach the consumer in order, without gaps or repetition, full in
\* the middle and complete at the end: the streamer implements RowStream
\* (streaming_log_parser.go, the flush of rows and its reset).
Stream == INSTANCE RowStream WITH batches <- got, cancelled <- closing # "open"
ImplementsRowStream == Stream!Spec

\* A RequestMore never hangs: it returns whatever happens to the stream
\* (both selects of RequestMore have a way out).
RequestReturns == \A c \in Callers : caller[c] # "idle" ~> caller[c] = "idle"

\* Closing a stream ends its goroutine, so that a closed stream leaves nothing
\* behind.  The one exception is the send, which does not look at the context:
\* two requests that were cancelled on the way may leave a batch in the channel
\* and the parser blocked on the next one.
BlockedInSend == parser \in {"sendMid", "sendEnd"} /\ rowsChan # {}
ParserStops == closing = "closed" ~> (parser = "exit" \/ BlockedInSend)
=============================================================================
