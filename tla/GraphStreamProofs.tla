-------------------------- MODULE GraphStreamProofs --------------------------
(***************************************************************************)
(* Proofs about GraphStream for any number of concurrent RequestMore       *)
(* calls, any batch size and any length of the log: type correctness,      *)
(* NoFalseEnd, and that the streamer implements RowStream.                 *)
(***************************************************************************)
EXTENDS GraphStream, TLAPS

Closing == closing # "open"

\* The rows the parser keeps are an interval behind the one it assembles, and
\* each place in its code knows how long that interval is.
ParserInv ==
  /\ sent <= cur /\ cur <= total
  /\ parser = "parse" => cur <= sent + BatchSize + 2
  /\ parser \in {"waitMid", "sendMid"} => cur = sent + BatchSize + 2 /\ cur < total
  /\ parser \in {"waitEnd", "sendEnd"} => sent < cur /\ (cur = total \/ Closing)
  /\ parser = "waitEmpty" => sent = total \/ Closing
  /\ parser = "exit" => sent = total \/ Closing

\* What the channel holds is exactly what is missing between the consumer and
\* the parser.
ChannelInv ==
  /\ rowsChan = {} => LastRow = sent
  /\ \A b \in rowsChan :
       /\ rowsChan = {b}
       /\ b.lo = LastRow + 1 /\ b.hi = sent /\ LastRow < sent
       /\ b.more => sent = LastRow + BatchSize + 1
       /\ ~b.more => parser = "exit"

\* After the batch that announces the end there is no other.
EndInv ==
  got # <<>> /\ ~got[Len(got)].more => parser = "exit" /\ rowsChan = {}

IndInv == TypeOK /\ ParserInv /\ ChannelInv /\ EndInv /\ NoFalseEnd

-----------------------------------------------------------------------------
\* Appending a batch to the received ones makes it the last one.
LEMMA AppendLast ==
  ASSUME NEW s \in Seq(Batch), NEW b \in Batch
  PROVE  /\ Append(s, b) \in Seq(Batch)
         /\ Append(s, b) # <<>>
         /\ Append(s, b)[Len(Append(s, b))] = b
<1>1. Append(s, b) \in Seq(Batch) /\ Len(Append(s, b)) = Len(s) + 1
  OBVIOUS
<1>2. Append(s, b)[Len(s) + 1] = b
  OBVIOUS
<1> QED
  BY <1>1, <1>2

\* The last row received is a natural number.
LEMMA LastRowType == TypeOK => LastRow \in Nat
<1> SUFFICES ASSUME TypeOK, got # <<>> PROVE got[Len(got)].hi \in Nat
  BY DEF LastRow
<1>1. Len(got) \in 1 .. Len(got)
  BY DEF TypeOK
<1>2. got[Len(got)] \in Batch
  BY <1>1 DEF TypeOK
<1> QED
  BY <1>2 DEF Batch

\* Receiving a batch advances the last row to its end.
LEMMA LastRowStep ==
  ASSUME TypeOK, NEW c \in Callers, ReceiveBatch(c)
  PROVE  \E b \in rowsChan : /\ b \in Batch
                             /\ got' = Append(got, b) /\ got' \in Seq(Batch)
                             /\ got' # <<>> /\ got'[Len(got')] = b
                             /\ LastRow' = b.hi /\ hasMore' = b.more
                             /\ rowsChan' = rowsChan \ {b}
<1>1. PICK b \in rowsChan : got' = Append(got, b) /\ hasMore' = b.more /\ rowsChan' = rowsChan \ {b}
  BY DEF ReceiveBatch
<1>2. b \in Batch /\ got \in Seq(Batch)
  BY DEF TypeOK
<1>3. got' \in Seq(Batch) /\ got' # <<>> /\ got'[Len(got')] = b
  BY <1>1, <1>2, AppendLast
<1>4. LastRow' = b.hi
  BY <1>3 DEF LastRow
<1> QED
  BY <1>1, <1>2, <1>3, <1>4

\* Every step keeps the types: in particular the parser never assembles a
\* batch that ends before the first row.
LEMMA TypeStep == IndInv /\ [Next]_vars => TypeOK'
<1> SUFFICES ASSUME IndInv, [Next]_vars PROVE TypeOK'
  OBVIOUS
<1> USE BatchSizeAssumption
<1>0. TypeOK
  BY DEF IndInv
<1>1. CASE ReadRow
  BY <1>0, <1>1 DEF ReadRow, TypeOK, consumerVars, ParserStates
<1>2. CASE EndOfOutput
  BY <1>0, <1>2 DEF EndOfOutput, TypeOK, consumerVars, ParserStates
<1>3. CASE TakeControl
  BY <1>0, <1>3 DEF TakeControl, TypeOK, consumerVars, ParserStates
<1>4. CASE ParserCancelled
  BY <1>0, <1>4 DEF ParserCancelled, TypeOK, consumerVars, ParserStates
<1>5. CASE SendBatch
  <2>1. cur = sent + BatchSize + 2
    BY <1>5 DEF SendBatch, IndInv, ParserInv
  <2>2. cur - 1 \in Nat /\ cur + 1 \in Nat /\ sent + 1 \in Nat
    BY <1>0, <2>1 DEF TypeOK
  <2>3. [lo |-> sent + 1, hi |-> cur - 1, more |-> TRUE] \in Batch
    BY <2>2 DEF Batch
  <2> QED
    BY <1>0, <1>5, <2>2, <2>3 DEF SendBatch, TypeOK, consumerVars, ParserStates
<1>6. CASE SendLastBatch
  <2>1. [lo |-> sent + 1, hi |-> cur, more |-> FALSE] \in Batch
    BY <1>0 DEF TypeOK, Batch
  <2> QED
    BY <1>0, <1>6, <2>1 DEF SendLastBatch, TypeOK, consumerVars, ParserStates
<1>7. ASSUME NEW c \in Callers, CallRequestMore(c) PROVE TypeOK'
  BY <1>0, <1>7 DEF CallRequestMore, ReturnEmpty, TypeOK, parserVars, CallerStates
<1>8. ASSUME NEW c \in Callers, SendControl(c) PROVE TypeOK'
  BY <1>0, <1>8 DEF SendControl, TypeOK, parserVars, CallerStates
<1>9. ASSUME NEW c \in Callers, ReceiveBatch(c) PROVE TypeOK'
  <2>1. PICK b \in rowsChan : /\ b \in Batch /\ got' \in Seq(Batch)
                              /\ hasMore' = b.more /\ rowsChan' = rowsChan \ {b}
    BY <1>0, <1>9, LastRowStep
  <2>2. b.more \in BOOLEAN /\ rowsChan' \subseteq Batch
    BY <1>0, <2>1 DEF TypeOK, Batch
  <2> QED
    BY <1>0, <1>9, <2>1, <2>2 DEF ReceiveBatch, TypeOK, parserVars, CallerStates
<1>10. ASSUME NEW c \in Callers, ReceiveClosed(c) \/ RequestCancelled(c) PROVE TypeOK'
  BY <1>0, <1>10 DEF ReceiveClosed, RequestCancelled, ReturnEmpty, TypeOK, parserVars, CallerStates
<1>11. CASE CloseDetach \/ CloseCancel \/ CloseCommand
  BY <1>0, <1>11 DEF CloseDetach, CloseCancel, CloseCommand, CloseStep, TypeOK, parserVars, CloseStates
<1>12. CASE UNCHANGED vars
  BY <1>0, <1>12 DEF vars, parserVars, consumerVars, TypeOK
<1> QED
  BY <1>1, <1>2, <1>3, <1>4, <1>5, <1>6, <1>7, <1>8, <1>9, <1>10, <1>11, <1>12
     DEF Next, ParserNext, CallerStep

\* The steps of the parser and of the callers keep the interval invariant.
LEMMA ParserStep == IndInv /\ [Next]_vars => ParserInv'
<1> SUFFICES ASSUME IndInv, [Next]_vars PROVE ParserInv'
  OBVIOUS
<1> USE BatchSizeAssumption
<1>0. TypeOK /\ ParserInv
  BY DEF IndInv
<1> USE DEF ParserInv, TypeOK, Closing
<1>1. CASE ReadRow
  BY <1>0, <1>1 DEF ReadRow, BatchIsFull, consumerVars
<1>2. CASE EndOfOutput
  BY <1>0, <1>2 DEF EndOfOutput, consumerVars, done
<1>3. CASE TakeControl
  BY <1>0, <1>3 DEF TakeControl, consumerVars
<1>4. CASE ParserCancelled
  BY <1>0, <1>4 DEF ParserCancelled, consumerVars, done
<1>5. CASE SendBatch
  BY <1>0, <1>5 DEF SendBatch, consumerVars
<1>6. CASE SendLastBatch
  BY <1>0, <1>6 DEF SendLastBatch, consumerVars
<1>7. ASSUME NEW c \in Callers, CallRequestMore(c) PROVE ParserInv'
  BY <1>0, <1>7 DEF CallRequestMore, ReturnEmpty, parserVars
<1>8. ASSUME NEW c \in Callers, CallerStep(c) PROVE ParserInv'
  BY <1>0, <1>8 DEF CallerStep, SendControl, ReceiveBatch, ReceiveClosed, RequestCancelled,
                    ReturnEmpty, parserVars
<1>9. CASE CloseDetach \/ CloseCancel \/ CloseCommand
  BY <1>0, <1>9 DEF CloseDetach, CloseCancel, CloseCommand, CloseStep, parserVars
<1>10. CASE UNCHANGED vars
  BY <1>0, <1>10 DEF vars, parserVars, consumerVars
<1> QED
  BY <1>1, <1>2, <1>3, <1>4, <1>5, <1>6, <1>7, <1>8, <1>9, <1>10 DEF Next, ParserNext

\* Only the two sends and the receive touch the channel; the batch a caller
\* receives is the one that continues the received rows.
LEMMA ChannelStep == IndInv /\ [Next]_vars => (ChannelInv /\ EndInv /\ NoFalseEnd)'
<1> SUFFICES ASSUME IndInv, [Next]_vars PROVE (ChannelInv /\ EndInv /\ NoFalseEnd)'
  OBVIOUS
<1> USE BatchSizeAssumption
<1>0. TypeOK /\ ParserInv /\ ChannelInv /\ EndInv /\ NoFalseEnd
  BY DEF IndInv
<1>00. LastRow \in Nat
  BY <1>0, LastRowType
<1>1. CASE ReadRow \/ EndOfOutput \/ TakeControl \/ ParserCancelled
  <2>1. UNCHANGED <<total, sent, rowsChan, closing, hasMore, got>> /\ parser # "exit"
    BY <1>1 DEF ReadRow, EndOfOutput, TakeControl, ParserCancelled, consumerVars
  <2>2. LastRow' = LastRow
    BY <2>1 DEF LastRow
  <2> QED
    BY <1>0, <2>1, <2>2 DEF ChannelInv, EndInv, NoFalseEnd
<1>2. CASE SendBatch
  <2>1. UNCHANGED <<total, closing, hasMore, got>> /\ rowsChan = {} /\ parser = "sendMid"
    BY <1>2 DEF SendBatch, consumerVars
  <2>2. LastRow' = LastRow /\ LastRow = sent /\ cur = sent + BatchSize + 2
    BY <1>0, <2>1 DEF LastRow, ChannelInv, ParserInv
  <2>3. ChannelInv'
    <3>1. /\ rowsChan' = {[lo |-> sent + 1, hi |-> cur - 1, more |-> TRUE]}
          /\ sent' = cur - 1 /\ cur \in Nat /\ sent \in Nat
      BY <1>0, <1>2 DEF SendBatch, TypeOK
    <3>2. ASSUME NEW b \in rowsChan'
          PROVE  /\ rowsChan' = {b} /\ b.lo = LastRow + 1 /\ b.hi = sent' /\ b.more
                 /\ sent' = LastRow + BatchSize + 1 /\ LastRow < sent'
      <4>1. rowsChan' = {b} /\ b = [lo |-> sent + 1, hi |-> cur - 1, more |-> TRUE]
        BY <3>1, <3>2
      <4>2. b.lo = sent + 1 /\ b.hi = cur - 1 /\ b.more = TRUE
        BY <4>1
      <4> QED
        BY <1>00, <2>2, <3>1, <4>1, <4>2
    <3>3. rowsChan' # {}
      BY <3>1
    <3> QED
      BY <2>2, <3>2, <3>3 DEF ChannelInv
  <2>4. EndInv'
    BY <1>0, <2>1 DEF EndInv
  <2> QED
    BY <1>0, <2>1, <2>2, <2>3, <2>4 DEF NoFalseEnd
<1>3. CASE SendLastBatch
  <2>1. UNCHANGED <<total, closing, hasMore, got>> /\ rowsChan = {} /\ parser = "sendEnd"
    BY <1>3 DEF SendLastBatch, consumerVars
  <2>2. LastRow' = LastRow /\ LastRow = sent /\ sent < cur
    BY <1>0, <2>1 DEF LastRow, ChannelInv, ParserInv
  <2>3. ChannelInv'
    <3>1. /\ rowsChan' = {[lo |-> sent + 1, hi |-> cur, more |-> FALSE]}
          /\ sent' = cur /\ cur \in Nat /\ sent \in Nat /\ parser' = "exit"
      BY <1>0, <1>3 DEF SendLastBatch, TypeOK
    <3>2. ASSUME NEW b \in rowsChan'
          PROVE  /\ rowsChan' = {b} /\ b.lo = LastRow + 1 /\ b.hi = sent' /\ ~b.more
                 /\ LastRow < sent'
      <4>1. rowsChan' = {b} /\ b = [lo |-> sent + 1, hi |-> cur, more |-> FALSE]
        BY <3>1, <3>2
      <4>2. b.lo = sent + 1 /\ b.hi = cur /\ b.more = FALSE
        BY <4>1
      <4> QED
        BY <1>00, <2>2, <3>1, <4>1, <4>2
    <3>3. rowsChan' # {}
      BY <3>1
    <3> QED
      BY <2>2, <3>1, <3>2, <3>3 DEF ChannelInv
  <2>4. EndInv'
    BY <1>0, <2>1 DEF EndInv
  <2> QED
    BY <1>0, <2>1, <2>2, <2>3, <2>4 DEF NoFalseEnd
<1>4. ASSUME NEW c \in Callers, ReceiveBatch(c) PROVE (ChannelInv /\ EndInv /\ NoFalseEnd)'
  <2>1. PICK b \in rowsChan : /\ b \in Batch /\ got' # <<>> /\ got'[Len(got')] = b
                              /\ LastRow' = b.hi /\ hasMore' = b.more
                              /\ rowsChan' = rowsChan \ {b}
    BY <1>0, <1>4, LastRowStep
  <2>2. UNCHANGED <<total, sent, parser, closing>>
    BY <1>4 DEF ReceiveBatch, parserVars
  <2>3. rowsChan' = {} /\ LastRow' = sent /\ (~b.more => parser = "exit")
    BY <1>0, <2>1 DEF ChannelInv
  <2>4. ~b.more => sent = total \/ Closing
    BY <1>0, <2>3 DEF ParserInv
  <2>5. ChannelInv'
    BY <2>2, <2>3 DEF ChannelInv
  <2>6. EndInv'
    BY <2>1, <2>2, <2>3 DEF EndInv
  <2> QED
    BY <2>1, <2>2, <2>3, <2>4, <2>5, <2>6 DEF NoFalseEnd, Closing
<1>5. ASSUME NEW c \in Callers, ReceiveClosed(c) \/ RequestCancelled(c) \/ CallRequestMore(c)
      PROVE  (ChannelInv /\ EndInv /\ NoFalseEnd)'
  <2>1. UNCHANGED <<total, sent, parser, rowsChan, closing, got>>
    BY <1>5 DEF ReceiveClosed, RequestCancelled, CallRequestMore, ReturnEmpty, parserVars
  <2>2. hasMore' = hasMore \/ LastRow = total \/ Closing
    BY <1>0, <1>5 DEF ReceiveClosed, RequestCancelled, CallRequestMore, ReturnEmpty, Closing, done,
                      ChannelInv, ParserInv
  <2>3. LastRow' = LastRow
    BY <2>1 DEF LastRow
  <2> QED
    BY <1>0, <2>1, <2>2, <2>3 DEF ChannelInv, EndInv, NoFalseEnd, Closing
<1>6. ASSUME NEW c \in Callers, SendControl(c) PROVE (ChannelInv /\ EndInv /\ NoFalseEnd)'
  <2>1. UNCHANGED <<total, sent, parser, rowsChan, closing, hasMore, got>>
    BY <1>6 DEF SendControl, parserVars
  <2>2. LastRow' = LastRow
    BY <2>1 DEF LastRow
  <2> QED
    BY <1>0, <2>1, <2>2 DEF ChannelInv, EndInv, NoFalseEnd
<1>7. CASE CloseDetach \/ CloseCancel \/ CloseCommand
  <2>1. UNCHANGED <<total, sent, parser, rowsChan, hasMore, got>> /\ closing' # "open"
    BY <1>7 DEF CloseDetach, CloseCancel, CloseCommand, CloseStep, parserVars
  <2>2. LastRow' = LastRow
    BY <2>1 DEF LastRow
  <2> QED
    BY <1>0, <2>1, <2>2 DEF ChannelInv, EndInv, NoFalseEnd
<1>8. CASE UNCHANGED vars
  BY <1>0, <1>8 DEF vars, parserVars, consumerVars, LastRow, ChannelInv, EndInv, NoFalseEnd
<1> QED
  BY <1>1, <1>2, <1>3, <1>4, <1>5, <1>6, <1>7, <1>8 DEF Next, ParserNext, CallerStep

\* The empty stream satisfies the invariant.
LEMMA InitInv == Init => IndInv
<1> SUFFICES ASSUME Init PROVE IndInv
  OBVIOUS
<1> USE BatchSizeAssumption, MaxRowsAssumption
<1>1. TypeOK
  <2>1. got \in Seq(Batch) /\ total \in Nat
    BY DEF Init
  <2> QED
    BY <2>1 DEF Init, TypeOK, ParserStates, CallerStates, CloseStates
<1>2. LastRow = 0
  BY DEF Init, LastRow
<1>3. ParserInv
  BY <1>1 DEF Init, ParserInv, TypeOK
<1>4. ChannelInv /\ EndInv /\ NoFalseEnd
  BY <1>2 DEF Init, ChannelInv, EndInv, NoFalseEnd
<1> QED
  BY <1>1, <1>3, <1>4 DEF IndInv

\* The inductive invariant holds in every reachable state.
THEOREM Invariance == Spec => []IndInv
<1>1. IndInv /\ [Next]_vars => IndInv'
  BY TypeStep, ParserStep, ChannelStep DEF IndInv
<1> QED
  BY InitInv, <1>1, PTL DEF Spec

\* Every variable keeps its type: rows, channel contents and batches are well
\* formed for any number of callers.
THEOREM TypeCorrect == Spec => []TypeOK
<1>1. IndInv => TypeOK
  BY DEF IndInv
<1> QED
  BY Invariance, <1>1, PTL

\* The consumer is never told that the log has ended while rows are missing.
THEOREM NoFalseEndCorrect == Spec => []NoFalseEnd
<1>1. IndInv => NoFalseEnd
  BY DEF IndInv
<1> QED
  BY Invariance, <1>1, PTL

\* GraphStreamer implements RowStream: a received batch is a Deliver, the
\* first step of Close is a Cancel, and everything else is invisible.
THEOREM Refinement == Spec => ImplementsRowStream
<1>1. Init => Stream!Init
  BY MaxRowsAssumption DEF Init, Stream!Init
<1>2. IndInv /\ [Next]_vars => [Stream!Next]_Stream!vars
  <2> SUFFICES ASSUME IndInv, [Next]_vars PROVE [Stream!Next]_Stream!vars
    OBVIOUS
  <2> USE DEF Stream!vars
  <2>0. TypeOK /\ ParserInv /\ ChannelInv /\ EndInv /\ LastRow \in Nat
    BY LastRowType DEF IndInv
  <2>1. CASE ParserNext
    BY <2>1 DEF ParserNext, ReadRow, EndOfOutput, TakeControl, ParserCancelled, SendBatch,
                SendLastBatch, consumerVars
  <2>2. ASSUME NEW c \in Callers, ReceiveBatch(c) PROVE Stream!Deliver
    <3>1. PICK b \in rowsChan : b \in Batch /\ got' = Append(got, b)
      BY <2>0, <2>2, LastRowStep
    <3>2. /\ b.lo = LastRow + 1 /\ b.hi = sent /\ LastRow < sent
          /\ b.more => sent = LastRow + BatchSize + 1
          /\ ~b.more => sent = total \/ closing # "open"
      BY <2>0 DEF ChannelInv, ParserInv, Closing
    <3>3. b = [lo |-> LastRow + 1, hi |-> sent, more |-> b.more] /\ b.more \in BOOLEAN
      BY <3>1, <3>2 DEF Batch
    <3>4. sent \in LastRow .. total
      BY <2>0, <3>2 DEF ParserInv, TypeOK
    <3>5. LastRow = Stream!LastRow
      BY DEF LastRow, Stream!LastRow
    <3>6. ~Stream!Ended
      BY <2>0 DEF EndInv, Stream!Ended
    <3>7. UNCHANGED <<total, closing>>
      BY <2>2 DEF ReceiveBatch, parserVars
    <3> QED
      BY <3>1, <3>2, <3>3, <3>4, <3>5, <3>6, <3>7 DEF Stream!Deliver
  <2>3. ASSUME NEW c \in Callers,
               CallRequestMore(c) \/ SendControl(c) \/ ReceiveClosed(c) \/ RequestCancelled(c)
        PROVE  UNCHANGED Stream!vars
    BY <2>3 DEF CallRequestMore, SendControl, ReceiveClosed, RequestCancelled, ReturnEmpty, parserVars
  <2>4. CASE CloseDetach
    BY <2>4 DEF CloseDetach, CloseStep, parserVars, Stream!Next, Stream!Cancel
  <2>5. CASE CloseCancel \/ CloseCommand
    BY <2>5 DEF CloseCancel, CloseCommand, CloseStep, parserVars
  <2>6. CASE UNCHANGED vars
    BY <2>6 DEF vars, parserVars, consumerVars
  <2> QED
    BY <2>1, <2>2, <2>3, <2>4, <2>5, <2>6 DEF Next, CallerStep, Stream!Next
<1> QED
  BY Invariance, <1>1, <1>2, PTL DEF Spec, ImplementsRowStream, Stream!Spec
=============================================================================
