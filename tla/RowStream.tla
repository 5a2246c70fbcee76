------------------------------ MODULE RowStream ------------------------------
(***************************************************************************)
(* What a consumer of the revision log is promised: the rows that jj       *)
(* prints arrive in batches, each batch continues where the last one       *)
(* stopped, and a batch that announces no successor is the last one.       *)
(* Rows are numbered from 1 in the order in which jj prints them, so a     *)
(* batch is an interval lo..hi of row numbers; hi = lo - 1 is the empty    *)
(* batch.  GraphStream is shown to implement this specification.           *)
(***************************************************************************)
EXTENDS Naturals, Sequences

CONSTANT BatchSize  \* log_batch_size

VARIABLES
  total,      \* number of rows that jj prints for this command
  batches,    \* the batches handed to the consumer, oldest first
  cancelled   \* the consumer has closed the stream

vars == <<total, batches, cancelled>>

Batch == [lo : Nat, hi : Nat, more : BOOLEAN]

\* The last row handed over so far.
LastRow == IF batches = <<>> THEN 0 ELSE batches[Len(batches)].hi

\* The consumer has been given the batch that announces the end.
Ended == batches # <<>> /\ ~batches[Len(batches)].more

Init ==
  /\ total \in Nat
  /\ batches = <<>>
  /\ cancelled = FALSE

(***************************************************************************)
(* A batch in the middle of the stream is full; the last batch reaches the *)
(* end of what jj printed unless the stream was cancelled meanwhile.       *)
(***************************************************************************)
Deliver ==
  /\ ~Ended
  /\ \E hi \in LastRow .. total, more \in BOOLEAN :
       /\ more  => hi = LastRow + BatchSize + 1
       /\ ~more => hi = total \/ cancelled
       /\ batches' = Append(batches, [lo |-> LastRow + 1, hi |-> hi, more |-> more])
  /\ UNCHANGED <<total, cancelled>>

Cancel == cancelled' = TRUE /\ UNCHANGED <<total, batches>>

Next == Deliver \/ Cancel

Spec == Init /\ [][Next]_vars
=============================================================================
