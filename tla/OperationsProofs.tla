--------------------------- MODULE OperationsProofs ---------------------------
(***************************************************************************)
(* That an operation of the revision list always has a target and a        *)
(* source, that its target is the row under the cursor once the            *)
(* notifications have come, and what alone parts the choice of an abandon  *)
(* from its marks, for any repository, any number of operations and        *)
(* commands under way, and any order of messages.  The inductive invariant *)
(* says of every message under way what the operation may rely on when it  *)
(* comes.                                                                  *)
(***************************************************************************)
EXTENDS Operations, SequenceTheorems, FiniteSetTheorems, WellFoundedInduction, TLAPS

Selected == Commits \cup {NoCommit}
Op ==
  [kind : Kinds \cup {"normal"}, no : Nat, from : SUBSET Selected, to : Selected,
   mode : {"onto", "insert", "swapped"}, start : Selected,
   marks : SUBSET (Int \cup (Int \X BOOLEAN)), chosen : SUBSET Int, asked : Nat, missed : BOOLEAN]
Types ==
  {"close", "refresh", "ended", "picker", "ace", "target", "picker cancelled", "move cancelled",
   "selection changed", "selection answer", "targets", "set bookmark"}
Message == [type : Types, no : Nat, n : Int, at : Selected, set : SUBSET Int]
Layer == [type : {"picker", "ace"}, no : Nat, labels : Seq(Commits)]

\* What NothingMissing says of the operation o; what the marks of an abandon are.
Complete(o) ==
  /\ o.kind \in Kinds \ {"diff_range", "new_between"} => o.to # NoCommit /\ o.from # {}
  /\ o.mode = "insert" => o.start # NoCommit
Marked(o) == o.kind = "abandon" => o.marks \subseteq Int \X BOOLEAN
OpOk(o, st) == o \in Op /\ o.no <= st /\ Complete(o) /\ Marked(o)

\* A notification is of an earlier move or of the last one; an answer is for an
\* operation started by now, and the answer to the latest query of an abandon is what
\* its marks stand for; a bookmark is set on a commit.
Notice(m, s, last) == m.type = "selection changed" => m.n <= s /\ (m.n = s => m.at = last)
Reply(m, o, st) ==
  m.type = "selection answer" =>
    /\ m.no <= st
    /\ o.kind = "abandon" /\ m.no = o.no => m.n <= o.asked /\ (m.n = o.asked => m.set = Resolve(o.marks))
Good(o, s, last, st) ==
  {m \in Message : /\ Notice(m, s, last) /\ Reply(m, o, st)
                   /\ m.type = "set bookmark" => m.at # NoCommit}
BagOk(bag, G) == IsABag(bag) /\ DOMAIN bag \subseteq Seq(G) \ {<<>>}

ListPart ==
  /\ version \in 0 .. MaxVersion
  /\ rows \in Seq(Commits) /\ cursor \in Nat /\ (rows # <<>> => cursor \in DOMAIN rows)
  /\ checkedRevisions \subseteq Commits /\ reload \in Int
NoticePart == sent \in 0 .. MaxMoves /\ seen \in BOOLEAN /\ lastHighlighted = SelectedRevision
OpPart == started \in Nat /\ OpOk(baseOp, started) /\ layers \in Seq(Layer)
BagPart == BagOk(cmds, Good(baseOp, sent, lastHighlighted, started))

OperationsInv == ListPart /\ NoticePart /\ OpPart /\ BagPart /\ TargetFollowsCursor

-----------------------------------------------------------------------------
(* The commits of the repository, and bags of sequences.                     *)

\* What the constants of Operations give: changes are numbers, "no commit" is none of
\* the commits.
LEMMA CommitTypes ==
  /\ Changes \subseteq Nat /\ 0 \notin Changes /\ Cardinality(Changes) \in Nat
  /\ NoCommit \notin Commits
  /\ \A c \in Selected : c[1] \in Nat
  /\ MaxVersion \in Nat /\ MaxMoves \in Nat
<1>1. /\ Changes = 1 .. Cardinality(Changes) /\ IsFiniteSet(Changes)
      /\ MaxVersion \in Nat /\ MaxMoves \in Nat
  BY OperationsAssumption
<1>2. Cardinality(Changes) \in Nat
  BY <1>1, FS_CardinalityType
<1>3. Changes \subseteq Nat /\ 0 \notin Changes
  BY <1>1, <1>2
<1> QED BY <1>1, <1>2, <1>3 DEF Commits, Selected, NoCommit

\* SelectedRevision and SelectedRevisions give commits, and the marked set is empty
\* when there is no row.
LEMMA SelectedTyped ==
  ASSUME ListPart
  PROVE  /\ SelectedRevision \in Selected
         /\ SelectedRevisions \subseteq Commits
         /\ SelectedRevisions # {} => SelectedRevision \in Commits /\ cursor \in DOMAIN rows
<1>1. /\ rows \in Seq(Commits) /\ DOMAIN rows = 1 .. Len(rows) /\ \A i \in DOMAIN rows : rows[i] \in Commits
  BY DEF ListPart
<1>2. SelectedRevision \in Selected
  BY <1>1 DEF SelectedRevision, Selected
<1>3. Range(rows) \subseteq Commits /\ (Range(rows) # {} => rows # <<>>)
  BY <1>1 DEF Range
<1>4. SelectedRevisions \subseteq Commits
  BY <1>2, <1>3 DEF SelectedRevisions, Selected
<1>5. ASSUME SelectedRevisions # {} PROVE cursor \in DOMAIN rows
  BY <1>3, <1>5 DEF SelectedRevisions, SelectedRevision, ListPart
<1> QED BY <1>1, <1>2, <1>4, <1>5 DEF SelectedRevision

\* Sending good sequences leaves a bag of good sequences (tea.Batch).
LEMMA SendOk ==
  ASSUME NEW B, NEW G, BagOk(B, G), NEW S, S \subseteq Seq(G) \ {<<>>}
  PROVE  BagOk(Send(B, S), G)
<1> DEFINE T == SetToBag(S)
           P == Send(B, S)
<1>1. DOMAIN T = S /\ \A x \in S : T[x] = 1
  BY DEF SetToBag
<1>2. P = B (+) T
  BY DEF Send
<1>3. DOMAIN P = DOMAIN B \cup S
  BY <1>1, <1>2 DEF (+)
<1>4. ASSUME NEW t \in DOMAIN B \cup S
      PROVE  P[t] = (IF t \in DOMAIN B THEN B[t] ELSE 0) + (IF t \in S THEN T[t] ELSE 0)
  BY <1>1, <1>2, <1>4 DEF (+)
<1>5. P = [t \in DOMAIN B \cup S |-> P[t]]
  BY <1>1, <1>2, <1>3 DEF (+)
<1>6. ASSUME NEW t \in DOMAIN B PROVE B[t] \in Nat /\ B[t] > 0
  BY <1>6 DEF IsABag, BagOk
<1> HIDE DEF P, T
<1>7. ASSUME NEW t \in DOMAIN B \cup S PROVE P[t] \in Nat /\ P[t] > 0
  BY <1>1, <1>4, <1>6, <1>7
<1>8. IsABag(P)
  BY <1>3, <1>5, <1>7 DEF IsABag
<1> QED BY <1>3, <1>8 DEF P, BagOk

\* A bag of messages of one kind is one of any larger kind.
LEMMA GrowOk ==
  ASSUME NEW B, NEW G, NEW H, G \subseteq H, BagOk(B, G)
  PROVE  BagOk(B, H)
<1>1. Seq(G) \subseteq Seq(H)
  OBVIOUS
<1> QED BY <1>1 DEF BagOk

\* Taking the first message of a sequence leaves a bag of good sequences.
LEMMA RestOk ==
  ASSUME NEW G, BagOk(cmds, G), NEW s \in BagToSet(cmds)
  PROVE  Head(s) \in G /\ BagOk(Rest(s), G)
<1> DEFINE U == SetToBag({s})
           C == [t \in DOMAIN cmds |-> IF t \in DOMAIN U THEN cmds[t] - U[t] ELSE cmds[t]]
           D == {d \in DOMAIN C : C[d] > 0}
           R == cmds (-) U
<1>0. s \in DOMAIN cmds
  BY DEF BagToSet
<1>1. DOMAIN U = {s} /\ U[s] = 1
  BY DEF SetToBag
<1>2. R = [t \in D |-> C[t]]
  BY DEF (-)
<1>3. ASSUME NEW t \in DOMAIN cmds
      PROVE  /\ cmds[t] \in Nat /\ cmds[t] > 0
             /\ C[t] = IF t = s THEN cmds[t] - 1 ELSE cmds[t]
  BY <1>1, <1>3 DEF IsABag, BagOk
<1>4. D = {d \in DOMAIN cmds : C[d] > 0}
  OBVIOUS
<1> HIDE DEF C, D
<1>5. D \subseteq DOMAIN cmds /\ \A t \in D : C[t] \in Nat /\ C[t] > 0
  BY <1>3, <1>4
<1>6. IsABag(R) /\ DOMAIN R \subseteq DOMAIN cmds
  BY <1>2, <1>5 DEF IsABag
<1>7. BagOk(R, G)
  BY <1>6 DEF BagOk
<1>8. s \in Seq(G) /\ s # <<>>
  BY <1>0 DEF BagOk
<1>9. Head(s) \in G /\ Tail(s) \in Seq(G) /\ (Len(s) # 1 => Tail(s) # <<>>)
  <2>1. Head(s) \in G /\ Tail(s) \in Seq(G) /\ Len(Tail(s)) = Len(s) - 1
    BY <1>8, HeadTailProperties, Zenon
  <2>2. Len(s) \in Nat
    BY <1>8
  <2>3. ASSUME Len(s) # 1, Tail(s) = <<>> PROVE FALSE
    <3>1. Len(Tail(s)) = 0
      BY <2>3, EmptySeq, Zenon
    <3> QED BY <2>1, <2>2, <2>3, <3>1
  <2> QED BY <2>1, <2>3
<1> HIDE DEF R, U
<1>10. Rest(s) = IF Len(s) = 1 THEN R ELSE Send(R, {Tail(s)})
  BY DEF Rest, R, U
<1>11. CASE Len(s) = 1
  BY <1>7, <1>9, <1>10, <1>11
<1>12. CASE Len(s) # 1
  <2>1. {Tail(s)} \subseteq Seq(G) \ {<<>>}
    BY <1>9, <1>12
  <2>2. BagOk(Send(R, {Tail(s)}), G)
    BY <1>7, <2>1, SendOk
  <2> QED BY <1>9, <1>10, <1>12, <2>2
<1> QED BY <1>11, <1>12

-----------------------------------------------------------------------------
(* Messages that any operation may send.                                     *)

\* A set of numbers that is not empty has a least one.
LEMMA LeastOf ==
  ASSUME NEW T, T \subseteq Nat, T # {}
  PROVE  \E x \in T : \A y \in T : x <= y
<1> DEFINE R == {ss \in Nat \X Nat : ss[1] < ss[2]}
<1>1. IsWellFoundedOn(R, Nat)
  BY NatLessThanWellFounded DEF OpToRel
<1>2. PICK x \in T : \A y \in T : ~ (<<y, x>> \in R)
  BY <1>1, WFMin
<1>3. ASSUME NEW y \in T PROVE x <= y
  <2>1. x \in Nat /\ y \in Nat
    OBVIOUS
  <2>2. y < x => <<y, x>> \in R
    BY <2>1
  <2> HIDE DEF R
  <2>3. ~(y < x)
    BY <1>2, <2>2
  <2> QED BY <2>1, <2>3
<1> QED BY <1>3

\* The change that a refresh selects after a command is a number.
LEMMA LastTyped ==
  ASSUME NEW S, S \subseteq Selected
  PROVE  LastOf(S) \in Int
<1>1. CASE S = {}
  BY <1>1 DEF LastOf
<1>2. CASE S # {}
  <2>1. PICK k \in {c[1] : c \in S} : \A l \in {c[1] : c \in S} : k <= l
    <3> DEFINE T == {c[1] : c \in S}
    <3>1. T \subseteq Nat /\ T # {}
      BY <1>2, CommitTypes
    <3> HIDE DEF T
    <3> QED BY <3>1, LeastOf DEF T
  <2>2. \E c \in S : \A d \in S : c[1] <= d[1]
    BY <2>1
  <2>3. LastOf(S) \in {c[1] : c \in S}
    BY <1>2, <2>2 DEF LastOf
  <2> QED BY <2>3, CommitTypes
<1> QED BY <1>1, <1>2

\* Messages that no part of the invariant is about.
Plain == {m \in Message : m.type \notin {"selection changed", "selection answer", "set bookmark"}}

\* The messages the operations close, refresh and report with are plain.
LEMMA PlainMessages ==
  ASSUME NEW o \in Op
  PROVE  /\ Close(o) \in Plain /\ Ended(o) \in Plain /\ OpenPicker(o) \in Plain
         /\ \A change \in Int : Refresh(change) \in Plain
         /\ \A type \in {"close", "ace", "picker cancelled", "move cancelled"} : Msg(type) \in Plain
         /\ Refresh(LastOf(o.from)) \in Plain /\ Refresh(o.to[1]) \in Plain /\ Refresh(NoChange) \in Plain
         /\ Refresh(Keep) \in Plain
         /\ \A no \in Nat : [Msg("target") EXCEPT !.no = no] \in Plain
<1>1. o.no \in Nat /\ o.from \subseteq Selected /\ o.to \in Selected
  BY DEF Op
<1>2. LastOf(o.from) \in Int /\ o.to[1] \in Int
  BY <1>1, LastTyped, CommitTypes
<1>3. NoCommit \in Selected /\ 0 \in Int /\ 0 \in Nat /\ {} \in SUBSET Int
  BY DEF Selected
<1>4. Close(o) \in Plain /\ Ended(o) \in Plain /\ OpenPicker(o) \in Plain
  BY <1>1, <1>3 DEF Close, Ended, OpenPicker, Msg, Plain, Message, Types
<1>5. ASSUME NEW change \in Int PROVE Refresh(change) \in Plain
  BY <1>3 DEF Refresh, Msg, Plain, Message, Types
<1>6. ASSUME NEW type \in {"close", "ace", "picker cancelled", "move cancelled"} PROVE Msg(type) \in Plain
  BY <1>3 DEF Msg, Plain, Message, Types
<1>7. ASSUME NEW no \in Nat PROVE [Msg("target") EXCEPT !.no = no] \in Plain
  BY <1>3 DEF Msg, Plain, Message, Types
<1>8. NoChange \in Int /\ Keep \in Int
  BY DEF NoChange, Keep
<1> QED BY <1>2, <1>4, <1>5, <1>6, <1>7, <1>8, Zenon

\* A plain message is good whatever the operation and the cursor are.
LEMMA PlainIsGood ==
  ASSUME NEW o, NEW s, NEW last, NEW st
  PROVE  Plain \subseteq Good(o, s, last, st)
BY DEF Plain, Good, Notice, Reply

\* Short sequences of plain messages.
LEMMA PlainSequences ==
  ASSUME NEW a \in Plain, NEW b \in Plain, NEW c \in Plain
  PROVE  /\ <<a>> \in Seq(Plain) \ {<<>>} /\ <<a, b>> \in Seq(Plain) \ {<<>>}
         /\ <<a, b, c>> \in Seq(Plain) \ {<<>>}
         /\ <<a>> \o <<b>> \in Seq(Plain) \ {<<>>} /\ <<a>> \o <<b, c>> \in Seq(Plain) \ {<<>>}
<1>1. /\ <<a>> \in Seq(Plain) /\ <<b>> \in Seq(Plain) /\ <<a, b>> \in Seq(Plain)
      /\ <<b, c>> \in Seq(Plain) /\ <<a, b, c>> \in Seq(Plain)
  OBVIOUS
<1>2. <<a>> # <<>> /\ <<a, b>> # <<>> /\ <<a, b, c>> # <<>>
  OBVIOUS
<1>3. ASSUME NEW t \in Seq(Plain) PROVE <<a>> \o t \in Seq(Plain) /\ <<a>> \o t # <<>>
  BY <1>1, <1>3
<1> QED BY <1>1, <1>2, <1>3

-----------------------------------------------------------------------------
(* The intents of an operation.                                              *)

\* An outcome keeps the operation what it is, the messages under way good, and sends
\* good ones.
OutcomeOk(o, out, st) ==
  /\ OpOk(out.op, st) /\ out.op.kind = o.kind /\ out.op.to = o.to
  /\ \A s, last : /\ Good(o, s, last, st) \subseteq Good(out.op, s, last, st)
                  /\ out.send \subseteq Seq(Good(out.op, s, last, st)) \ {<<>>}

\* Sequences of plain messages are good whatever the operation and the cursor are.
LEMMA PlainSends ==
  ASSUME NEW S, S \subseteq Seq(Plain) \ {<<>>}
  PROVE  \A o, s, last, st : S \subseteq Seq(Good(o, s, last, st)) \ {<<>>}
<1>1. ASSUME NEW G, Plain \subseteq G PROVE S \subseteq Seq(G) \ {<<>>}
  BY <1>1
<1> QED BY <1>1, PlainIsGood, Zenon

\* An outcome that leaves what messages are about.
LEMMA QuietOutcome ==
  ASSUME NEW o, NEW st, OpOk(o, st), NEW p, OpOk(p, st),
         p.kind = o.kind, p.to = o.to,
         \/ p.no = o.no /\ p.asked = o.asked /\ p.marks = o.marks
         \/ o.kind # "abandon",
         NEW S, S \subseteq Seq(Plain) \ {<<>>}
  PROVE  OutcomeOk(o, Outcome(p, S), st)
<1>1. ASSUME NEW s, NEW last PROVE Good(o, s, last, st) \subseteq Good(p, s, last, st)
  BY DEF Good, Reply
<1>2. ASSUME NEW s, NEW last PROVE S \subseteq Seq(Good(p, s, last, st)) \ {<<>>}
  BY PlainSends, Zenon
<1>3. Outcome(p, S).op = p /\ Outcome(p, S).send = S
  BY DEF Outcome
<1> QED BY <1>1, <1>2, <1>3 DEF OutcomeOk

\* A key that sends plain messages and leaves the operation alone is fine.
LEMMA SameOutcome ==
  ASSUME NEW o, NEW st, OpOk(o, st), NEW S, S \subseteq Seq(Plain) \ {<<>>}
  PROVE  OutcomeOk(o, Outcome(o, S), st)
BY QuietOutcome

\* The commands of every operation are sequences of plain messages.
LEMMA PlainCommands ==
  ASSUME NEW o \in Op
  PROVE  /\ {<<Msg("ace")>>} \subseteq Seq(Plain) \ {<<>>}
         /\ {<<Close(o)>>} \subseteq Seq(Plain) \ {<<>>}
         /\ {<<OpenPicker(o)>>} \subseteq Seq(Plain) \ {<<>>}
         /\ {<<Close(o), Ended(o)>>} \subseteq Seq(Plain) \ {<<>>}
         /\ {<<Close(o), Ended(o), Refresh(NoChange)>>} \subseteq Seq(Plain) \ {<<>>}
         /\ {<<Close(o), Msg("move cancelled")>>} \subseteq Seq(Plain) \ {<<>>}
         /\ RunCommand(o, <<Refresh(LastOf(o.from)), Close(o)>>) \subseteq Seq(Plain) \ {<<>>}
         /\ RunCommand(o, <<Refresh(NoChange), Close(o)>>) \subseteq Seq(Plain) \ {<<>>}
         /\ RunCommand(o, <<Close(o), Refresh(NoChange)>>) \subseteq Seq(Plain) \ {<<>>}
         /\ RunCommand(o, <<Refresh(o.to[1])>>) \subseteq Seq(Plain) \ {<<>>}
         /\ {} \subseteq Seq(Plain) \ {<<>>}
<1> DEFINE Q == Seq(Plain) \ {<<>>}
<1>1. /\ Msg("ace") \in Plain /\ Msg("move cancelled") \in Plain
      /\ Close(o) \in Plain /\ Ended(o) \in Plain /\ OpenPicker(o) \in Plain
      /\ Refresh(LastOf(o.from)) \in Plain /\ Refresh(NoChange) \in Plain /\ Refresh(o.to[1]) \in Plain
  BY PlainMessages
<1>2. \A a, b, c \in Plain : <<a>> \in Q /\ <<a, b>> \in Q /\ <<a, b, c>> \in Q
                             /\ <<a>> \o <<b>> \in Q /\ <<a>> \o <<b, c>> \in Q
  BY PlainSequences, Zenon
<1> HIDE DEF Q
<1>3. \A x \in Q : {x} \subseteq Q
  OBVIOUS
<1>4. /\ <<Msg("ace")>> \in Q /\ <<Close(o)>> \in Q /\ <<OpenPicker(o)>> \in Q /\ <<Close(o), Ended(o)>> \in Q
      /\ <<Close(o), Ended(o), Refresh(NoChange)>> \in Q /\ <<Close(o), Msg("move cancelled")>> \in Q
      /\ <<Ended(o)>> \o <<Refresh(LastOf(o.from)), Close(o)>> \in Q
      /\ <<Ended(o)>> \o <<Refresh(NoChange), Close(o)>> \in Q
      /\ <<Ended(o)>> \o <<Close(o), Refresh(NoChange)>> \in Q
      /\ <<Ended(o)>> \o <<Refresh(o.to[1])>> \in Q
  BY <1>1, <1>2, Zenon
<1> QED BY <1>3, <1>4, Zenon DEF Q, RunCommand

\* The intents that only send plain messages.
LEMMA CommonKeys ==
  ASSUME NEW o, NEW st, OpOk(o, st)
  PROVE  /\ OutcomeOk(o, AceJumpKey(o), st) /\ OutcomeOk(o, CancelKey(o), st) /\ OutcomeOk(o, PickerKey(o), st)
         /\ OutcomeOk(o, Outcome(o, {}), st)
         /\ OutcomeOk(o, Outcome(o, rebaseApply(o)), st) /\ OutcomeOk(o, Outcome(o, revertApply(o)), st)
         /\ OutcomeOk(o, Outcome(o, duplicateApply(o)), st) /\ OutcomeOk(o, Outcome(o, squashApply(o)), st)
         /\ OutcomeOk(o, Outcome(o, diffRangeApply(o)), st) /\ OutcomeOk(o, Outcome(o, newBetweenApply(o)), st)
         /\ OutcomeOk(o, Outcome(o, abandonApply(o)), st)
         /\ OutcomeOk(o, Outcome(o, {<<Close(o)>>}), st)
         /\ OutcomeOk(o, Outcome(o, {<<Close(o), Msg("move cancelled")>>}), st)
         /\ OutcomeOk(o, Outcome(o, RunCommand(o, <<Close(o), Refresh(NoChange)>>)), st)
         /\ OutcomeOk(o, Outcome(o, RunCommand(o, <<Refresh(LastOf(o.from)), Close(o)>>)), st)
<1>1. o \in Op
  BY DEF OpOk
<1> DEFINE Q == Seq(Plain) \ {<<>>}
<1>2. /\ rebaseApply(o) \subseteq Q /\ revertApply(o) \subseteq Q /\ duplicateApply(o) \subseteq Q
      /\ diffRangeApply(o) \subseteq Q
  BY <1>1, PlainCommands, Zenon DEF rebaseApply, revertApply, duplicateApply, diffRangeApply
<1>3. squashApply(o) \subseteq Q
  <2>1. {<<Close(o)>>} \subseteq Q /\ RunCommand(o, <<Refresh(o.to[1])>>) \subseteq Q
    BY <1>1, PlainCommands, Zenon
  <2> HIDE DEF Q
  <2> QED BY <2>1 DEF squashApply
<1>4. newBetweenApply(o) \subseteq Q /\ abandonApply(o) \subseteq Q
  BY <1>1, PlainCommands, Zenon DEF newBetweenApply, abandonApply
<1>5. \A S : S \subseteq Q => OutcomeOk(o, Outcome(o, S), st)
  BY SameOutcome, Zenon
<1>6. /\ {<<Msg("ace")>>} \subseteq Q /\ {<<Close(o)>>} \subseteq Q /\ {<<OpenPicker(o)>>} \subseteq Q
      /\ {} \subseteq Q /\ {<<Close(o), Msg("move cancelled")>>} \subseteq Q
      /\ RunCommand(o, <<Close(o), Refresh(NoChange)>>) \subseteq Q
      /\ RunCommand(o, <<Refresh(LastOf(o.from)), Close(o)>>) \subseteq Q
  BY <1>1, PlainCommands, Zenon
<1> HIDE DEF Q
<1> QED BY <1>2, <1>3, <1>4, <1>5, <1>6, Zenon DEF AceJumpKey, CancelKey, PickerKey

\* Insertions: rebase, revert and duplicate.
LEMMA InsertIntents ==
  ASSUME NEW o, NEW st, OpOk(o, st), o.kind \in InsertKinds, NEW out \in setTarget(o)
  PROVE  OutcomeOk(o, out, st)
<1> DEFINE p == [o EXCEPT !.mode = "insert", !.start = o.to]
           q == [o EXCEPT !.mode = "onto"]
<1>1. o \in Op /\ o.to \in Selected /\ o.kind \in Kinds \ {"diff_range", "new_between"} /\ o.kind # "abandon"
  BY DEF OpOk, Op, InsertKinds, Kinds, FollowKinds, PickerKinds
<1>2. o.to # NoCommit /\ o.from # {}
  BY <1>1 DEF OpOk, Complete
<1>3. /\ p \in Op /\ p.kind = o.kind /\ p.to = o.to /\ p.no = o.no /\ p.from = o.from
      /\ p.start = o.to /\ p.mode = "insert"
  BY <1>1 DEF Op
<1>4. q \in Op /\ q.kind = o.kind /\ q.to = o.to /\ q.no = o.no /\ q.from = o.from /\ q.mode = "onto"
  BY <1>1 DEF Op
<1> HIDE DEF p, q
<1>5. OpOk(p, st)
  BY <1>1, <1>2, <1>3 DEF OpOk, Complete, Marked
<1>6. OpOk(q, st)
  BY <1>1, <1>2, <1>4 DEF OpOk, Complete, Marked
<1>7. {} \subseteq Seq(Plain) \ {<<>>}
  OBVIOUS
<1>8. OutcomeOk(o, Outcome(p, {}), st) /\ OutcomeOk(o, Outcome(q, {}), st)
  BY <1>1, <1>3, <1>4, <1>5, <1>6, <1>7, QuietOutcome
<1> QED BY <1>8 DEF setTarget, p, q

\* A changed field that no message is about, of an operation other than abandon.
LEMMA FieldOutcome ==
  ASSUME NEW o, NEW st, OpOk(o, st), o.kind # "abandon", NEW p \in Op,
         p.kind = o.kind, p.to = o.to, p.no = o.no, p.from = o.from, p.start = o.start,
         p.mode = "insert" => o.mode = "insert"
  PROVE  OutcomeOk(o, Outcome(p, {}), st)
<1>1. OpOk(p, st)
  BY DEF OpOk, Complete, Marked
<1>2. {} \subseteq Seq(Plain) \ {<<>>}
  OBVIOUS
<1> QED BY <1>1, <1>2, QuietOutcome

\* The intents of diff_range leave the operation complete.
LEMMA DiffRangeIntents ==
  ASSUME NEW o, NEW st, OpOk(o, st), o.kind = "diff_range", NEW out \in diffRangeIntents(o)
  PROVE  OutcomeOk(o, out, st)
<1> DEFINE p == [o EXCEPT !.mode = IF @ = "swapped" THEN "onto" ELSE "swapped"]
<1>1. o \in Op /\ o.kind # "abandon"
  BY DEF OpOk
<1>2. /\ p \in Op /\ p.kind = o.kind /\ p.to = o.to /\ p.no = o.no /\ p.from = o.from /\ p.start = o.start
      /\ p.mode \in {"onto", "swapped"}
  BY <1>1 DEF Op
<1>3. out \in {CancelKey(o), PickerKey(o), Outcome(o, diffRangeApply(o)), Outcome(o, {}), Outcome(p, {})}
  BY DEF diffRangeIntents
<1> HIDE DEF p
<1>4. OutcomeOk(o, Outcome(p, {}), st)
  BY <1>1, <1>2, FieldOutcome
<1> QED BY <1>3, <1>4, CommonKeys

\* Toggling of a change, in the marks or in what is chosen.
LEMMA FlipTyped ==
  ASSUME NEW o \in Op
  PROVE  /\ Flip(o.marks, o.to[1]) \in SUBSET (Int \cup (Int \X BOOLEAN))
         /\ Flip(o.chosen, o.to[1]) \in SUBSET Int
<1>1. o.to[1] \in Int /\ o.marks \in SUBSET (Int \cup (Int \X BOOLEAN)) /\ o.chosen \in SUBSET Int
  BY CommitTypes DEF Op
<1> QED BY <1>1 DEF Flip

\* Flipping a mark, or what is chosen, leaves the operation complete.
LEMMA MarkIntents ==
  ASSUME NEW o, NEW st, OpOk(o, st), o.kind # "abandon"
  PROVE  /\ OutcomeOk(o, Outcome([o EXCEPT !.marks = Flip(@, o.to[1])], {}), st)
         /\ OutcomeOk(o, Outcome([o EXCEPT !.chosen = Flip(@, o.to[1])], {}), st)
<1> DEFINE p == [o EXCEPT !.marks = Flip(@, o.to[1])]
           q == [o EXCEPT !.chosen = Flip(@, o.to[1])]
<1>1. o \in Op
  BY DEF OpOk
<1>2. p = [o EXCEPT !.marks = Flip(o.marks, o.to[1])] /\ q = [o EXCEPT !.chosen = Flip(o.chosen, o.to[1])]
  OBVIOUS
<1>3. /\ p \in Op /\ p.kind = o.kind /\ p.to = o.to /\ p.no = o.no /\ p.from = o.from /\ p.start = o.start
      /\ p.mode = o.mode
  BY <1>1, <1>2, FlipTyped DEF Op
<1>4. /\ q \in Op /\ q.kind = o.kind /\ q.to = o.to /\ q.no = o.no /\ q.from = o.from /\ q.start = o.start
      /\ q.mode = o.mode
  BY <1>1, <1>2, FlipTyped DEF Op
<1> HIDE DEF p, q
<1>5. OutcomeOk(o, Outcome(p, {}), st) /\ OutcomeOk(o, Outcome(q, {}), st)
  BY <1>1, <1>3, <1>4, FieldOutcome
<1> QED BY <1>5 DEF p, q

\* Asking for the descendants of an absorb leaves it complete; its answer carries its
\* number.
LEMMA DescendantsIntent ==
  ASSUME NEW o, NEW st, OpOk(o, st), o.kind = "absorb"
  PROVE  OutcomeOk(o, selectDescendantsCmd(o), st)
<1> DEFINE p == [o EXCEPT !.asked = @ + 1]
           targets == {c \in Changes : o.to[1] <= c /\ c < LastOf(o.from)}
           m == [Msg("targets") EXCEPT !.no = o.no, !.n = o.asked + 1, !.set = targets]
<1>1. o \in Op /\ o.no \in Nat /\ o.asked \in Nat
  BY DEF OpOk, Op
<1>2. /\ p \in Op /\ p.kind = o.kind /\ p.to = o.to /\ p.no = o.no /\ p.from = o.from /\ p.start = o.start
      /\ p.mode = o.mode
  BY <1>1 DEF Op
<1>3. targets \in SUBSET Int /\ o.asked + 1 \in Int /\ NoCommit \in Selected
  <2>1. targets \subseteq Changes
    OBVIOUS
  <2> HIDE DEF targets
  <2>2. Changes \subseteq Int
    BY CommitTypes
  <2> QED BY <1>1, <2>1, <2>2 DEF Selected
<1> HIDE DEF targets
<1>4. m \in Plain
  BY <1>1, <1>3 DEF Plain, Message, Types, Msg
<1> HIDE DEF p, m
<1>5. {<<m>>} \subseteq Seq(Plain) \ {<<>>}
  BY <1>4, PlainSequences
<1>6. OpOk(p, st)
  BY <1>2 DEF OpOk, Complete, Marked
<1>7. OutcomeOk(o, Outcome(p, {<<m>>}), st)
  BY <1>2, <1>5, <1>6, QuietOutcome
<1> QED BY <1>7 DEF selectDescendantsCmd, p, m, targets

\* The intents of absorb leave the operation complete.
LEMMA AbsorbIntents ==
  ASSUME NEW o, NEW st, OpOk(o, st), o.kind = "absorb", NEW out \in absorbIntents(o)
  PROVE  OutcomeOk(o, out, st)
<1>1. out \in {AceJumpKey(o), CancelKey(o), Outcome(o, {}), Outcome([o EXCEPT !.chosen = Flip(@, o.to[1])], {}),
               Outcome(o, {<<Close(o)>>}), Outcome(o, RunCommand(o, <<Refresh(LastOf(o.from)), Close(o)>>)),
               selectDescendantsCmd(o)}
  BY DEF absorbIntents
<1>2. o.kind # "abandon"
  OBVIOUS
<1>3. OutcomeOk(o, selectDescendantsCmd(o), st)
  BY DescendantsIntent
<1>4. OutcomeOk(o, Outcome([o EXCEPT !.chosen = Flip(@, o.to[1])], {}), st)
  BY <1>2, MarkIntents
<1> QED BY <1>1, <1>3, <1>4, CommonKeys

\* What the marks of an abandon stand for.
LEMMA ResolveTyped ==
  ASSUME NEW marks \in SUBSET (Int \X BOOLEAN)
  PROVE  Resolve(marks) \in SUBSET Int
<1>1. ASSUME NEW m \in marks
      PROVE  (IF m[2] THEN {c \in Changes : c >= m[1]} ELSE {m[1]}) \subseteq Int
  <2>1. m[1] \in Int
    BY <1>1
  <2>2. {c \in Changes : c >= m[1]} \subseteq Int
    <3> DEFINE D == {c \in Changes : c >= m[1]}
    <3>1. D \subseteq Changes
      OBVIOUS
    <3> HIDE DEF D
    <3>2. Changes \subseteq Int
      BY CommitTypes
    <3>3. D \subseteq Int
      BY <3>1, <3>2
    <3> QED BY <3>3 DEF D
  <2> QED BY <2>1, <2>2
<1> QED BY <1>1 DEF Resolve

\* Toggling a mark of an abandon leaves a set of marks.
LEMMA ToggleTyped ==
  ASSUME NEW marks \in SUBSET (Int \X BOOLEAN), NEW change \in Int, NEW d \in BOOLEAN
  PROVE  toggle(marks, change, d) \in SUBSET (Int \X BOOLEAN)
BY DEF toggle

\* A toggle: a new query about the new marks, or nothing chosen without marks.
LEMMA ToggleIntent ==
  ASSUME NEW o, NEW st, OpOk(o, st), o.kind = "abandon", NEW d \in BOOLEAN
  PROVE  OutcomeOk(o, refreshSelectedRevisionsCmd([o EXCEPT !.marks = toggle(@, o.to[1], d)]), st)
<1> DEFINE marks == toggle(o.marks, o.to[1], d)
           q == [o EXCEPT !.marks = toggle(@, o.to[1], d)]
           p == [q EXCEPT !.asked = @ + 1, !.missed = FALSE]
           e == [q EXCEPT !.chosen = {}, !.asked = @ + 1, !.missed = FALSE]
           m == [Msg("selection answer") EXCEPT !.no = q.no, !.n = q.asked + 1, !.set = Resolve(q.marks)]
<1>1. /\ o \in Op /\ o.no \in Nat /\ o.no <= st /\ o.asked \in Nat
      /\ o.marks \in SUBSET (Int \X BOOLEAN) /\ o.to[1] \in Int
  BY CommitTypes DEF OpOk, Op, Marked
<1>2. marks \in SUBSET (Int \X BOOLEAN) /\ Resolve(marks) \in SUBSET Int
  BY <1>1, ToggleTyped, ResolveTyped
<1> HIDE DEF marks
<1>3. q = [o EXCEPT !.marks = marks]
  BY DEF marks
<1>4. /\ q \in Op /\ q.kind = "abandon" /\ q.to = o.to /\ q.no = o.no /\ q.from = o.from /\ q.start = o.start
      /\ q.mode = o.mode /\ q.marks = marks /\ q.asked = o.asked
  BY <1>1, <1>2, <1>3 DEF Op
<1>4a. o.asked + 1 \in Nat /\ o.asked + 1 \in Int /\ {} \in SUBSET Int
  BY <1>1
<1> HIDE DEF q
<1>5. /\ p \in Op /\ p.kind = "abandon" /\ p.to = o.to /\ p.no = o.no /\ p.from = o.from /\ p.start = o.start
      /\ p.mode = o.mode /\ p.marks = marks /\ p.asked = o.asked + 1
  BY <1>1, <1>4, <1>4a DEF Op
<1>6. /\ e \in Op /\ e.kind = "abandon" /\ e.to = o.to /\ e.no = o.no /\ e.from = o.from /\ e.start = o.start
      /\ e.mode = o.mode /\ e.marks = marks /\ e.asked = o.asked + 1
  BY <1>1, <1>4, <1>4a DEF Op
<1> HIDE DEF p, e
<1>7. OpOk(p, st)
  BY <1>1, <1>2, <1>5 DEF OpOk, Complete, Marked
<1>8. OpOk(e, st)
  BY <1>1, <1>2, <1>6 DEF OpOk, Complete, Marked
<1>9. ASSUME NEW r \in {p, e}, NEW s, NEW last PROVE Good(o, s, last, st) \subseteq Good(r, s, last, st)
  <2>1. r.kind = "abandon" /\ r.no = o.no /\ r.asked = o.asked + 1
    BY <1>5, <1>6, <1>9
  <2>2. ASSUME NEW x \in Message, Reply(x, o, st) PROVE Reply(x, r, st)
    <3>1. x.n \in Int
      BY DEF Message
    <3>2. ASSUME x.type = "selection answer", x.no = r.no PROVE x.n <= o.asked
      BY <2>1, <2>2, <3>2 DEF Reply
    <3>3. ASSUME x.type = "selection answer", x.no = r.no PROVE x.n <= r.asked /\ x.n # r.asked
      <4>1. o.asked \in Nat /\ r.asked = o.asked + 1 /\ x.n \in Int /\ x.n <= o.asked
        BY <1>1, <2>1, <3>1, <3>2, <3>3, Zenon
      <4> QED BY <4>1
    <3> QED BY <2>2, <3>3, Zenon DEF Reply
  <2> QED BY <2>2 DEF Good
<1>10. ASSUME NEW s, NEW last PROVE m \in Good(p, s, last, st)
  <2>1. o.asked + 1 \in Int /\ NoCommit \in Selected
    BY <1>1 DEF Selected
  <2>2. /\ m \in Message /\ m.type = "selection answer" /\ m.no = o.no /\ m.n = o.asked + 1
        /\ m.set = Resolve(marks)
    BY <1>1, <1>2, <1>4, <2>1 DEF Message, Types, Msg
  <2> HIDE DEF m
  <2>3. Reply(m, p, st)
    <3>1. m.n <= p.asked
      <4>1. o.asked \in Nat /\ p.asked = o.asked + 1 /\ m.n = o.asked + 1
        BY <1>1, <1>5, <2>2, Zenon
      <4> QED BY <4>1
    <3> QED BY <1>1, <1>5, <2>2, <3>1, Zenon DEF Reply
  <2> QED BY <2>2, <2>3 DEF Good, Notice
<1> HIDE DEF m
<1>11. refreshSelectedRevisionsCmd(q) = IF marks = {} THEN Outcome(e, {}) ELSE Outcome(p, {<<m>>})
  BY <1>4 DEF refreshSelectedRevisionsCmd, p, e, m
<1>12. CASE marks = {}
  <2>1. /\ refreshSelectedRevisionsCmd(q).op = e /\ refreshSelectedRevisionsCmd(q).send = {}
    BY <1>11, <1>12 DEF Outcome
  <2>2. ASSUME NEW s, NEW last PROVE Good(o, s, last, st) \subseteq Good(e, s, last, st)
    BY <1>9
  <2>3. \A S : {} \subseteq S
    OBVIOUS
  <2>4. OutcomeOk(o, refreshSelectedRevisionsCmd(q), st)
    BY <1>6, <1>8, <1>12, <2>1, <2>2, <2>3, Zenon DEF OutcomeOk
  <2> QED BY <2>4 DEF q
<1>13. CASE marks # {}
  <2>1. /\ refreshSelectedRevisionsCmd(q).op = p /\ refreshSelectedRevisionsCmd(q).send = {<<m>>}
    BY <1>11, <1>13 DEF Outcome
  <2>2. ASSUME NEW s, NEW last PROVE {<<m>>} \subseteq Seq(Good(p, s, last, st)) \ {<<>>}
    <3>1. m \in Good(p, s, last, st)
      BY <1>10
    <3> QED BY <3>1
  <2>3. ASSUME NEW s, NEW last PROVE Good(o, s, last, st) \subseteq Good(p, s, last, st)
    BY <1>9
  <2>4. OutcomeOk(o, refreshSelectedRevisionsCmd(q), st)
    BY <1>5, <1>7, <2>1, <2>2, <2>3, Zenon DEF OutcomeOk
  <2> QED BY <2>4 DEF q
<1> QED BY <1>12, <1>13

\* The intents of abandon keep its marks resolved, or ask for what they stand for.
LEMMA AbandonIntents ==
  ASSUME NEW o, NEW st, OpOk(o, st), o.kind = "abandon", NEW out \in abandonIntents(o)
  PROVE  OutcomeOk(o, out, st)
<1>1. \/ out \in {AceJumpKey(o), CancelKey(o), Outcome(o, abandonApply(o))}
      \/ \E d \in BOOLEAN : out = refreshSelectedRevisionsCmd([o EXCEPT !.marks = toggle(@, o.to[1], d)])
  BY DEF abandonIntents
<1>2. CASE out \in {AceJumpKey(o), CancelKey(o), Outcome(o, abandonApply(o))}
  BY <1>2, CommonKeys
<1>3. ASSUME NEW d \in BOOLEAN, out = refreshSelectedRevisionsCmd([o EXCEPT !.marks = toggle(@, o.to[1], d)])
      PROVE  OutcomeOk(o, out, st)
  BY <1>3, ToggleIntent, Zenon
<1> QED BY <1>1, <1>2, <1>3, Zenon

\* The intents of create_bookmark leave the operation complete; the bookmark is set
\* on a commit.
LEMMA CreateBookmarkIntents ==
  ASSUME NEW o, NEW st, OpOk(o, st), o.kind = "create_bookmark", NEW out \in createBookmarkIntents(o)
  PROVE  OutcomeOk(o, out, st)
<1> DEFINE m == [Msg("set bookmark") EXCEPT !.at = o.to]
<1>1. o \in Op /\ o.to \in Selected /\ o.kind # "abandon" /\ o.to # NoCommit
  BY DEF OpOk, Op, Complete, Kinds, FollowKinds
<1>2. 0 \in Int /\ 0 \in Nat /\ {} \in SUBSET Int
  OBVIOUS
<1>3. m \in Message /\ m.type = "set bookmark" /\ m.at = o.to
  BY <1>1, <1>2 DEF Message, Types, Msg
<1>4. out \in {CancelKey(o), Outcome(o, {<<m>>})}
  BY <1>1 DEF createBookmarkIntents
<1> HIDE DEF m
<1>5. ASSUME NEW s, NEW last PROVE {<<m>>} \subseteq Seq(Good(o, s, last, st)) \ {<<>>}
  <2>1. m \in Good(o, s, last, st)
    BY <1>1, <1>3 DEF Good, Notice, Reply
  <2> QED BY <2>1
<1>6. OutcomeOk(o, Outcome(o, {<<m>>}), st)
  BY <1>5 DEF OutcomeOk, Outcome
<1> QED BY <1>4, <1>6, CommonKeys

\* Every intent of every operation.
LEMMA IntentsOk ==
  ASSUME NEW o, NEW st, OpOk(o, st), NEW out \in Intents(o)
  PROVE  OutcomeOk(o, out, st)
<1>1. CASE o.kind \in InsertKinds
  <2>1. \/ out \in setTarget(o)
        \/ out \in {AceJumpKey(o), PickerKey(o), CancelKey(o), Outcome(o, rebaseApply(o)),
                    Outcome(o, revertApply(o)), Outcome(o, duplicateApply(o))}
    BY <1>1 DEF Intents, InsertKinds, rebaseIntents, revertIntents, duplicateIntents
  <2> QED BY <1>1, <2>1, InsertIntents, CommonKeys
<1>2. CASE o.kind = "squash"
  <2>1. out \in {AceJumpKey(o), PickerKey(o), CancelKey(o), Outcome(o, squashApply(o))}
    BY <1>2 DEF Intents, squashIntents
  <2> QED BY <2>1, CommonKeys
<1>3. CASE o.kind = "diff_range"
  <2>1. out \in diffRangeIntents(o)
    BY <1>3 DEF Intents
  <2> QED BY <1>3, <2>1, DiffRangeIntents
<1>4. CASE o.kind = "new_between"
  <2>1. out \in {CancelKey(o), Outcome(o, newBetweenApply(o)), Outcome(o, {}),
                 Outcome([o EXCEPT !.marks = Flip(@, o.to[1])], {})}
    BY <1>4 DEF Intents, newBetweenIntents
  <2>2. OutcomeOk(o, Outcome([o EXCEPT !.marks = Flip(@, o.to[1])], {}), st)
    BY <1>4, MarkIntents
  <2> QED BY <2>1, <2>2, CommonKeys
<1>5. CASE o.kind = "set_parents"
  <2>1. out \in {AceJumpKey(o), CancelKey(o), Outcome(o, {}), Outcome([o EXCEPT !.marks = Flip(@, o.to[1])], {}),
                 Outcome(o, {<<Close(o)>>}), Outcome(o, RunCommand(o, <<Refresh(LastOf(o.from)), Close(o)>>))}
    BY <1>5 DEF Intents, setParentsIntents
  <2>2. OutcomeOk(o, Outcome([o EXCEPT !.marks = Flip(@, o.to[1])], {}), st)
    BY <1>5, MarkIntents
  <2> QED BY <2>1, <2>2, CommonKeys
<1>6. CASE o.kind = "absorb"
  <2>1. out \in absorbIntents(o)
    BY <1>6 DEF Intents
  <2> QED BY <1>6, <2>1, AbsorbIntents
<1>7. CASE o.kind = "abandon"
  <2>1. out \in abandonIntents(o)
    BY <1>7 DEF Intents
  <2> QED BY <1>7, <2>1, AbandonIntents
<1>8. CASE o.kind = "move_bookmark"
  <2>1. out \in {Outcome(o, {<<Close(o), Msg("move cancelled")>>}), Outcome(o, {}),
                 Outcome(o, RunCommand(o, <<Close(o), Refresh(NoChange)>>))}
    BY <1>8 DEF Intents, moveBookmarkIntents
  <2> QED BY <2>1, CommonKeys
<1>9. CASE o.kind = "create_bookmark"
  <2>1. out \in createBookmarkIntents(o)
    BY <1>9 DEF Intents
  <2> QED BY <1>9, <2>1, CreateBookmarkIntents
<1>10. CASE o.kind = "set_bookmark"
  <2>1. out \in {CancelKey(o), Outcome(o, RunCommand(o, <<Close(o), Refresh(NoChange)>>))}
    BY <1>10 DEF Intents, setBookmarkIntents
  <2> QED BY <2>1, CommonKeys
<1>11. CASE o.kind = "normal"
  <2>1. out \in {}
    BY <1>11 DEF Intents
  <2> QED BY <2>1
<1>12. o.kind \in Kinds \cup {"normal"}
  BY DEF OpOk, Op
<1> QED BY <1>1, <1>2, <1>3, <1>4, <1>5, <1>6, <1>7, <1>8, <1>9, <1>10, <1>11, <1>12
        DEF Kinds, FollowKinds, PickerKinds, EditKinds

\* The answer of the target picker leaves the operation complete.
LEMMA TargetOk ==
  ASSUME NEW o, NEW st, OpOk(o, st)
  PROVE  OutcomeOk(o, targetSelected(o), st)
<1>1. targetSelected(o) \in {Outcome(o, rebaseApply(o)), Outcome(o, revertApply(o)), Outcome(o, duplicateApply(o)),
                             Outcome(o, squashApply(o)), Outcome(o, diffRangeApply(o)), Outcome(o, {})}
  BY DEF targetSelected
<1> QED BY <1>1, CommonKeys

-----------------------------------------------------------------------------
(* Steps.                                                                    *)

\* The messages under way stay good when another operation takes over.
LEMMA NewOpGood ==
  ASSUME NEW st \in Nat, NEW st2 \in Nat, st <= st2, NEW o, NEW p, p.kind # "abandon" \/ p.no > st,
         NEW s, NEW last
  PROVE  Good(o, s, last, st) \subseteq Good(p, s, last, st2)
<1>1. ASSUME NEW m \in Message, Reply(m, o, st) PROVE Reply(m, p, st2)
  <2>1. m.no \in Nat
    BY DEF Message
  <2>2. CASE m.type = "selection answer"
    <3>1. m.no <= st
      BY <1>1, <2>2 DEF Reply
    <3>2. m.no <= st2 /\ (p.kind = "abandon" => m.no # p.no)
      BY <2>1, <3>1
    <3> QED BY <3>2 DEF Reply
  <2> QED BY <2>2 DEF Reply
<1> QED BY <1>1 DEF Good

\* What is under way stays good while the operation keeps its number, its queries and
\* its marks.
LEMMA SameGood ==
  ASSUME NEW o, NEW p, p.kind = o.kind, p.no = o.no, p.asked = o.asked, p.marks = o.marks,
         NEW s, NEW last, NEW st
  PROVE  Good(o, s, last, st) \subseteq Good(p, s, last, st)
BY DEF Good, Reply

\* SetSelectedRevision of an operation keeps it complete, makes it follow, and keeps
\* its answers good.
LEMMA SetSelectedOk ==
  ASSUME NEW o, NEW st, OpOk(o, st), NEW c \in Selected
  PROVE  /\ OpOk(setSelectedRevision(o, c), st)
         /\ setSelectedRevision(o, c).kind = o.kind
         /\ o.kind \in FollowKinds /\ c # NoCommit => setSelectedRevision(o, c).to = c
         /\ \A s, last : Good(o, s, last, st) \subseteq Good(setSelectedRevision(o, c), s, last, st)
<1> DEFINE p == [o EXCEPT !.to = c]
<1>1. o \in Op
  BY DEF OpOk
<1>2. /\ p \in Op /\ p.kind = o.kind /\ p.to = c /\ p.no = o.no /\ p.from = o.from /\ p.start = o.start
      /\ p.mode = o.mode /\ p.marks = o.marks /\ p.asked = o.asked
  BY <1>1 DEF Op
<1> HIDE DEF p
<1>3. CASE o.kind \in FollowKinds /\ c # NoCommit
  <2>1. setSelectedRevision(o, c) = p
    BY <1>3 DEF setSelectedRevision, p
  <2>2. OpOk(p, st)
    BY <1>2, <1>3 DEF OpOk, Complete, Marked
  <2> QED BY <1>2, <2>1, <2>2, SameGood
<1>4. CASE ~(o.kind \in FollowKinds /\ c # NoCommit)
  <2>1. setSelectedRevision(o, c) = o
    BY <1>4 DEF setSelectedRevision
  <2> QED BY <1>4, <2>1
<1> QED BY <1>3, <1>4

\* The highlight: at rest, or one more notification is under way.
LEMMA NotifyKeeps ==
  ASSUME NoticePart, sent < MaxMoves, SelectedRevision' \in Selected,
         NEW bag, BagOk(bag, Good(baseOp', sent, lastHighlighted, started')), notifyHighlightChange(bag)
  PROVE  NoticePart' /\ BagPart' /\ (seen' => seen /\ SelectedRevision' = SelectedRevision)
<1>1. sent \in Nat /\ MaxMoves \in Nat /\ sent <= MaxMoves /\ seen \in BOOLEAN /\ lastHighlighted = SelectedRevision
  BY CommitTypes DEF NoticePart
<1>2. CASE SelectedRevision' = lastHighlighted
  <2>1. cmds' = bag /\ UNCHANGED <<lastHighlighted, sent, seen>>
    BY <1>2 DEF notifyHighlightChange
  <2>2. BagPart'
    BY <2>1 DEF BagPart
  <2>3. NoticePart'
    BY <1>2, <2>1 DEF NoticePart
  <2> QED BY <1>1, <1>2, <2>1, <2>2, <2>3
<1>3. CASE SelectedRevision' # lastHighlighted
  <2> DEFINE m == [Msg("selection changed") EXCEPT !.n = sent + 1, !.at = SelectedRevision']
             G == Good(baseOp', sent, lastHighlighted, started')
             H == Good(baseOp', sent + 1, SelectedRevision', started')
  <2>1. /\ lastHighlighted' = SelectedRevision' /\ sent' = sent + 1 /\ seen' = FALSE
        /\ cmds' = Send(bag, {<<m>>})
    BY <1>3 DEF notifyHighlightChange
  <2>2. sent + 1 \in Int /\ 0 \in Nat /\ {} \in SUBSET Int
    BY <1>1
  <2>3. m \in Message /\ m.type = "selection changed" /\ m.n = sent + 1 /\ m.at = SelectedRevision'
    BY <2>2 DEF Message, Types, Msg
  <2> HIDE DEF m
  <2>4. m \in H
    <3>1. sent \in Nat /\ m.n = sent + 1
      BY <1>1, <2>3, Zenon
    <3>2. m.n <= sent + 1
      BY <3>1
    <3> QED BY <2>3, <3>2 DEF Good, Notice, Reply
  <2>5. ASSUME NEW x \in Message, Notice(x, sent, lastHighlighted) PROVE Notice(x, sent + 1, SelectedRevision')
    <3>1. CASE x.type = "selection changed"
      <4>1. x.n \in Int /\ x.n <= sent
        BY <2>5, <3>1 DEF Notice, Message
      <4>2. x.n <= sent + 1 /\ x.n # sent + 1
        BY <1>1, <4>1
      <4> QED BY <4>2 DEF Notice
    <3> QED BY <3>1 DEF Notice
  <2>6. G \subseteq H
    BY <2>5 DEF Good
  <2> HIDE DEF G, H
  <2>7. BagOk(bag, H)
    BY <2>6, GrowOk DEF G
  <2>8. {<<m>>} \subseteq Seq(H) \ {<<>>}
    BY <2>4
  <2>9. BagOk(cmds', H)
    BY <2>1, <2>7, <2>8, SendOk
  <2>10. BagPart'
    BY <2>1, <2>9 DEF BagPart, H
  <2>11. sent + 1 \in 0 .. MaxMoves
    BY <1>1
  <2>12. NoticePart'
    BY <2>1, <2>11, Zenon DEF NoticePart
  <2> QED BY <2>1, <2>10, <2>12
<1> QED BY <1>2, <1>3

\* A step that moves the cursor or replaces the list.
LEMMA MovingStep ==
  ASSUME OperationsInv, sent < MaxMoves, ListPart', OpPart',
         NEW bag, BagOk(bag, Good(baseOp', sent, lastHighlighted, started')), notifyHighlightChange(bag),
         baseOp' = baseOp \/ (baseOp'.kind \in FollowKinds => baseOp'.to = SelectedRevision')
  PROVE  OperationsInv'
<1>1. SelectedRevision' \in Selected
  BY DEF ListPart, SelectedRevision, Selected
<1>2. NoticePart' /\ BagPart' /\ (seen' => seen /\ SelectedRevision' = SelectedRevision)
  BY <1>1, NotifyKeeps DEF OperationsInv
<1>3. TargetFollowsCursor'
  <2>1. CASE baseOp' = baseOp
    <3>1. ASSUME baseOp.kind \in FollowKinds, SelectedRevision' # NoCommit, seen' PROVE baseOp.to = SelectedRevision'
      BY <1>2, <3>1 DEF OperationsInv, TargetFollowsCursor
    <3> QED BY <2>1, <3>1 DEF TargetFollowsCursor
  <2>2. CASE baseOp'.kind \in FollowKinds => baseOp'.to = SelectedRevision'
    BY <2>2 DEF TargetFollowsCursor
  <2> QED BY <2>1, <2>2
<1> QED BY <1>2, <1>3 DEF OperationsInv

\* A step that leaves the highlight.
LEMMA RestingStep ==
  ASSUME OperationsInv, UNCHANGED <<rows, cursor, lastHighlighted, sent>>, seen' \in BOOLEAN,
         version' \in 0 .. MaxVersion, checkedRevisions' \subseteq Commits, reload' \in Int, OpPart',
         BagOk(cmds', Good(baseOp', sent, lastHighlighted, started')),
         baseOp'.kind \in FollowKinds /\ seen' /\ SelectedRevision # NoCommit => baseOp'.to = SelectedRevision
  PROVE  OperationsInv'
<1>1. SelectedRevision' = SelectedRevision
  BY DEF SelectedRevision
<1>2. ListPart'
  BY DEF OperationsInv, ListPart
<1>3. NoticePart'
  BY <1>1 DEF OperationsInv, NoticePart
<1>4. BagPart'
  BY DEF BagPart
<1>5. TargetFollowsCursor'
  BY <1>1 DEF TargetFollowsCursor
<1> QED BY <1>2, <1>3, <1>4, <1>5 DEF OperationsInv

\* The invariant with the definitions of its parts that every step needs.
LEMMA Unpack ==
  ASSUME OperationsInv
  PROVE  /\ ListPart /\ NoticePart /\ OpPart
         /\ OpOk(baseOp, started) /\ started \in Nat /\ layers \in Seq(Layer) /\ seen \in BOOLEAN
         /\ version \in 0 .. MaxVersion /\ rows \in Seq(Commits) /\ cursor \in Nat
         /\ checkedRevisions \subseteq Commits /\ reload \in Int
         /\ BagOk(cmds, Good(baseOp, sent, lastHighlighted, started))
         /\ baseOp.kind \in FollowKinds /\ seen /\ SelectedRevision # NoCommit => baseOp.to = SelectedRevision
<1>1. ListPart /\ NoticePart /\ OpPart /\ BagPart /\ TargetFollowsCursor
  BY DEF OperationsInv
<1>2. /\ OpOk(baseOp, started) /\ started \in Nat /\ layers \in Seq(Layer) /\ seen \in BOOLEAN
      /\ version \in 0 .. MaxVersion /\ rows \in Seq(Commits) /\ cursor \in Nat
      /\ checkedRevisions \subseteq Commits /\ reload \in Int
  BY <1>1, Zenon DEF ListPart, NoticePart, OpPart
<1>3. BagOk(cmds, Good(baseOp, sent, lastHighlighted, started))
  BY <1>1 DEF BagPart
<1>4. baseOp.kind \in FollowKinds /\ seen /\ SelectedRevision # NoCommit => baseOp.to = SelectedRevision
  BY <1>1, Zenon DEF TargetFollowsCursor
<1> QED BY <1>1, <1>2, <1>3, <1>4, Zenon

\* Sending plain messages keeps the bag good.
LEMMA SendPlain ==
  ASSUME NEW B, NEW o, NEW s, NEW last, NEW st, BagOk(B, Good(o, s, last, st)), NEW m \in Plain
  PROVE  BagOk(Send(B, {<<m>>}), Good(o, s, last, st))
<1>1. {<<m>>} \subseteq Seq(Plain) \ {<<>>}
  BY PlainSequences
<1>2. {<<m>>} \subseteq Seq(Good(o, s, last, st)) \ {<<>>}
  BY <1>1, PlainSends, Zenon
<1> QED BY <1>2, SendOk

\* The rows are commits.
LEMMA RowsTyped ==
  ASSUME OperationsInv
  PROVE  DOMAIN rows = 1 .. Len(rows) /\ Len(rows) \in Nat /\ \A i \in DOMAIN rows : rows[i] \in Commits
<1>1. rows \in Seq(Commits)
  BY Unpack
<1> QED BY <1>1

\* Moving the cursor keeps the invariant (navigate).
LEMMA MoveKeeps == OperationsInv /\ Move => OperationsInv'
<1> SUFFICES ASSUME OperationsInv, Move PROVE OperationsInv'
  OBVIOUS
<1>1. /\ sent < MaxMoves /\ UNCHANGED <<version, rows, checkedRevisions, reload, baseOp, layers, started>>
      /\ notifyHighlightChange(cmds)
  BY DEF Move, CanMove
<1>2. cursor' \in DOMAIN rows /\ cursor' \in Nat
  BY RowsTyped DEF Move
<1>3. ListPart'
  BY <1>1, <1>2, Unpack DEF ListPart
<1>4. OpPart'
  BY <1>1, Unpack DEF OpPart
<1>5. BagOk(cmds, Good(baseOp', sent, lastHighlighted, started'))
  BY <1>1, Unpack
<1> QED BY <1>1, <1>3, <1>4, <1>5, MovingStep

\* Marking a range keeps the invariant (rangeSelect).
LEMMA RangeSelectKeeps == OperationsInv /\ rangeSelect => OperationsInv'
<1> SUFFICES ASSUME OperationsInv, rangeSelect PROVE OperationsInv'
  OBVIOUS
<1>1. /\ sent < MaxMoves /\ UNCHANGED <<version, rows, reload, baseOp, layers, started>>
      /\ notifyHighlightChange(cmds)
  BY DEF rangeSelect, CanMove
<1>2. PICK to \in DOMAIN rows :
        LET range == {rows[i] : i \in {j \in DOMAIN rows : (cursor <= j /\ j <= to) \/ (to <= j /\ j <= cursor)}}
        IN  /\ checkedRevisions' = (checkedRevisions \ range) \cup (range \ checkedRevisions)
            /\ cursor' = to
  BY DEF rangeSelect
<1>3. cursor' \in DOMAIN rows /\ cursor' \in Nat
  BY <1>2, RowsTyped
<1>4. checkedRevisions' \subseteq Commits
  <2> DEFINE range == {rows[i] : i \in {j \in DOMAIN rows : (cursor <= j /\ j <= to) \/ (to <= j /\ j <= cursor)}}
  <2>1. range \subseteq {rows[i] : i \in DOMAIN rows}
    OBVIOUS
  <2>2. checkedRevisions' = (checkedRevisions \ range) \cup (range \ checkedRevisions)
    BY <1>2
  <2> HIDE DEF range
  <2>3. range \subseteq Commits
    BY <2>1, RowsTyped
  <2> QED BY <2>2, <2>3, Unpack
<1>5. ListPart'
  BY <1>1, <1>3, <1>4, Unpack DEF ListPart
<1>6. OpPart'
  BY <1>1, Unpack DEF OpPart
<1>7. BagOk(cmds, Good(baseOp', sent, lastHighlighted, started'))
  BY <1>1, Unpack
<1> QED BY <1>1, <1>5, <1>6, <1>7, MovingStep

\* The jump of ace_jump to a row keeps the invariant.
LEMMA AceFoundKeeps ==
  ASSUME OperationsInv, NEW i, AceFound(i)
  PROVE  OperationsInv'
<1>1. /\ sent < MaxMoves /\ UNCHANGED <<version, rows, checkedRevisions, reload, baseOp, layers, started>>
      /\ cursor' = IF i \in DOMAIN rows THEN i ELSE cursor
      /\ notifyHighlightChange(Send(cmds, {<<Msg("close")>>}))
  BY DEF AceFound, CanMove
<1>2. cursor' \in Nat /\ (rows # <<>> => cursor' \in DOMAIN rows)
  BY <1>1, RowsTyped, Unpack DEF ListPart
<1>3. ListPart'
  BY <1>1, <1>2, Unpack DEF ListPart
<1>4. OpPart'
  BY <1>1, Unpack DEF OpPart
<1>5. Msg("close") \in Plain
  <2>1. baseOp \in Op
    BY Unpack DEF OpOk
  <2> QED BY <2>1, PlainMessages
<1>6. BagOk(Send(cmds, {<<Msg("close")>>}), Good(baseOp', sent, lastHighlighted, started'))
  BY <1>1, <1>5, Unpack, SendPlain
<1> QED BY <1>1, <1>3, <1>4, <1>6, MovingStep

\* What New makes.
LEMMA NewTyped ==
  ASSUME NEW kind \in Kinds, NEW from \in SUBSET Selected, NEW current \in Selected, started \in Nat
  PROVE  /\ New(kind, from, current) \in Op /\ New(kind, from, current).kind = kind
         /\ New(kind, from, current).no = started + 1 /\ New(kind, from, current).from = from
         /\ New(kind, from, current).to = current /\ New(kind, from, current).mode = "onto"
         /\ New(kind, from, current).asked = 0
<1>1. /\ started + 1 \in Nat /\ NoCommit \in Selected /\ 0 \in Nat /\ 0 \in Int /\ {} \in SUBSET Int
      /\ {} \in SUBSET (Int \cup (Int \X BOOLEAN)) /\ {} \in SUBSET Selected
  BY DEF Selected
<1> QED BY <1>1 DEF New, Default, Op

\* A new abandon has chosen what it has marked.
LEMMA NewAbandonOk ==
  ASSUME NEW S, S \subseteq Commits, S # {}, NEW c \in Commits, started \in Nat
  PROVE  /\ OpOk(NewAbandon(S, c), started + 1) /\ NewAbandon(S, c).kind = "abandon"
         /\ NewAbandon(S, c).to = c /\ NewAbandon(S, c).no = started + 1
         /\ NewAbandon(S, c).chosen = Resolve(NewAbandon(S, c).marks)
<1> DEFINE marks == {<<d[1], FALSE>> : d \in S}
           chosen == {d[1] : d \in S}
           n == New("abandon", S, c)
           p == NewAbandon(S, c)
<1>1. S \in SUBSET Selected /\ c \in Selected /\ c # NoCommit /\ \A d \in S : d[1] \in Int
  BY CommitTypes DEF Selected
<1>2. "abandon" \in Kinds
  BY DEF Kinds, FollowKinds
<1>3. /\ n \in Op /\ n.kind = "abandon" /\ n.no = started + 1 /\ n.from = S /\ n.to = c /\ n.mode = "onto"
      /\ n.asked = 0
  BY <1>1, <1>2, NewTyped
<1>4. marks \in SUBSET (Int \X BOOLEAN) /\ chosen \in SUBSET Int
  <2>1. \A d \in S : <<d[1], FALSE>> \in Int \X BOOLEAN
    BY <1>1
  <2>2. marks \subseteq Int \X BOOLEAN
    BY <2>1, Zenon
  <2>3. chosen \subseteq Int
    BY <1>1, Zenon
  <2> QED BY <2>2, <2>3
<1>5. Resolve(marks) = chosen
  <2> DEFINE R(m) == IF m[2] THEN {d \in Changes : d >= m[1]} ELSE {m[1]}
  <2>1. \A d \in S : R(<<d[1], FALSE>>) = {d[1]}
    OBVIOUS
  <2>2. Resolve(marks) = UNION {R(m) : m \in marks}
    BY DEF Resolve
  <2> HIDE DEF R
  <2>3. UNION {R(m) : m \in marks} \subseteq chosen
    <3>1. \A m \in marks : R(m) \subseteq chosen
      BY <2>1, Zenon
    <3> QED BY <3>1, Zenon
  <2>4. chosen \subseteq UNION {R(m) : m \in marks}
    BY <2>1
  <2> QED BY <2>2, <2>3, <2>4
<1>6. p = [n EXCEPT !.marks = marks, !.chosen = chosen]
  BY DEF NewAbandon
<1> HIDE DEF marks, chosen, n, p
<1>7. /\ p \in Op /\ p.kind = "abandon" /\ p.no = started + 1 /\ p.from = S /\ p.to = c /\ p.mode = "onto"
      /\ p.asked = 0 /\ p.marks = marks /\ p.chosen = chosen
  BY <1>3, <1>4, <1>6 DEF Op
<1>8. OpOk(p, started + 1)
  BY <1>1, <1>4, <1>5, <1>7 DEF OpOk, Complete, Marked
<1> QED BY <1>5, <1>7, <1>8 DEF p

\* A new absorb is complete.
LEMMA NewAbsorbOk ==
  ASSUME NEW c \in Commits, started \in Nat
  PROVE  /\ OpOk(NewAbsorb(c), started + 1) /\ NewAbsorb(c).kind = "absorb" /\ NewAbsorb(c).to = c
<1> DEFINE targets == loadDefaultTargets(c)
           n == New("absorb", {c}, c)
           p == NewAbsorb(c)
<1>1. {c} \in SUBSET Selected /\ {c} # {} /\ c \in Selected /\ c # NoCommit
  BY CommitTypes DEF Selected
<1>2. "absorb" \in Kinds
  BY DEF Kinds, FollowKinds
<1>3. /\ n \in Op /\ n.kind = "absorb" /\ n.no = started + 1 /\ n.from = {c} /\ n.to = c /\ n.mode = "onto"
  BY <1>1, <1>2, NewTyped
<1>4. targets \in SUBSET Int /\ targets \in SUBSET (Int \cup (Int \X BOOLEAN))
  <2>1. targets \subseteq Changes
    BY DEF loadDefaultTargets
  <2> HIDE DEF targets
  <2> QED BY <2>1, CommitTypes
<1>5. p = [n EXCEPT !.marks = targets, !.chosen = targets]
  BY DEF NewAbsorb
<1> HIDE DEF targets, n, p
<1>6. /\ p \in Op /\ p.kind = "absorb" /\ p.no = started + 1 /\ p.from = {c} /\ p.to = c /\ p.mode = "onto"
  BY <1>3, <1>4, <1>5 DEF Op
<1>7. OpOk(p, started + 1)
  BY <1>1, <1>6 DEF OpOk, Complete, Marked
<1> QED BY <1>6, <1>7 DEF p

\* Any other operation, with what it is about.
LEMMA NewOk ==
  ASSUME NEW kind \in Kinds \ {"abandon"}, NEW from \in SUBSET Selected, NEW c \in Selected, started \in Nat,
         kind \notin {"diff_range", "new_between"} => c # NoCommit /\ from # {}
  PROVE  /\ OpOk(New(kind, from, c), started + 1) /\ New(kind, from, c).kind = kind /\ New(kind, from, c).to = c
<1> DEFINE p == New(kind, from, c)
<1>1. /\ p \in Op /\ p.kind = kind /\ p.no = started + 1 /\ p.from = from /\ p.to = c /\ p.mode = "onto"
  BY NewTyped
<1> HIDE DEF p
<1>2. p.no <= started + 1
  BY <1>1
<1>3. OpOk(p, started + 1)
  BY <1>1, <1>2 DEF OpOk, Complete, Marked
<1> QED BY <1>1, <1>3 DEF p

\* A new diff_range is complete.
LEMMA NewDiffRangeOk ==
  ASSUME NEW c \in Selected, started \in Nat
  PROVE  /\ OpOk([New("diff_range", {c}, c) EXCEPT !.start = c], started + 1)
         /\ [New("diff_range", {c}, c) EXCEPT !.start = c].kind = "diff_range"
         /\ [New("diff_range", {c}, c) EXCEPT !.start = c].to = c
<1> DEFINE n == New("diff_range", {c}, c)
           p == [n EXCEPT !.start = c]
<1>1. "diff_range" \in Kinds /\ {c} \in SUBSET Selected
  BY DEF Kinds, FollowKinds, PickerKinds
<1>2. /\ n \in Op /\ n.kind = "diff_range" /\ n.no = started + 1 /\ n.to = c /\ n.mode = "onto"
  BY <1>1, NewTyped
<1> HIDE DEF n
<1>3. /\ p \in Op /\ p.kind = "diff_range" /\ p.no = started + 1 /\ p.to = c /\ p.mode = "onto"
  BY <1>2 DEF Op
<1> HIDE DEF p
<1>4. p.no <= started + 1
  BY <1>3
<1>5. OpOk(p, started + 1)
  BY <1>3, <1>4 DEF OpOk, Complete, Marked
<1> QED BY <1>3, <1>5 DEF p, n

\* The operation that a key starts is complete, and an abandon has chosen what it has marked.
LEMMA StartedOk ==
  ASSUME OperationsInv, NEW kind \in Kinds, Start(kind)
  PROVE  /\ OpOk(baseOp', started + 1) /\ baseOp'.kind = kind /\ baseOp'.to = SelectedRevision
         /\ baseOp'.kind = "abandon" => baseOp'.no = started + 1 /\ baseOp'.chosen = Resolve(baseOp'.marks)
<1> DEFINE c == SelectedRevision
           S == SelectedRevisions
<1>1. /\ started \in Nat /\ S \subseteq Commits /\ c \in Selected /\ (S # {} => c \in Commits)
      /\ c # NoCommit => S # {}
  BY Unpack, SelectedTyped, CommitTypes DEF SelectedRevisions
<1>2. S # {} \/ kind \in {"diff_range", "new_between"}
  BY DEF Start
<1>4. baseOp' = CASE kind = "diff_range" -> [New(kind, {c}, c) EXCEPT !.start = c]
                  [] kind = "abandon" -> NewAbandon(S, c)
                  [] kind = "absorb" -> NewAbsorb(c)
                  [] kind \in {"set_parents", "set_bookmark", "move_bookmark", "create_bookmark"} -> New(kind, {c}, c)
                  [] OTHER -> New(kind, S, c)
  BY Zenon DEF Start, setBaseOperation
<1> HIDE DEF c, S
<1>5. S \in SUBSET Selected /\ {c} \in SUBSET Selected /\ {c} # {} /\ NoCommit \notin Commits
  BY <1>1, CommitTypes DEF Selected
<1>6. /\ OpOk(baseOp', started + 1) /\ baseOp'.kind = kind /\ baseOp'.to = c
      /\ baseOp'.kind = "abandon" => baseOp'.no = started + 1 /\ baseOp'.chosen = Resolve(baseOp'.marks)
  <2>1. CASE kind = "diff_range"
    <3>1. baseOp' = [New("diff_range", {c}, c) EXCEPT !.start = c]
      BY <1>4, <2>1
    <3> QED BY <1>1, <2>1, <3>1, NewDiffRangeOk
  <2>2. CASE kind = "abandon"
    <3>1. baseOp' = NewAbandon(S, c) /\ S # {} /\ c \in Commits
      BY <1>1, <1>2, <1>4, <2>2
    <3> QED BY <1>1, <2>2, <3>1, NewAbandonOk
  <2>3. CASE kind = "absorb"
    <3>1. baseOp' = NewAbsorb(c) /\ c \in Commits
      BY <1>1, <1>2, <1>4, <2>3
    <3> QED BY <1>1, <2>3, <3>1, NewAbsorbOk
  <2>4. CASE kind \notin {"diff_range", "abandon", "absorb"}
    <3>1. baseOp' = New(kind, {c}, c) \/ baseOp' = New(kind, S, c)
      BY <1>4, <2>4
    <3>2. kind \notin {"diff_range", "new_between"} => c # NoCommit /\ S # {}
      BY <1>1, <1>2, <1>5
    <3> QED BY <1>1, <1>5, <2>4, <3>1, <3>2, NewOk
  <2> QED BY <2>1, <2>2, <2>3, <2>4
<1> QED BY <1>6 DEF c

\* Starting an operation keeps the invariant.
LEMMA StartKeeps ==
  ASSUME OperationsInv, NEW kind \in Kinds, Start(kind)
  PROVE  OperationsInv'
<1>1. started \in Nat
  BY Unpack
<1>3. layers' = <<>> /\ started' = started + 1
      /\ UNCHANGED <<version, rows, cursor, checkedRevisions, reload, cmds, lastHighlighted, sent, seen>>
  BY DEF Start, setBaseOperation
<1>6. /\ OpOk(baseOp', started + 1) /\ baseOp'.kind = kind /\ baseOp'.to = SelectedRevision
      /\ baseOp'.kind = "abandon" => baseOp'.no = started + 1
  BY StartedOk
<1>7. OpPart'
  <2>1. started + 1 \in Nat /\ <<>> \in Seq(Layer)
    BY <1>1
  <2> QED BY <1>3, <1>6, <2>1 DEF OpPart
<1>8. BagOk(cmds', Good(baseOp', sent, lastHighlighted, started'))
  <2>1. started + 1 \in Nat /\ started <= started + 1 /\ (baseOp'.kind # "abandon" \/ baseOp'.no > started)
    BY <1>1, <1>6
  <2>2. Good(baseOp, sent, lastHighlighted, started) \subseteq Good(baseOp', sent, lastHighlighted, started')
    BY <1>1, <1>3, <2>1, NewOpGood
  <2> QED BY <1>3, <2>2, Unpack, GrowOk
<1> QED BY <1>3, <1>6, <1>7, <1>8, Unpack, RestingStep

\* Starting a squash, which moves the cursor to the parent, keeps the invariant.
LEMMA StartSquashKeeps == OperationsInv /\ startSquash => OperationsInv'
<1> SUFFICES ASSUME OperationsInv, startSquash PROVE OperationsInv'
  OBVIOUS
<1> DEFINE S == SelectedRevisions
           j == jumpToParent
<1>1. /\ sent < MaxMoves /\ UNCHANGED <<version, rows, checkedRevisions, reload>> /\ notifyHighlightChange(cmds)
      /\ S # {} /\ cursor' = j /\ baseOp' = New("squash", S, rows[j]) /\ layers' = <<>> /\ started' = started + 1
  BY DEF startSquash, CanMove, setBaseOperation
<1>2. started \in Nat /\ S \subseteq Commits /\ cursor \in DOMAIN rows
  BY <1>1, Unpack, SelectedTyped
<1>3. j \in DOMAIN rows
  <2> DEFINE parents == {i \in DOMAIN rows : rows[i][1] = LastOf(S) - 1}
  <2>1. parents \subseteq DOMAIN rows
    OBVIOUS
  <2>2. j = IF parents # {} THEN CHOOSE i \in parents : TRUE ELSE IF cursor < Len(rows) THEN cursor + 1 ELSE cursor
    BY DEF jumpToParent
  <2> HIDE DEF parents, j, S
  <2>3. CASE parents # {}
    <3>1. (CHOOSE i \in parents : TRUE) \in parents
      BY <2>3
    <3> QED BY <2>1, <2>2, <2>3, <3>1
  <2>4. CASE parents = {}
    <3>1. DOMAIN rows = 1 .. Len(rows) /\ Len(rows) \in Nat /\ cursor \in 1 .. Len(rows)
      BY <1>2, RowsTyped
    <3>2. j = IF cursor < Len(rows) THEN cursor + 1 ELSE cursor
      BY <2>2, <2>4
    <3> QED BY <3>1, <3>2
  <2> QED BY <2>3, <2>4
<1> HIDE DEF j, S
<1>4. rows[j] \in Commits /\ j \in Nat /\ rows[j] # NoCommit
  BY <1>3, RowsTyped, CommitTypes
<1>5. SelectedRevision' = rows[j]
  BY <1>1, <1>3 DEF SelectedRevision
<1>6. OpOk(baseOp', started + 1) /\ baseOp'.kind = "squash" /\ baseOp'.to = rows[j]
  <2>1. "squash" \in Kinds \ {"abandon"} /\ S \in SUBSET Selected /\ rows[j] \in Selected
    BY <1>2, <1>4 DEF Kinds, FollowKinds, PickerKinds, Selected
  <2> QED BY <1>1, <1>2, <1>4, <2>1, NewOk
<1>7. OpPart'
  <2>1. started + 1 \in Nat /\ <<>> \in Seq(Layer)
    BY <1>2
  <2> QED BY <1>1, <1>6, <2>1 DEF OpPart
<1>8. ListPart'
  BY <1>1, <1>3, <1>4, Unpack DEF ListPart
<1>9. BagOk(cmds, Good(baseOp', sent, lastHighlighted, started'))
  <2>1. started + 1 \in Nat /\ started <= started + 1 /\ baseOp'.kind # "abandon"
    BY <1>2, <1>6
  <2>2. Good(baseOp, sent, lastHighlighted, started) \subseteq Good(baseOp', sent, lastHighlighted, started')
    BY <1>1, <1>2, <2>1, NewOpGood
  <2> QED BY <2>2, Unpack, GrowOk
<1> QED BY <1>1, <1>5, <1>6, <1>7, <1>8, <1>9, MovingStep

\* A list has commits of the repository only, and the cursor is on one of them.
LEMMA ListsTyped ==
  ASSUME version \in 0 .. MaxVersion, NEW list \in Lists
  PROVE  list \in Seq(Commits) /\ (list # <<>> => 1 \in DOMAIN list)
<1>1. \A c \in Changes : Commit(c) \in Commits
  BY CommitTypes DEF Commit, Commits
<1>2. PICK n \in 0 .. Cardinality(Changes) : list \in [1 .. n -> {Commit(c) : c \in Changes}]
  BY DEF Lists
<1>3. list \in [1 .. n -> Commits] /\ n \in Nat
  BY <1>1, <1>2, CommitTypes
<1> QED BY <1>3

\* A reload of the rows keeps the invariant (updateGraphRows).
LEMMA ReloadKeeps == OperationsInv /\ updateGraphRows => OperationsInv'
<1> SUFFICES ASSUME OperationsInv, updateGraphRows PROVE OperationsInv'
  OBVIOUS
<1>1. /\ sent < MaxMoves /\ UNCHANGED <<version, checkedRevisions, layers, started>> /\ notifyHighlightChange(cmds)
      /\ reload' = NoLoad /\ operationSelectionChanged
  BY DEF updateGraphRows
<1>2. PICK list \in Lists : rows' = list /\ cursor' = CursorAfterLoad(list)
  BY DEF updateGraphRows
<1>3. rows' \in Seq(Commits) /\ (rows' # <<>> => 1 \in DOMAIN rows')
  BY <1>2, ListsTyped, Unpack
<1>4. cursor' \in Nat /\ (rows' # <<>> => cursor' \in DOMAIN rows')
  <2> DEFINE found == {i \in DOMAIN list : list[i][1] = IF reload > 0 THEN reload ELSE SelectedRevision[1]}
  <2>1. found \subseteq DOMAIN rows' /\ cursor' = IF found # {} THEN CHOOSE i \in found : TRUE ELSE 1
    BY <1>2 DEF CursorAfterLoad
  <2> HIDE DEF found
  <2>2. DOMAIN rows' = 1 .. Len(rows') /\ Len(rows') \in Nat
    BY <1>3
  <2>3. CASE found # {}
    <3>1. (CHOOSE i \in found : TRUE) \in found
      BY <2>3
    <3> QED BY <2>1, <2>2, <2>3, <3>1
  <2>4. CASE found = {}
    BY <1>3, <2>1, <2>4
  <2> QED BY <2>3, <2>4
<1>5. ListPart'
  BY <1>1, <1>3, <1>4, Unpack DEF ListPart, NoLoad
<1>6. SelectedRevision' \in Selected
  BY <1>3 DEF SelectedRevision, Selected
<1>7. CASE SelectedRevision' \in {NoCommit, SelectedRevision}
  <2>1. baseOp' = baseOp
    BY <1>1, <1>7 DEF operationSelectionChanged
  <2>2. OpPart'
    BY <1>1, <2>1, Unpack DEF OpPart
  <2>3. BagOk(cmds, Good(baseOp', sent, lastHighlighted, started'))
    BY <1>1, <2>1, Unpack
  <2> QED BY <1>1, <1>5, <2>1, <2>2, <2>3, MovingStep
<1>8. CASE SelectedRevision' \notin {NoCommit, SelectedRevision}
  <2>1. baseOp' = setSelectedRevision(baseOp, SelectedRevision')
    BY <1>1, <1>8 DEF operationSelectionChanged
  <2>2. /\ OpOk(baseOp', started) /\ baseOp'.kind = baseOp.kind
        /\ baseOp.kind \in FollowKinds => baseOp'.to = SelectedRevision'
        /\ Good(baseOp, sent, lastHighlighted, started) \subseteq Good(baseOp', sent, lastHighlighted, started)
    BY <1>6, <1>8, <2>1, Unpack, SetSelectedOk
  <2>3. OpPart'
    BY <1>1, <2>2, Unpack DEF OpPart
  <2>4. BagOk(cmds, Good(baseOp', sent, lastHighlighted, started'))
    BY <1>1, <2>2, Unpack, GrowOk
  <2> QED BY <1>1, <1>5, <2>2, <2>3, <2>4, MovingStep
<1> QED BY <1>7, <1>8

\* A key of the operation keeps the invariant.
LEMMA OperationKeyKeeps == OperationsInv /\ OperationKey => OperationsInv'
<1> SUFFICES ASSUME OperationsInv, OperationKey PROVE OperationsInv'
  OBVIOUS
<1>1. PICK out \in Intents(baseOp) : baseOp' = out.op /\ cmds' = Send(cmds, out.send)
  BY DEF OperationKey
<1>2. UNCHANGED <<version, rows, cursor, checkedRevisions, reload, layers, lastHighlighted, sent, seen, started>>
  BY DEF OperationKey
<1>3. OutcomeOk(baseOp, out, started)
  BY Unpack, IntentsOk
<1>4. /\ OpOk(baseOp', started) /\ baseOp'.kind = baseOp.kind /\ baseOp'.to = baseOp.to
      /\ Good(baseOp, sent, lastHighlighted, started) \subseteq Good(baseOp', sent, lastHighlighted, started)
      /\ out.send \subseteq Seq(Good(baseOp', sent, lastHighlighted, started)) \ {<<>>}
  BY <1>1, <1>3 DEF OutcomeOk
<1>5. BagOk(cmds', Good(baseOp', sent, lastHighlighted, started))
  <2>1. BagOk(cmds, Good(baseOp', sent, lastHighlighted, started))
    BY <1>4, Unpack, GrowOk
  <2> QED BY <1>1, <1>4, <2>1, SendOk
<1>6. OpPart'
  BY <1>2, <1>4, Unpack DEF OpPart
<1> QED BY <1>2, <1>4, <1>5, <1>6, Unpack, RestingStep

\* Steps that leave the operation and the layers, and send what is good.
LEMMA SendingStep ==
  ASSUME OperationsInv,
         UNCHANGED <<rows, cursor, baseOp, layers, lastHighlighted, sent, seen, started>>,
         version' \in 0 .. MaxVersion, checkedRevisions' \subseteq Commits, reload' \in Int,
         BagOk(cmds', Good(baseOp, sent, lastHighlighted, started))
  PROVE  OperationsInv'
<1>1. OpPart'
  BY Unpack DEF OpPart
<1> QED BY <1>1, Unpack, RestingStep

\* Marking a row keeps the invariant (toggleCheckedRevision).
LEMMA ToggleCheckedKeeps == OperationsInv /\ toggleCheckedRevision => OperationsInv'
<1> SUFFICES ASSUME OperationsInv, toggleCheckedRevision PROVE OperationsInv'
  OBVIOUS
<1>1. /\ UNCHANGED <<version, rows, cursor, reload, baseOp, layers, cmds, lastHighlighted, sent, seen, started>>
      /\ SelectedRevision # NoCommit /\ checkedRevisions' = Flip(checkedRevisions, SelectedRevision)
  BY DEF toggleCheckedRevision
<1>2. checkedRevisions' \subseteq Commits
  <2>1. SelectedRevision \in Commits /\ checkedRevisions \subseteq Commits
    BY <1>1, Unpack, SelectedTyped DEF Selected
  <2> QED BY <1>1, <2>1 DEF Flip
<1> QED BY <1>1, <1>2, Unpack, SendingStep

\* The keys that only send a message, and the automatic refresh.
LEMMA PlainKeysKeep ==
  ASSUME OperationsInv, accept \/ TargetPickerCancel \/ AceCancel \/ AutoRefresh
  PROVE  OperationsInv'
<1>1. baseOp \in Op
  BY Unpack DEF OpOk
<1>2. ASSUME NEW m \in Plain, cmds' = Send(cmds, {<<m>>}), version' \in 0 .. MaxVersion,
             UNCHANGED <<rows, cursor, checkedRevisions, reload, baseOp, layers, lastHighlighted, sent, seen, started>>
      PROVE  OperationsInv'
  <2>1. BagOk(cmds', Good(baseOp, sent, lastHighlighted, started))
    BY <1>2, Unpack, SendPlain
  <2> QED BY <1>2, <2>1, Unpack, SendingStep
<1>3. CASE accept
  <2>1. /\ layers # <<>> /\ cmds' = Send(cmds, {<<[Msg("target") EXCEPT !.no = Last(layers).no]>>})
        /\ UNCHANGED <<version, rows, cursor, checkedRevisions, reload, baseOp, layers, lastHighlighted, sent, seen, started>>
    BY <1>3 DEF accept, HasTop
  <2>2. Last(layers).no \in Nat
    <3>1. layers \in Seq(Layer) /\ layers # <<>>
      BY <2>1, Unpack
    <3>2. Last(layers) \in Layer
      BY <3>1 DEF Last
    <3> QED BY <3>2 DEF Layer
  <2>3. [Msg("target") EXCEPT !.no = Last(layers).no] \in Plain
    BY <1>1, <2>2, PlainMessages, Zenon
  <2> QED BY <1>2, <2>1, <2>3, Unpack
<1>4. CASE TargetPickerCancel
  <2>1. Msg("picker cancelled") \in Plain
    BY <1>1, PlainMessages
  <2> QED BY <1>2, <1>4, <2>1, Unpack DEF TargetPickerCancel
<1>5. CASE AceCancel
  <2>1. Msg("close") \in Plain
    BY <1>1, PlainMessages
  <2> QED BY <1>2, <1>5, <2>1, Unpack DEF AceCancel
<1>6. CASE AutoRefresh
  <2>1. Refresh(Keep) \in Plain
    BY <1>1, PlainMessages
  <2>2. version' \in 0 .. MaxVersion
    BY <1>6, Unpack, CommitTypes DEF AutoRefresh
  <2> QED BY <1>2, <1>6, <2>1, <2>2 DEF AutoRefresh
<1> QED BY <1>3, <1>4, <1>5, <1>6

\* Without an operation.
LEMMA DefaultOk ==
  ASSUME started \in Nat
  PROVE  /\ OpOk(Default, started) /\ Default.kind = "normal"
         /\ \A o, s, last : Good(o, s, last, started) \subseteq Good(Default, s, last, started)
<1>1. /\ NoCommit \in Selected /\ 0 \in Nat /\ 0 \in Int /\ {} \in SUBSET Int
      /\ {} \in SUBSET (Int \cup (Int \X BOOLEAN)) /\ {} \in SUBSET Selected
  BY DEF Selected
<1>2. Default \in Op /\ Default.kind = "normal" /\ Default.no = 0 /\ Default.mode = "onto"
  BY <1>1 DEF Default, Op
<1>3. "normal" \notin Kinds
  BY DEF Kinds, FollowKinds, EditKinds, PickerKinds, InsertKinds
<1>4. OpOk(Default, started)
  BY <1>2, <1>3 DEF OpOk, Complete, Marked
<1>5. started <= started
  OBVIOUS
<1> QED BY <1>2, <1>4, <1>5, NewOpGood

\* The operation is left, and messages stay as they are or are taken.
LEMMA ResetStep ==
  ASSUME OperationsInv, resetOperations, UNCHANGED <<version, rows, cursor, reload, lastHighlighted, sent, seen, started>>,
         checkedRevisions' \subseteq Commits, BagOk(cmds', Good(baseOp, sent, lastHighlighted, started))
  PROVE  OperationsInv'
<1>1. baseOp' = Default /\ layers' = <<>>
  BY DEF resetOperations
<1>2. started \in Nat
  BY Unpack
<1>3. /\ OpOk(Default, started) /\ Default.kind = "normal"
      /\ Good(baseOp, sent, lastHighlighted, started) \subseteq Good(Default, sent, lastHighlighted, started)
  BY <1>2, DefaultOk
<1>4. BagOk(cmds', Good(baseOp', sent, lastHighlighted, started'))
  BY <1>1, <1>3, GrowOk
<1>5. OpPart'
  BY <1>1, <1>2, <1>3 DEF OpPart
<1>6. "normal" \notin FollowKinds
  BY DEF FollowKinds, PickerKinds, InsertKinds
<1> QED BY <1>1, <1>3, <1>4, <1>5, <1>6, Unpack, RestingStep

\* Clearing the marks, and with them the operation, keeps the invariant.
LEMMA CancelCheckedKeeps == OperationsInv /\ CancelChecked => OperationsInv'
<1> SUFFICES ASSUME OperationsInv, CancelChecked PROVE OperationsInv'
  OBVIOUS
<1>1. /\ resetOperations /\ checkedRevisions' = {}
      /\ UNCHANGED <<version, rows, cursor, reload, cmds, lastHighlighted, sent, seen, started>>
  BY DEF CancelChecked
<1> QED BY <1>1, Unpack, ResetStep

\* Layers pushed and popped.
LEMMA LayersTyped ==
  ASSUME OperationsInv
  PROVE  /\ layers # <<>> => Front(layers) \in Seq(Layer)
         /\ \A no \in Nat : Append(layers, PickerLayer(no)) \in Seq(Layer)
         /\ Append(layers, AceLayer) \in Seq(Layer)
<1>1. layers \in Seq(Layer) /\ rows \in Seq(Commits)
  BY Unpack
<1>2. ASSUME layers # <<>> PROVE Front(layers) \in Seq(Layer)
  <2>1. Len(layers) \in Nat /\ Len(layers) > 0
    BY <1>1, <1>2
  <2> QED BY <1>1, <2>1 DEF Front
<1>3. <<>> \in Seq(Commits) /\ 0 \in Nat
  OBVIOUS
<1>4. ASSUME NEW no \in Nat PROVE PickerLayer(no) \in Layer
  BY <1>3 DEF PickerLayer, Layer
<1>5. AceLayer \in Layer
  BY <1>1, <1>3 DEF AceLayer, Layer
<1> QED BY <1>1, <1>2, <1>4, <1>5

\* Steps that leave the operation: layers and messages only.
LEMMA LayerStep ==
  ASSUME OperationsInv, layers' \in Seq(Layer),
         UNCHANGED <<version, rows, cursor, checkedRevisions, reload, baseOp, lastHighlighted, sent, seen, started>>,
         BagOk(cmds', Good(baseOp, sent, lastHighlighted, started))
  PROVE  OperationsInv'
<1>1. OpPart'
  BY Unpack DEF OpPart
<1> QED BY <1>1, Unpack, RestingStep

\* An answer replaces what is chosen, or is lost.
LEMMA AnswerKeeps ==
  ASSUME OperationsInv, NEW m \in Good(baseOp, sent, lastHighlighted, started), NEW rest,
         BagOk(rest, Good(baseOp, sent, lastHighlighted, started)),
         Answer(m, rest)
  PROVE  OperationsInv'
<1> DEFINE p == [baseOp EXCEPT !.chosen = m.set, !.missed = ~IsLatest(baseOp, m)]
           q == [baseOp EXCEPT !.chosen = m.set]
           l == [baseOp EXCEPT !.missed = @ \/ (m.type = "selection answer" /\ IsLatest(baseOp, m))]
<1>1. /\ cmds' = rest
      /\ UNCHANGED <<version, rows, cursor, checkedRevisions, reload, layers, lastHighlighted, sent, seen, started>>
  BY DEF Answer
<1>2. OpOk(baseOp, started) /\ baseOp \in Op /\ baseOp.asked \in Nat /\ baseOp.no \in Nat
  BY Unpack DEF OpOk, Op
<1>3. m \in Message /\ m.set \in SUBSET Int /\ m.n \in Int /\ Reply(m, baseOp, started)
  BY DEF Good, Message
<1>4. ASSUME NEW o, baseOp' = o, OpOk(o, started), o.kind = baseOp.kind, o.to = baseOp.to, o.no = baseOp.no,
             o.asked = baseOp.asked, o.marks = baseOp.marks
      PROVE  OperationsInv'
  <2>1. Good(baseOp, sent, lastHighlighted, started) \subseteq Good(o, sent, lastHighlighted, started)
    BY <1>4, SameGood
  <2>2. BagOk(cmds', Good(baseOp', sent, lastHighlighted, started'))
    BY <1>1, <1>4, <2>1, GrowOk
  <2>3. OpPart'
    BY <1>1, <1>4, Unpack DEF OpPart
  <2> QED BY <1>1, <1>4, <2>2, <2>3, Unpack, RestingStep
<1>5. CASE m.type = "selection answer" /\ baseOp.kind = "abandon" /\ baseOp' = p
  <2>1. baseOp' = p
    BY <1>5
  <2>2. (~IsLatest(baseOp, m)) \in BOOLEAN
    OBVIOUS
  <2>3. /\ p \in Op /\ p.kind = baseOp.kind /\ p.to = baseOp.to /\ p.no = baseOp.no /\ p.from = baseOp.from
        /\ p.start = baseOp.start /\ p.mode = baseOp.mode /\ p.asked = baseOp.asked /\ p.marks = baseOp.marks
    BY <1>2, <1>3, <2>2 DEF Op
  <2> HIDE DEF p
  <2>5. OpOk(p, started)
    BY <1>2, <2>3 DEF OpOk, Complete, Marked
  <2> QED BY <1>4, <2>1, <2>3, <2>5
<1>6. CASE baseOp.kind = "absorb" /\ baseOp' = q
  <2>1. baseOp' = q
    BY <1>6
  <2>2. /\ q \in Op /\ q.kind = baseOp.kind /\ q.to = baseOp.to /\ q.no = baseOp.no /\ q.from = baseOp.from
        /\ q.start = baseOp.start /\ q.mode = baseOp.mode /\ q.asked = baseOp.asked /\ q.marks = baseOp.marks
    BY <1>2, <1>3 DEF Op
  <2> HIDE DEF q
  <2>3. OpOk(q, started)
    BY <1>2, <1>6, <2>2 DEF OpOk, Complete, Marked
  <2> QED BY <1>4, <2>1, <2>2, <2>3
<1>7. CASE baseOp' = baseOp
  BY <1>2, <1>4, <1>7
<1>8. CASE baseOp' = l
  <2>1. baseOp' = l
    BY <1>8
  <2>2. (baseOp.missed \/ (m.type = "selection answer" /\ IsLatest(baseOp, m))) \in BOOLEAN
    BY Zenon
  <2>3. /\ l \in Op /\ l.kind = baseOp.kind /\ l.to = baseOp.to /\ l.no = baseOp.no /\ l.from = baseOp.from
        /\ l.start = baseOp.start /\ l.mode = baseOp.mode /\ l.asked = baseOp.asked /\ l.marks = baseOp.marks
    BY <1>2, <2>2 DEF Op
  <2> HIDE DEF l
  <2>4. OpOk(l, started)
    BY <1>2, <2>3 DEF OpOk, Complete, Marked
  <2> QED BY <1>4, <2>1, <2>3, <2>4
<1>9. \/ m.type = "selection answer" /\ baseOp.kind = "abandon" /\ baseOp' = p
      \/ baseOp.kind = "absorb" /\ baseOp' = q
      \/ baseOp' = baseOp
      \/ baseOp' = l
  BY Zenon DEF Answer, addSelection, setTargets, lose
<1> QED BY <1>5, <1>6, <1>7, <1>8, <1>9

\* Opening the set_bookmark operation by its message keeps the invariant.
LEMMA SetBookmarkKeeps ==
  ASSUME OperationsInv, NEW m \in {x \in Message : x.at # NoCommit}, NEW rest,
         BagOk(rest, Good(baseOp, sent, lastHighlighted, started)), OpenSetBookmark(m, rest)
  PROVE  OperationsInv'
<1> DEFINE n == New("set_bookmark", {m.at}, m.at)
           p == [n EXCEPT !.no = baseOp.no]
<1>1. /\ baseOp' = p /\ layers' = <<>> /\ started' = started + 1 /\ cmds' = rest
      /\ UNCHANGED <<version, rows, cursor, checkedRevisions, reload, lastHighlighted, sent, seen>>
  BY DEF OpenSetBookmark, setBaseOperation
<1>2. m.at \in Selected /\ m.at # NoCommit /\ {m.at} \in SUBSET Selected
  BY DEF Message
<1>3. started \in Nat /\ baseOp.no \in Nat /\ baseOp.no <= started
  BY Unpack DEF OpOk, Op
<1>4. "set_bookmark" \in Kinds /\ "set_bookmark" \notin FollowKinds
  BY DEF Kinds, FollowKinds, PickerKinds, InsertKinds, EditKinds
<1>5. /\ n \in Op /\ n.kind = "set_bookmark" /\ n.from = {m.at} /\ n.to = m.at /\ n.mode = "onto"
  <2> HIDE DEF n
  <2>1. \A from \in SUBSET Selected, c \in Selected :
          LET k == New("set_bookmark", from, c)
          IN  k \in Op /\ k.kind = "set_bookmark" /\ k.from = from /\ k.to = c /\ k.mode = "onto"
    BY <1>3, <1>4, NewTyped
  <2> QED BY <1>2, <2>1, Zenon DEF n
<1> HIDE DEF n
<1>6. /\ p \in Op /\ p.kind = "set_bookmark" /\ p.from = {m.at} /\ p.to = m.at /\ p.mode = "onto"
      /\ p.no = baseOp.no
  BY <1>3, <1>5 DEF Op
<1> HIDE DEF p
<1>7. p.no <= started + 1 /\ started + 1 \in Nat /\ started <= started + 1
  <2>1. p.no = baseOp.no /\ baseOp.no \in Nat /\ started \in Nat /\ baseOp.no <= started
    BY <1>3, <1>6, Zenon
  <2> QED BY <2>1
<1>8. OpOk(p, started + 1)
  BY <1>2, <1>6, <1>7 DEF OpOk, Complete, Marked
<1>9. OpPart'
  <2>1. <<>> \in Seq(Layer)
    BY EmptySeq, Zenon
  <2> QED BY <1>1, <1>7, <1>8, <2>1 DEF OpPart
<1>10. BagOk(cmds', Good(baseOp', sent, lastHighlighted, started'))
  <2>1. p.kind # "abandon"
    BY <1>6
  <2>2. Good(baseOp, sent, lastHighlighted, started) \subseteq Good(p, sent, lastHighlighted, started + 1)
    BY <1>3, <1>7, <2>1, NewOpGood
  <2> QED BY <1>1, <2>2, GrowOk
<1> QED BY <1>1, <1>4, <1>6, <1>9, <1>10, Unpack, RestingStep

\* Every message, at the front of its sequence.
LEMMA DeliverKeeps == OperationsInv /\ Deliver => OperationsInv'
<1> SUFFICES ASSUME OperationsInv, Deliver PROVE OperationsInv'
  OBVIOUS
<1> DEFINE G == Good(baseOp, sent, lastHighlighted, started)
<1>1. PICK sequence \in BagToSet(cmds) :
        LET m == Head(sequence)
            rest == Rest(sequence)
        IN  \/ m.type = "close" /\ CloseView(rest)
            \/ m.type = "selection changed" /\ SelectionChanged(m, rest)
            \/ m.type = "picker" /\ OpenTargetPicker(m, rest)
            \/ m.type = "ace" /\ StartAceJump(rest)
            \/ m.type = "target" /\ TargetSelected(rest)
            \/ m.type = "picker cancelled" /\ PickerCancelled(rest)
            \/ m.type \in {"selection answer", "targets"} /\ Answer(m, rest)
            \/ m.type = "set bookmark" /\ OpenSetBookmark(m, rest)
            \/ m.type = "refresh" /\ refresh(m, rest)
            \/ m.type \in {"ended", "move cancelled"} /\ Unheard(rest)
  BY DEF Deliver
<1> DEFINE m == Head(sequence)
           rest == Rest(sequence)
<1>2. m \in G /\ BagOk(rest, G)
  BY Unpack, RestOk
<1>3. m \in Message /\ m.no \in Nat /\ m.n \in Int /\ m.at \in Selected
  <2>1. m \in Message
    BY <1>2, Zenon DEF Good
  <2> HIDE DEF m
  <2> QED BY <2>1 DEF Message
<1>4. \/ m.type = "close" /\ CloseView(rest)
      \/ m.type = "selection changed" /\ SelectionChanged(m, rest)
      \/ m.type = "picker" /\ OpenTargetPicker(m, rest)
      \/ m.type = "ace" /\ StartAceJump(rest)
      \/ m.type = "target" /\ TargetSelected(rest)
      \/ m.type = "picker cancelled" /\ PickerCancelled(rest)
      \/ m.type \in {"selection answer", "targets"} /\ Answer(m, rest)
      \/ m.type = "set bookmark" /\ OpenSetBookmark(m, rest)
      \/ m.type = "refresh" /\ refresh(m, rest)
      \/ m.type \in {"ended", "move cancelled"} /\ Unheard(rest)
  BY <1>1, Zenon
<1> HIDE DEF m, rest
<1>5. <<>> \in Seq(Layer) /\ layers \in Seq(Layer)
  BY Unpack
<1>6. CASE CloseView(rest)
  <2>1. cmds' = rest /\ UNCHANGED <<version, rows, cursor, checkedRevisions, reload, lastHighlighted, sent, seen, started>>
    BY <1>6 DEF CloseView
  <2>2. CASE layers # <<>>
    <3>1. layers' = Front(layers) /\ UNCHANGED baseOp
      BY <1>6, <2>2 DEF CloseView, popLayer
    <3>2. layers' \in Seq(Layer)
      BY <2>2, <3>1, LayersTyped
    <3> QED BY <1>2, <2>1, <3>1, <3>2, LayerStep
  <2>3. CASE layers = <<>>
    <3>1. resetOperations
      BY <1>6, <2>3 DEF CloseView
    <3> QED BY <1>2, <2>1, <3>1, Unpack, ResetStep
  <2> QED BY <2>2, <2>3
<1>7. CASE m.type = "selection changed" /\ SelectionChanged(m, rest)
  <2>1. /\ baseOp' = setSelectedRevision(baseOp, m.at) /\ (seen' <=> m.n = sent) /\ seen' \in BOOLEAN /\ cmds' = rest
        /\ UNCHANGED <<version, rows, cursor, checkedRevisions, reload, layers, lastHighlighted, sent, started>>
    BY <1>7, Zenon DEF SelectionChanged
  <2>2. m.n = sent => m.at = lastHighlighted
    BY <1>2, <1>7 DEF Good, Notice
  <2>3. /\ OpOk(baseOp', started) /\ baseOp'.kind = baseOp.kind
        /\ baseOp.kind \in FollowKinds /\ m.at # NoCommit => baseOp'.to = m.at
        /\ G \subseteq Good(baseOp', sent, lastHighlighted, started)
    BY <1>3, <2>1, Unpack, SetSelectedOk
  <2>4. lastHighlighted = SelectedRevision
    BY Unpack DEF NoticePart
  <2>5. baseOp'.kind \in FollowKinds /\ seen' /\ SelectedRevision # NoCommit => baseOp'.to = SelectedRevision
    BY <2>1, <2>2, <2>3, <2>4, Zenon
  <2>6. OpPart'
    BY <1>5, <2>1, <2>3, Unpack DEF OpPart
  <2>7. BagOk(cmds', Good(baseOp', sent, lastHighlighted, started'))
    <3>1. BagOk(rest, Good(baseOp', sent, lastHighlighted, started))
      BY <1>2, <2>3, GrowOk
    <3> QED BY <2>1, <3>1
  <2> QED BY <2>1, <2>5, <2>6, <2>7, Unpack, RestingStep
<1>8. CASE OpenTargetPicker(m, rest)
  <2>1. layers' \in Seq(Layer)
    BY <1>3, <1>8, LayersTyped DEF OpenTargetPicker, pushLayer
  <2> QED BY <1>2, <1>8, <2>1, LayerStep DEF OpenTargetPicker
<1>9. CASE StartAceJump(rest)
  <2>1. layers' \in Seq(Layer)
    BY <1>9, LayersTyped DEF StartAceJump, pushLayer
  <2> QED BY <1>2, <1>9, <2>1, LayerStep DEF StartAceJump
<1>10. CASE TargetSelected(rest)
  <2> DEFINE out == targetSelected(baseOp)
  <2>1. /\ layers' = (IF layers = <<>> THEN <<>> ELSE Front(layers))
        /\ baseOp' = out.op /\ cmds' = Send(rest, out.send)
        /\ UNCHANGED <<version, rows, cursor, checkedRevisions, reload, lastHighlighted, sent, seen, started>>
    BY <1>10 DEF TargetSelected
  <2>2. OutcomeOk(baseOp, out, started)
    BY Unpack, TargetOk
  <2> HIDE DEF out
  <2>3. /\ OpOk(baseOp', started) /\ baseOp'.kind = baseOp.kind /\ baseOp'.to = baseOp.to
        /\ G \subseteq Good(baseOp', sent, lastHighlighted, started)
        /\ out.send \subseteq Seq(Good(baseOp', sent, lastHighlighted, started)) \ {<<>>}
    BY <2>1, <2>2 DEF OutcomeOk
  <2>4. BagOk(cmds', Good(baseOp', sent, lastHighlighted, started))
    <3>1. BagOk(rest, Good(baseOp', sent, lastHighlighted, started))
      BY <1>2, <2>3, GrowOk
    <3> QED BY <2>1, <2>3, <3>1, SendOk
  <2>5. layers' \in Seq(Layer)
    BY <1>5, <2>1, LayersTyped
  <2>6. OpPart'
    BY <2>1, <2>3, <2>5, Unpack DEF OpPart
  <2> QED BY <2>1, <2>3, <2>4, <2>6, Unpack, RestingStep
<1>11. CASE PickerCancelled(rest)
  <2>1. layers' \in Seq(Layer)
    BY <1>5, <1>11, LayersTyped DEF PickerCancelled
  <2> QED BY <1>2, <1>11, <2>1, LayerStep DEF PickerCancelled
<1>12. CASE m.type \in {"selection answer", "targets"} /\ Answer(m, rest)
  BY <1>2, <1>12, AnswerKeeps
<1>13. CASE m.type = "set bookmark" /\ OpenSetBookmark(m, rest)
  <2>1. m \in {x \in Message : x.at # NoCommit}
    BY <1>2, <1>13 DEF Good
  <2> QED BY <1>2, <1>13, <2>1, SetBookmarkKeeps
<1>14. CASE refresh(m, rest)
  <2>1. /\ checkedRevisions' \subseteq Commits /\ reload' = m.n /\ cmds' = rest
        /\ UNCHANGED <<version, rows, cursor, baseOp, layers, lastHighlighted, sent, seen, started>>
    BY <1>14, Unpack DEF refresh
  <2> QED BY <1>2, <1>3, <2>1, Unpack, SendingStep
<1>15. CASE Unheard(rest)
  BY <1>2, <1>5, <1>15, LayerStep DEF Unheard
<1> QED BY <1>4, <1>6, <1>7, <1>8, <1>9, <1>10, <1>11, <1>12, <1>13, <1>14, <1>15

-----------------------------------------------------------------------------
(* The theorems.                                                             *)

\* The invariant holds at the start.
LEMMA OperationsInit == Init => OperationsInv
<1> SUFFICES ASSUME Init PROVE OperationsInv
  OBVIOUS
<1>1. /\ version = 0 /\ rows \in Lists /\ cursor = 1 /\ checkedRevisions = {} /\ reload = NoLoad
      /\ baseOp = Default /\ layers = <<>> /\ cmds = EmptyBag
      /\ lastHighlighted = SelectedRevision /\ sent = 0 /\ (seen <=> TRUE) /\ seen \in BOOLEAN /\ started = 0
  BY Zenon DEF Init
<1>2. version \in 0 .. MaxVersion /\ sent \in 0 .. MaxMoves
  BY <1>1, CommitTypes
<1>3. rows \in Seq(Commits) /\ (rows # <<>> => 1 \in DOMAIN rows)
  BY <1>1, <1>2, ListsTyped
<1>4. ListPart
  BY <1>1, <1>2, <1>3 DEF ListPart, NoLoad
<1>5. NoticePart
  BY <1>1, <1>2, Zenon DEF NoticePart
<1>6. started \in Nat /\ OpOk(baseOp, started) /\ baseOp.kind = "normal"
  <2>1. started \in Nat
    BY <1>1
  <2> QED BY <1>1, <2>1, DefaultOk
<1>7. OpPart
  BY <1>1, <1>6 DEF OpPart
<1>8. BagPart
  BY <1>1 DEF BagPart, BagOk, EmptyBag, SetToBag, IsABag
<1>9. TargetFollowsCursor
  BY <1>6 DEF TargetFollowsCursor, FollowKinds, PickerKinds, InsertKinds
<1> QED BY <1>4, <1>5, <1>7, <1>8, <1>9 DEF OperationsInv

\* Every step keeps the invariant: one case per action of Next.
LEMMA OperationsStep == OperationsInv /\ [Next]_vars => OperationsInv'
<1> SUFFICES ASSUME OperationsInv, [Next]_vars PROVE OperationsInv'
  OBVIOUS
<1>1. CASE UNCHANGED vars
  <2>1. UNCHANGED <<version, rows, cursor, checkedRevisions, reload, baseOp, layers, cmds, lastHighlighted, sent, seen, started>>
    BY <1>1 DEF vars
  <2> QED BY <2>1, Unpack, LayerStep
<1>2. CASE Move
  BY <1>2, MoveKeeps
<1>3. CASE toggleCheckedRevision
  BY <1>3, ToggleCheckedKeeps
<1>4. CASE rangeSelect
  BY <1>4, RangeSelectKeeps
<1>5. ASSUME NEW kind \in Kinds, Start(kind) PROVE OperationsInv'
  BY <1>5, StartKeeps
<1>6. CASE startSquash
  BY <1>6, StartSquashKeeps
<1>7. CASE OperationKey
  BY <1>7, OperationKeyKeeps
<1>8. CASE CancelChecked
  BY <1>8, CancelCheckedKeeps
<1>9. CASE accept \/ TargetPickerCancel \/ AceCancel \/ AutoRefresh
  BY <1>9, PlainKeysKeep
<1>10. ASSUME NEW i \in 1 .. Cardinality(Changes), AceFound(i) PROVE OperationsInv'
  BY <1>10, AceFoundKeeps
<1>11. CASE Deliver
  BY <1>11, DeliverKeeps
<1>12. CASE updateGraphRows
  BY <1>12, ReloadKeeps
<1> QED BY <1>1, <1>2, <1>3, <1>4, <1>5, <1>6, <1>7, <1>8, <1>9, <1>10, <1>11, <1>12, Zenon DEF Next

\* OperationsInv is an invariant of the operations of the list.
LEMMA OperationsInvariant == Spec => []OperationsInv
BY OperationsInit, OperationsStep, PTL DEF Spec

\* The parts of the invariant give the types.
LEMMA InvMeansTypeOK == OperationsInv => TypeOK
<1> SUFFICES ASSUME OperationsInv PROVE TypeOK
  OBVIOUS
<1>1. /\ rows \in Seq(Commits) /\ checkedRevisions \subseteq Commits /\ layers \in Seq(Layer) /\ baseOp \in Op
      /\ IsABag(cmds) /\ (rows # <<>> => cursor \in DOMAIN rows)
  BY Unpack DEF ListPart, OpOk, BagOk
<1>2. sent \in 0 .. MaxMoves /\ seen \in BOOLEAN
  BY Unpack, Zenon DEF NoticePart
<1>3. baseOp.kind \in Kinds \cup {"normal"} /\ baseOp.to \in Commits \cup {NoCommit}
  BY <1>1 DEF Op, Selected
<1>4. \A i \in DOMAIN layers : layers[i].type \in {"picker", "ace"}
  <2>1. \A i \in DOMAIN layers : layers[i] \in Layer
    BY <1>1
  <2>2. \A layer \in Layer : layer.type \in {"picker", "ace"}
    BY DEF Layer
  <2> QED BY <2>1, <2>2, Zenon
<1> QED BY <1>1, <1>2, <1>3, <1>4, Zenon DEF TypeOK

\* An operation of the list always has a target and a source, and its target is the row under the cursor
\* once the notifications of the moves have come (setSelectedRevision of each operation), whatever is
\* reloaded, jumped to, opened or closed in between, in any order.
THEOREM TargetsAreAlwaysSound == Spec => []TargetsAreSound
<1>1. OperationsInv => NothingMissing
  BY Unpack DEF OpOk, Complete, NothingMissing
<1>2. OperationsInv => TargetsAreSound
  BY <1>1, InvMeansTypeOK, Zenon DEF TargetsAreSound, OperationsInv
<1> QED BY <1>2, OperationsInvariant, PTL

-----------------------------------------------------------------------------
(* What abandon has chosen: a second invariant, on top of the first.         *)

\* The sequences of a bag stay when others are sent.
LEMMA SendElements ==
  ASSUME NEW B, NEW S
  PROVE  BagToSet(Send(B, S)) = BagToSet(B) \cup S
BY DEF Send, SetToBag, BagToSet, (+)

\* They stay when another one is taken.
LEMMA RestElements ==
  ASSUME IsABag(cmds), NEW s \in BagToSet(cmds), NEW t \in BagToSet(cmds), t # s
  PROVE  t \in BagToSet(Rest(s))
<1> DEFINE U == SetToBag({s})
           R == cmds (-) U
<1>1. DOMAIN U = {s} /\ U[s] = 1
  BY DEF SetToBag
<1>2. t \in DOMAIN cmds /\ cmds[t] > 0
  BY DEF BagToSet, IsABag
<1> HIDE DEF U
<1>3. t \in DOMAIN R
  BY <1>1, <1>2 DEF (-)
<1> HIDE DEF R
<1>4. t \in BagToSet(R)
  BY <1>3 DEF BagToSet
<1>5. Rest(s) = IF Len(s) = 1 THEN R ELSE Send(R, {Tail(s)})
  BY DEF Rest, R, U
<1> QED BY <1>4, <1>5, SendElements

\* A notification leaves what is under way.
LEMMA NotifyElements ==
  ASSUME NEW bag, notifyHighlightChange(bag)
  PROVE  BagToSet(bag) \subseteq BagToSet(cmds')
<1> DEFINE m == [Msg("selection changed") EXCEPT !.n = sent + 1, !.at = SelectedRevision']
<1>1. cmds' = bag \/ cmds' = Send(bag, {<<m>>})
  BY DEF notifyHighlightChange
<1> HIDE DEF m
<1> QED BY <1>1, SendElements

\* The sequences under way that begin with an answer to an abandon.
Answers == {s \in BagToSet(cmds) : Head(s).type = "selection answer"}

\* An abandon that is left alone, with the answers under way.
LEMMA AbandonStays ==
  ASSUME AbandonsWhatIsMarked, Answers \subseteq BagToSet(cmds'), baseOp'.kind = baseOp.kind,
         baseOp.kind = "abandon" => /\ baseOp'.no = baseOp.no /\ baseOp'.asked = baseOp.asked
                                    /\ baseOp'.marks = baseOp.marks /\ baseOp'.chosen = baseOp.chosen
                                    /\ (baseOp'.missed <=> baseOp.missed)
  PROVE  AbandonsWhatIsMarked'
<1> SUFFICES ASSUME baseOp.kind = "abandon"
             PROVE  baseOp'.chosen = Resolve(baseOp'.marks) \/ AnswerUnderWay' \/ baseOp'.missed
  BY DEF AbandonsWhatIsMarked
<1>1. CASE AnswerUnderWay
  <2>1. PICK s \in BagToSet(cmds) : Head(s).type = "selection answer" /\ IsLatest(baseOp, Head(s))
    BY <1>1 DEF AnswerUnderWay
  <2>2. s \in BagToSet(cmds') /\ IsLatest(baseOp', Head(s))
    BY <2>1 DEF Answers, IsLatest
  <2> QED BY <2>1, <2>2 DEF AnswerUnderWay
<1>2. CASE ~AnswerUnderWay
  BY <1>2 DEF AbandonsWhatIsMarked
<1> QED BY <1>1, <1>2

\* An operation that follows the cursor keeps the rest of its fields.
LEMMA SetSelectedFields ==
  ASSUME NEW o \in Op, NEW c \in Selected
  PROVE  LET p == setSelectedRevision(o, c)
         IN  /\ p.kind = o.kind /\ p.no = o.no /\ p.asked = o.asked /\ p.marks = o.marks /\ p.chosen = o.chosen
             /\ (p.missed <=> o.missed)
<1> DEFINE p == [o EXCEPT !.to = c]
<1>1. /\ p.kind = o.kind /\ p.no = o.no /\ p.asked = o.asked /\ p.marks = o.marks /\ p.chosen = o.chosen
      /\ p.missed = o.missed
  BY DEF Op
<1> HIDE DEF p
<1>2. setSelectedRevision(o, c) = p \/ setSelectedRevision(o, c) = o
  BY DEF setSelectedRevision, p
<1> QED BY <1>1, <1>2

\* A toggle clears the choice or asks what the marks stand for.
LEMMA ToggleAsks ==
  ASSUME NEW o, NEW st, OpOk(o, st), o.kind = "abandon", NEW d \in BOOLEAN
  PROVE  LET out == refreshSelectedRevisionsCmd([o EXCEPT !.marks = toggle(@, o.to[1], d)])
         IN  \/ out.op.chosen = Resolve(out.op.marks)
             \/ \E s \in out.send : Head(s).type = "selection answer" /\ IsLatest(out.op, Head(s))
<1> DEFINE q == [o EXCEPT !.marks = toggle(@, o.to[1], d)]
           p == [q EXCEPT !.asked = @ + 1, !.missed = FALSE]
           e == [q EXCEPT !.chosen = {}, !.asked = @ + 1, !.missed = FALSE]
           m == [Msg("selection answer") EXCEPT !.no = q.no, !.n = q.asked + 1, !.set = Resolve(q.marks)]
           out == refreshSelectedRevisionsCmd(q)
<1>1. o \in Op
  BY DEF OpOk
<1>2. q = [kind |-> o.kind, no |-> o.no, from |-> o.from, to |-> o.to, mode |-> o.mode, start |-> o.start,
           marks |-> q.marks, chosen |-> o.chosen, asked |-> o.asked, missed |-> o.missed]
  BY <1>1 DEF Op
<1> HIDE DEF q
<1>3. e.chosen = {} /\ e.marks = q.marks
  BY <1>2
<1>4. p.no = q.no /\ p.asked = q.asked + 1
  BY <1>2
<1>5. m.type = "selection answer" /\ m.no = q.no /\ m.n = q.asked + 1
  BY DEF Msg
<1>6. out = IF q.marks = {} THEN Outcome(e, {}) ELSE Outcome(p, {<<m>>})
  BY DEF refreshSelectedRevisionsCmd
<1> HIDE DEF p, e, m, out
<1>7. CASE q.marks = {}
  <2>1. out.op = e
    BY <1>6, <1>7 DEF Outcome
  <2>2. Resolve({}) = {}
    BY DEF Resolve
  <2> QED BY <1>3, <1>7, <2>1, <2>2 DEF out, q
<1>8. CASE q.marks # {}
  <2>1. out.op = p /\ out.send = {<<m>>}
    BY <1>6, <1>8 DEF Outcome
  <2>2. Head(<<m>>) = m
    OBVIOUS
  <2>3. Head(<<m>>).type = "selection answer" /\ IsLatest(out.op, Head(<<m>>))
    BY <1>4, <1>5, <2>1, <2>2 DEF IsLatest
  <2> QED BY <2>1, <2>3 DEF out, q
<1> QED BY <1>7, <1>8

\* Keys of the operation keep what abandon has chosen.
LEMMA AbandonKey == OperationsInv /\ AbandonsWhatIsMarked /\ OperationKey => AbandonsWhatIsMarked'
<1> SUFFICES ASSUME OperationsInv, AbandonsWhatIsMarked, OperationKey PROVE AbandonsWhatIsMarked'
  OBVIOUS
<1>1. PICK out \in Intents(baseOp) : baseOp' = out.op /\ cmds' = Send(cmds, out.send)
  BY DEF OperationKey
<1>2. baseOp'.kind = baseOp.kind
  BY <1>1, Unpack, IntentsOk DEF OutcomeOk
<1>3. BagToSet(cmds') = BagToSet(cmds) \cup out.send
  BY <1>1, SendElements
<1>4. CASE baseOp.kind # "abandon"
  BY <1>2, <1>4 DEF AbandonsWhatIsMarked
<1>5. CASE baseOp.kind = "abandon"
  <2>1. out \in abandonIntents(baseOp)
    BY <1>5 DEF Intents
  <2>2. \/ out \in {AceJumpKey(baseOp), CancelKey(baseOp), Outcome(baseOp, abandonApply(baseOp))}
        \/ \E d \in BOOLEAN : out = refreshSelectedRevisionsCmd([baseOp EXCEPT !.marks = toggle(@, baseOp.to[1], d)])
    BY <2>1 DEF abandonIntents
  <2>3. CASE out \in {AceJumpKey(baseOp), CancelKey(baseOp), Outcome(baseOp, abandonApply(baseOp))}
    <3>1. baseOp' = baseOp
      BY <1>1, <2>3 DEF AceJumpKey, CancelKey, Outcome
    <3> QED BY <1>3, <3>1, AbandonStays DEF Answers
  <2>4. CASE \E d \in BOOLEAN : out = refreshSelectedRevisionsCmd([baseOp EXCEPT !.marks = toggle(@, baseOp.to[1], d)])
    <3>1. \/ out.op.chosen = Resolve(out.op.marks)
          \/ \E s \in out.send : Head(s).type = "selection answer" /\ IsLatest(out.op, Head(s))
      BY <1>5, <2>4, Unpack, ToggleAsks
    <3>2. baseOp'.chosen = Resolve(baseOp'.marks) \/ AnswerUnderWay'
      BY <1>1, <1>3, <3>1 DEF AnswerUnderWay
    <3> QED BY <3>2 DEF AbandonsWhatIsMarked
  <2> QED BY <2>2, <2>3, <2>4
<1> QED BY <1>4, <1>5

\* An answer sets the choice, or is missed.
LEMMA AbandonAnswer ==
  ASSUME OperationsInv, AbandonsWhatIsMarked, NEW sequence \in BagToSet(cmds),
         Head(sequence).type \in {"selection answer", "targets"}, Answer(Head(sequence), Rest(sequence))
  PROVE  AbandonsWhatIsMarked'
<1> DEFINE m == Head(sequence)
           p == [baseOp EXCEPT !.chosen = m.set, !.missed = ~IsLatest(baseOp, m)]
           q == [baseOp EXCEPT !.chosen = m.set]
           l == [baseOp EXCEPT !.missed = @ \/ (m.type = "selection answer" /\ IsLatest(baseOp, m))]
           IsAnswer == m.type = "selection answer"
           Latest == IsLatest(baseOp, m)
<1>1. baseOp \in Op /\ BagOk(cmds, Good(baseOp, sent, lastHighlighted, started)) /\ IsABag(cmds)
  BY Unpack DEF OpOk, BagOk
<1>2. Reply(m, baseOp, started)
  <2>1. m \in Good(baseOp, sent, lastHighlighted, started)
    BY <1>1, RestOk
  <2> QED BY <2>1, Zenon DEF Good
<1>3. cmds' = Rest(sequence) /\ m.type \in {"selection answer", "targets"}
  BY DEF Answer
<1>4. \/ IsAnswer /\ baseOp.kind = "abandon" /\ baseOp' = p
      \/ baseOp.kind # "abandon" /\ (baseOp' = q \/ baseOp' = baseOp)
      \/ ~IsAnswer /\ baseOp' = baseOp
      \/ baseOp' = l
  <2>1. baseOp' \in {lose(baseOp, m), IF IsAnswer THEN addSelection(baseOp, m) ELSE setTargets(baseOp, m)}
    BY Zenon DEF Answer
  <2>2. baseOp' = lose(baseOp, m) => baseOp' = l
    BY Zenon DEF lose
  <2>3. CASE IsAnswer /\ baseOp' = addSelection(baseOp, m)
    BY <2>3, Zenon DEF addSelection
  <2>4. CASE ~IsAnswer /\ baseOp' = setTargets(baseOp, m)
    BY <2>4 DEF setTargets
  <2> QED BY <2>1, <2>2, <2>3, <2>4
<1> HIDE DEF m
<1>5. /\ p.kind = baseOp.kind /\ p.marks = baseOp.marks /\ p.chosen = m.set /\ (p.missed <=> ~Latest)
      /\ q.kind = baseOp.kind
      /\ l.kind = baseOp.kind /\ l.no = baseOp.no /\ l.asked = baseOp.asked /\ l.marks = baseOp.marks
      /\ l.chosen = baseOp.chosen /\ (l.missed <=> (baseOp.missed \/ (IsAnswer /\ Latest)))
  BY <1>1 DEF Op
<1> HIDE DEF p, q, l
\* The other answers are still to come.
<1>6. ASSUME ~(IsAnswer /\ Latest), AnswerUnderWay, baseOp'.no = baseOp.no, baseOp'.asked = baseOp.asked
      PROVE  AnswerUnderWay'
  <2>1. PICK s \in BagToSet(cmds) : Head(s).type = "selection answer" /\ IsLatest(baseOp, Head(s))
    BY <1>6 DEF AnswerUnderWay
  <2>2. s # sequence
    BY <1>6, <2>1 DEF m
  <2>3. s \in BagToSet(cmds')
    BY <1>1, <1>3, <2>2, RestElements
  <2> QED BY <1>6, <2>1, <2>3 DEF AnswerUnderWay, IsLatest
<1>7. CASE baseOp.kind # "abandon"
  BY <1>4, <1>5, <1>7 DEF AbandonsWhatIsMarked
<1>8. CASE baseOp.kind = "abandon"
  <2>1. CASE IsAnswer /\ baseOp' = p
    <3>1. Latest => m.set = Resolve(baseOp.marks)
      BY <1>2, <1>8, <2>1 DEF Reply, IsLatest
    <3> QED BY <1>5, <2>1, <3>1 DEF AbandonsWhatIsMarked
  <2>2. CASE ~IsAnswer /\ baseOp' = baseOp
    BY <1>6, <1>8, <2>2 DEF AbandonsWhatIsMarked
  <2>3. CASE baseOp' = l
    <3>1. CASE IsAnswer /\ Latest
      BY <1>5, <2>3, <3>1 DEF AbandonsWhatIsMarked
    <3>2. CASE ~(IsAnswer /\ Latest)
      BY <1>5, <1>6, <1>8, <2>3, <3>2 DEF AbandonsWhatIsMarked
    <3> QED BY <3>1, <3>2
  <2> QED BY <1>4, <1>8, <2>1, <2>2, <2>3
<1> QED BY <1>7, <1>8

\* Messages keep what abandon has chosen.
LEMMA AbandonDeliver == OperationsInv /\ AbandonsWhatIsMarked /\ Deliver => AbandonsWhatIsMarked'
<1> SUFFICES ASSUME OperationsInv, AbandonsWhatIsMarked, Deliver PROVE AbandonsWhatIsMarked'
  OBVIOUS
<1>1. PICK sequence \in BagToSet(cmds) :
        LET m == Head(sequence)
            rest == Rest(sequence)
        IN  \/ m.type = "close" /\ CloseView(rest)
            \/ m.type = "selection changed" /\ SelectionChanged(m, rest)
            \/ m.type = "picker" /\ OpenTargetPicker(m, rest)
            \/ m.type = "ace" /\ StartAceJump(rest)
            \/ m.type = "target" /\ TargetSelected(rest)
            \/ m.type = "picker cancelled" /\ PickerCancelled(rest)
            \/ m.type \in {"selection answer", "targets"} /\ Answer(m, rest)
            \/ m.type = "set bookmark" /\ OpenSetBookmark(m, rest)
            \/ m.type = "refresh" /\ refresh(m, rest)
            \/ m.type \in {"ended", "move cancelled"} /\ Unheard(rest)
  BY DEF Deliver
<1> DEFINE m == Head(sequence)
           rest == Rest(sequence)
<1>2. baseOp \in Op /\ BagOk(cmds, Good(baseOp, sent, lastHighlighted, started)) /\ IsABag(cmds)
  BY Unpack DEF OpOk, BagOk
<1>3. m \in Message
  BY <1>2, RestOk DEF Good
<1>4. m.type # "selection answer" => Answers \subseteq BagToSet(rest)
  BY <1>2, RestElements DEF Answers
<1>5. CASE m.type \in {"selection answer", "targets"} /\ Answer(m, rest)
  BY <1>5, AbandonAnswer
<1>6. ASSUME m.type # "selection answer", BagToSet(rest) \subseteq BagToSet(cmds'), baseOp' = baseOp
      PROVE  AbandonsWhatIsMarked'
  BY <1>4, <1>6, AbandonStays
<1> HIDE DEF m, rest
<1>7. CASE m.type = "close" /\ CloseView(rest)
  <2>1. (baseOp' = baseOp /\ cmds' = rest) \/ baseOp' = Default
    BY <1>7 DEF CloseView, resetOperations
  <2>2. Default.kind # "abandon"
    BY DEF Default
  <2> QED BY <1>6, <1>7, <2>1, <2>2 DEF AbandonsWhatIsMarked
<1>8. CASE m.type = "selection changed" /\ SelectionChanged(m, rest)
  <2>1. baseOp' = setSelectedRevision(baseOp, m.at) /\ cmds' = rest
    BY <1>8 DEF SelectionChanged
  <2>2. m.at \in Selected
    BY <1>3 DEF Message
  <2>3. Answers \subseteq BagToSet(cmds')
    BY <1>4, <1>8, <2>1
  <2>4. /\ baseOp'.kind = baseOp.kind /\ baseOp'.no = baseOp.no /\ baseOp'.asked = baseOp.asked
        /\ baseOp'.marks = baseOp.marks /\ baseOp'.chosen = baseOp.chosen /\ (baseOp'.missed <=> baseOp.missed)
    BY <1>2, <2>1, <2>2, SetSelectedFields
  <2> QED BY <2>3, <2>4, AbandonStays
<1>9. CASE m.type = "target" /\ TargetSelected(rest)
  <2> DEFINE out == targetSelected(baseOp)
  <2>1. baseOp' = out.op /\ cmds' = Send(rest, out.send)
    BY <1>9 DEF TargetSelected
  <2>2. baseOp'.kind = baseOp.kind
    BY <2>1, Unpack, TargetOk DEF OutcomeOk
  <2>3. baseOp.kind = "abandon" => baseOp' = baseOp
    BY <2>1 DEF targetSelected, Outcome
  <2> HIDE DEF out
  <2>4. BagToSet(rest) \subseteq BagToSet(cmds')
    BY <2>1, SendElements
  <2> QED BY <1>6, <1>9, <2>2, <2>3, <2>4 DEF AbandonsWhatIsMarked
<1>10. CASE m.type = "set bookmark" /\ OpenSetBookmark(m, rest)
  <2>1. baseOp' = [New("set_bookmark", {m.at}, m.at) EXCEPT !.no = baseOp.no]
    BY <1>10 DEF OpenSetBookmark, setBaseOperation
  <2>2. baseOp'.kind = "set_bookmark"
    BY <2>1 DEF New, Default
  <2> QED BY <2>2 DEF AbandonsWhatIsMarked
<1>11. CASE \/ m.type = "picker" /\ OpenTargetPicker(m, rest)
            \/ m.type = "ace" /\ StartAceJump(rest)
            \/ m.type = "picker cancelled" /\ PickerCancelled(rest)
            \/ m.type = "refresh" /\ refresh(m, rest)
            \/ m.type \in {"ended", "move cancelled"} /\ Unheard(rest)
  <2>1. baseOp' = baseOp /\ cmds' = rest /\ m.type # "selection answer"
    BY <1>11 DEF OpenTargetPicker, StartAceJump, PickerCancelled, refresh, Unheard
  <2> QED BY <1>6, <2>1
<1>12. \/ m.type = "close" /\ CloseView(rest)
       \/ m.type = "selection changed" /\ SelectionChanged(m, rest)
       \/ m.type = "picker" /\ OpenTargetPicker(m, rest)
       \/ m.type = "ace" /\ StartAceJump(rest)
       \/ m.type = "target" /\ TargetSelected(rest)
       \/ m.type = "picker cancelled" /\ PickerCancelled(rest)
       \/ m.type \in {"selection answer", "targets"} /\ Answer(m, rest)
       \/ m.type = "set bookmark" /\ OpenSetBookmark(m, rest)
       \/ m.type = "refresh" /\ refresh(m, rest)
       \/ m.type \in {"ended", "move cancelled"} /\ Unheard(rest)
  BY <1>1, Zenon DEF m, rest
<1> QED BY <1>5, <1>7, <1>8, <1>9, <1>10, <1>11, <1>12

\* Every step keeps what abandon has chosen.
LEMMA AbandonStep == OperationsInv /\ AbandonsWhatIsMarked /\ [Next]_vars => AbandonsWhatIsMarked'
<1> SUFFICES ASSUME OperationsInv, AbandonsWhatIsMarked, [Next]_vars PROVE AbandonsWhatIsMarked'
  OBVIOUS
\* Steps that leave the operation and what is under way.
<1>1. ASSUME baseOp' = baseOp, BagToSet(cmds) \subseteq BagToSet(cmds') PROVE AbandonsWhatIsMarked'
  BY <1>1, AbandonStays DEF Answers
<1>2. CASE UNCHANGED vars \/ toggleCheckedRevision
  BY <1>1, <1>2 DEF vars, toggleCheckedRevision
<1>3. CASE Move \/ rangeSelect
  BY <1>1, <1>3, NotifyElements DEF Move, rangeSelect
<1>4. ASSUME NEW i \in 1 .. Cardinality(Changes), AceFound(i) PROVE AbandonsWhatIsMarked'
  <2>1. baseOp' = baseOp /\ notifyHighlightChange(Send(cmds, {<<Msg("close")>>}))
    BY <1>4 DEF AceFound
  <2>2. BagToSet(cmds) \subseteq BagToSet(cmds')
    BY <2>1, NotifyElements, SendElements
  <2> QED BY <1>1, <2>1, <2>2
<1>5. CASE accept \/ TargetPickerCancel \/ AceCancel \/ AutoRefresh
  <2>1. baseOp' = baseOp /\ \E S : cmds' = Send(cmds, S)
    BY <1>5, Zenon DEF accept, TargetPickerCancel, AceCancel, AutoRefresh
  <2> QED BY <1>1, <2>1, SendElements
<1>6. ASSUME NEW kind \in Kinds, Start(kind) PROVE AbandonsWhatIsMarked'
  BY <1>6, StartedOk DEF AbandonsWhatIsMarked
<1>7. CASE startSquash
  <2>1. baseOp' = New("squash", SelectedRevisions, rows[jumpToParent])
    BY <1>7 DEF startSquash, setBaseOperation
  <2>2. baseOp'.kind = "squash"
    BY <2>1 DEF New, Default
  <2> QED BY <2>2 DEF AbandonsWhatIsMarked
<1>8. CASE CancelChecked
  BY <1>8 DEF CancelChecked, resetOperations, Default, AbandonsWhatIsMarked
<1>9. CASE updateGraphRows
  <2>1. notifyHighlightChange(cmds) /\ operationSelectionChanged
    BY <1>9 DEF updateGraphRows
  <2>2. baseOp \in Op
    BY Unpack DEF OpOk
  <2>3. baseOp' = baseOp \/ \E c \in Selected : baseOp' = setSelectedRevision(baseOp, c)
    <3>1. ListPart'
      BY OperationsStep DEF OperationsInv
    <3>2. SelectedRevision' \in Selected
      BY <3>1 DEF ListPart, SelectedRevision, Selected
    <3> QED BY <2>1, <3>2 DEF operationSelectionChanged
  <2>4. /\ baseOp'.kind = baseOp.kind /\ baseOp'.no = baseOp.no /\ baseOp'.asked = baseOp.asked
        /\ baseOp'.marks = baseOp.marks /\ baseOp'.chosen = baseOp.chosen /\ (baseOp'.missed <=> baseOp.missed)
    BY <2>2, <2>3, SetSelectedFields
  <2>5. Answers \subseteq BagToSet(cmds')
    BY <2>1, NotifyElements DEF Answers
  <2> QED BY <2>4, <2>5, AbandonStays
<1> QED BY <1>2, <1>3, <1>4, <1>5, <1>6, <1>7, <1>8, <1>9, AbandonKey, AbandonDeliver, Zenon DEF Next

\* What abandon would act on is what its markers say (refreshSelectedRevisionsCmd of abandon), or the
\* answer to its last query is still to come, or that answer was lost or another one handled in its
\* place or after it: nothing else parts the two, for any repository, any number of abandons, queries and
\* commands under way, and any order of messages.
THEOREM AbandonAlwaysResolved == Spec => []AbandonsWhatIsMarked
<1>1. Init => AbandonsWhatIsMarked
  BY DEF Init, Default, AbandonsWhatIsMarked
<1>2. OperationsInv /\ OperationsInv' /\ AbandonsWhatIsMarked /\ [Next]_vars => AbandonsWhatIsMarked'
  BY AbandonStep
<1> QED BY <1>1, <1>2, OperationsInvariant, PTL DEF Spec
=============================================================================
