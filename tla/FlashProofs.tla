----------------------------- MODULE FlashProofs -----------------------------
(***************************************************************************)
(* That a command is shown as running while it runs, that the spinner then *)
(* turns, that the history keeps the newest commands, and that no message  *)
(* goes before its time, for any commands and any bounds.                  *)
(***************************************************************************)
EXTENDS Flash, SequenceTheorems, TLAPS

PendingTypes ==
  /\ phase \in [Commands -> Phases] /\ announcing \subseteq Commands
  /\ pendingCommands \subseteq Commands /\ DOMAIN pendingResults \subseteq Commands

\* A command that was not run has sent nothing.
NewIsQuiet == \A c \in Commands : phase[c] = "new" => c \notin announcing

PendingInv == PendingTypes /\ NewIsQuiet /\ ShownWhileItRuns

SpinnerInv ==
  /\ spinner \in Nat /\ IsABag(ticks) /\ DOMAIN ticks \subseteq Nat
  /\ SpinnerTurns

-----------------------------------------------------------------------------
(* What adding a member to a bag and taking one away do to its members.      *)

\* Adding a member x to a bag of numbers gives a bag with x and what was there.
LEMMA AddToBag ==
  ASSUME NEW B, IsABag(B), DOMAIN B \subseteq Nat, NEW x \in Nat
  PROVE  /\ IsABag(B (+) SetToBag({x}))
         /\ DOMAIN (B (+) SetToBag({x})) = DOMAIN B \cup {x}
<1>1. DOMAIN SetToBag({x}) = {x} /\ SetToBag({x})[x] = 1
  BY DEF SetToBag
<1>2. DOMAIN (B (+) SetToBag({x})) = DOMAIN B \cup {x}
  BY <1>1 DEF (+)
<1>3. ASSUME NEW e \in DOMAIN B \cup {x}
      PROVE  (B (+) SetToBag({x}))[e] \in {n \in Nat : n > 0}
  <2>1. (B (+) SetToBag({x}))[e] = (IF e \in DOMAIN B THEN B[e] ELSE 0)
                                   + (IF e \in {x} THEN SetToBag({x})[e] ELSE 0)
    BY <1>1, <1>3 DEF (+)
  <2>2. e \in DOMAIN B => B[e] \in Nat /\ B[e] > 0
    BY DEF IsABag
  <2> QED BY <2>1, <2>2, <1>1
<1> QED BY <1>2, <1>3 DEF IsABag, (+)

\* Taking a member t away gives a bag that still has all the other members.
LEMMA TakeFromBag ==
  ASSUME NEW B, IsABag(B), DOMAIN B \subseteq Nat, NEW t \in Nat
  PROVE  /\ IsABag(B (-) SetToBag({t}))
         /\ DOMAIN (B (-) SetToBag({t})) \subseteq Nat
         /\ DOMAIN B \ {t} \subseteq DOMAIN (B (-) SetToBag({t}))
<1> DEFINE C == [e \in DOMAIN B |-> IF e \in DOMAIN SetToBag({t}) THEN B[e] - SetToBag({t})[e] ELSE B[e]]
           D == {d \in DOMAIN C : C[d] > 0}
<1>1. DOMAIN SetToBag({t}) = {t} /\ SetToBag({t})[t] = 1
  BY DEF SetToBag
<1>2. B (-) SetToBag({t}) = [e \in D |-> C[e]]
  BY DEF (-)
<1>3. ASSUME NEW e \in DOMAIN B
      PROVE  /\ B[e] \in Nat /\ B[e] > 0
             /\ C[e] = IF e = t THEN B[e] - 1 ELSE B[e]
  BY <1>1, <1>3 DEF IsABag
<1>4. \A e \in D : e \in DOMAIN B /\ C[e] \in {n \in Nat : n > 0}
  BY <1>3
<1>5. DOMAIN B \ {t} \subseteq D
  BY <1>3
<1> HIDE DEF C, D
<1> QED BY <1>2, <1>4, <1>5 DEF IsABag

-----------------------------------------------------------------------------
(* Commands: what is shown follows from where the two messages are.          *)

\* Every step keeps what is known of the two messages of each command
\* (flash.go Update, CommandRunningMsg and CommandCompletedMsg).
LEMMA PendingStep == PendingInv /\ [Next]_vars => PendingInv'
<1> SUFFICES ASSUME PendingInv, [Next]_vars PROVE PendingInv'
  OBVIOUS
<1> USE DEF PendingInv, PendingTypes, NewIsQuiet, ShownWhileItRuns, Phases
<1>1. CASE UNCHANGED <<commandVars, pendingVars>>
  BY <1>1 DEF commandVars, pendingVars
<1>2. ASSUME NEW c \in Commands, RunCommand(c) PROVE PendingInv'
  BY <1>2 DEF RunCommand, pendingVars
<1>3. ASSUME NEW c \in Commands, CommandEnds(c) PROVE PendingInv'
  BY <1>3 DEF CommandEnds, pendingVars
<1>4. ASSUME NEW c \in Commands, CommandRunning(c) PROVE PendingInv'
  <2>1. phase' = phase /\ c \in announcing /\ announcing' = announcing \ {c}
    BY <1>4 DEF CommandRunning
  <2>2. CASE c \in DOMAIN pendingResults
    <3>1. DOMAIN pendingResults' = DOMAIN pendingResults \ {c} /\ pendingCommands' = pendingCommands
      BY <1>4, <2>2 DEF CommandRunning
    <3> QED BY <2>1, <2>2, <3>1
  <2>3. CASE c \notin DOMAIN pendingResults
    <3>1. pendingResults' = pendingResults /\ pendingCommands' = pendingCommands \cup {c}
      BY <1>4, <2>3 DEF CommandRunning
    <3>2. phase[c] \in {"running", "exited"}
      BY <2>1, <2>3
    <3> QED BY <2>1, <2>3, <3>1, <3>2
  <2> QED BY <2>2, <2>3
<1>5. ASSUME NEW c \in Commands, NEW error \in BOOLEAN, CommandCompleted(c, error) PROVE PendingInv'
  <2>1. phase[c] = "exited" /\ phase' = [phase EXCEPT ![c] = "delivered"] /\ announcing' = announcing
    BY <1>5 DEF CommandCompleted
  <2>2. CASE c \in pendingCommands
    <3>1. pendingResults' = pendingResults /\ pendingCommands' = pendingCommands \ {c}
      BY <1>5, <2>2 DEF CommandCompleted
    <3> QED BY <2>1, <2>2, <3>1
  <2>3. CASE c \notin pendingCommands
    <3>1. DOMAIN pendingResults' = DOMAIN pendingResults \cup {c} /\ pendingCommands' = pendingCommands
      BY <1>5, <2>3 DEF CommandCompleted
    <3> QED BY <2>1, <2>3, <3>1
  <2> QED BY <2>2, <2>3
<1>6. CASE \/ \E error, sticky \in BOOLEAN : AddMessage(error, sticky)
           \/ \E id \in expiring : Expire(id)
           \/ DeleteOldest \/ \E t \in DOMAIN ticks : Tick(t)
           \/ NewHistory \/ CloseHistory \/ deleteSelected
           \/ \E i \in DOMAIN history.items : SelectItem(i)
  <2>1. UNCHANGED <<commandVars, pendingVars>>
    BY <1>6 DEF AddMessage, Expire, DeleteOldest, Tick, NewHistory, CloseHistory,
                deleteSelected, SelectItem, HistoryStep
  <2> QED BY <1>1, <2>1
<1>7. CASE UNCHANGED vars
  BY <1>1, <1>7 DEF vars
<1> HIDE DEF PendingInv
<1> QED BY <1>2, <1>3, <1>4, <1>5, <1>6, <1>7 DEF Next, CommandMsg

\* A command is shown as running exactly between its two messages, in whichever
\* order they come (flash.go Update).
THEOREM RunningIsTrue == Spec => []ShownWhileItRuns
<1>1. Init => PendingInv
  BY DEF Init, PendingInv, PendingTypes, NewIsQuiet, ShownWhileItRuns, Phases
<1>2. PendingInv => ShownWhileItRuns
  BY DEF PendingInv
<1> QED BY <1>1, <1>2, PendingStep, PTL DEF Spec

-----------------------------------------------------------------------------
(* The spinner.                                                              *)

\* Every step leaves the spinner a tick that it will take while a command is
\* shown as running (flash.go Update, the default case).
LEMMA SpinnerStep == SpinnerInv /\ [Next]_vars => SpinnerInv'
<1> SUFFICES ASSUME SpinnerInv, [Next]_vars PROVE SpinnerInv'
  OBVIOUS
<1> USE DEF SpinnerInv, SpinnerTurns
<1>1. CASE spinnerVars' = spinnerVars /\ pendingCommands' \subseteq pendingCommands
  BY <1>1 DEF spinnerVars
<1>2. ASSUME NEW c \in Commands, CommandRunning(c) PROVE SpinnerInv'
  <2>1. CASE c \in DOMAIN pendingResults
    BY <1>1, <1>2, <2>1 DEF CommandRunning, spinnerVars
  <2>2. CASE c \notin DOMAIN pendingResults
    <3>1. spinner' = spinner /\ ticks' = ticks (+) SetToBag({spinner})
      BY <1>2, <2>2 DEF CommandRunning, StartSpinner
    <3>2. IsABag(ticks') /\ DOMAIN ticks' = DOMAIN ticks \cup {spinner}
      BY <3>1, AddToBag
    <3> QED BY <3>1, <3>2
  <2> QED BY <2>1, <2>2
<1>3. ASSUME NEW t \in DOMAIN ticks, Tick(t) PROVE SpinnerInv'
  <2> DEFINE left == ticks (-) SetToBag({t})
  <2>1. IsABag(left) /\ DOMAIN left \subseteq Nat /\ DOMAIN ticks \ {t} \subseteq DOMAIN left
    BY <1>3, TakeFromBag
  <2>2. pendingCommands' = pendingCommands
    BY <1>3 DEF Tick, pendingVars
  <2>3. CASE pendingCommands # {} /\ t \in {0, spinner}
    <3>1. spinner' = spinner + 1 /\ ticks' = left (+) SetToBag({spinner + 1})
      BY <1>3, <2>3 DEF Tick
    <3>2. IsABag(ticks') /\ DOMAIN ticks' = DOMAIN left \cup {spinner + 1}
      <4>1. spinner + 1 \in Nat
        OBVIOUS
      <4>2. /\ IsABag(left (+) SetToBag({spinner + 1}))
            /\ DOMAIN (left (+) SetToBag({spinner + 1})) = DOMAIN left \cup {spinner + 1}
        <5> HIDE DEF left, SpinnerInv
        <5> QED BY <2>1, <4>1, AddToBag
      <4> QED BY <3>1, <4>2
    <3> HIDE DEF left
    <3> QED BY <2>1, <3>1, <3>2
  <2>4. CASE ~(pendingCommands # {} /\ t \in {0, spinner})
    <3>1. spinner' = spinner /\ ticks' = left
      BY <1>3, <2>4 DEF Tick
    <3> HIDE DEF left
    <3> QED BY <2>1, <2>2, <2>4, <3>1
  <2> QED BY <2>3, <2>4
<1>4. CASE \/ \E c \in Commands : RunCommand(c) \/ CommandEnds(c)
           \/ \E error, sticky \in BOOLEAN : AddMessage(error, sticky)
           \/ \E id \in expiring : Expire(id)
           \/ DeleteOldest \/ NewHistory \/ CloseHistory \/ deleteSelected
           \/ \E i \in DOMAIN history.items : SelectItem(i)
           \/ UNCHANGED vars
  <2>1. spinnerVars' = spinnerVars /\ pendingCommands' = pendingCommands
    BY <1>4 DEF RunCommand, CommandEnds, AddMessage, Expire, DeleteOldest, NewHistory,
                CloseHistory, deleteSelected, SelectItem, HistoryStep, pendingVars, vars
  <2> QED BY <1>1, <2>1
<1>5. ASSUME NEW c \in Commands, NEW error \in BOOLEAN, CommandCompleted(c, error) PROVE SpinnerInv'
  BY <1>1, <1>5 DEF CommandCompleted
<1> HIDE DEF SpinnerInv
<1> QED BY <1>2, <1>3, <1>4, <1>5 DEF Next, CommandMsg

\* While a command is shown as running, a tick that the spinner takes is under
\* way (flash.go Update, the default case, with the spinner of the library).
THEOREM SpinnerIsAlive == Spec => []SpinnerTurns
<1>1. Init => SpinnerInv
  BY DEF Init, SpinnerInv, SpinnerTurns, IsABag, EmptyBag, SetToBag
<1>2. SpinnerInv => SpinnerTurns
  BY DEF SpinnerInv
<1> QED BY <1>1, <1>2, SpinnerStep, PTL DEF Spec

-----------------------------------------------------------------------------
(* Lists of messages in the order of their numbers, and what the operations  *)
(* on them leave.                                                            *)

Sorted(list, last) ==
  /\ list \in Seq(flashMessage)
  /\ \A k \in DOMAIN list : list[k].id <= last
  /\ \A j, k \in DOMAIN list : j < k => list[j].id < list[k].id

\* Messages in a list have numbers.
LEMMA NumberedMessages ==
  ASSUME NEW list \in Seq(flashMessage)
  PROVE  \A k \in DOMAIN list : list[k] \in flashMessage /\ list[k].id \in Nat
<1>1. \A k \in DOMAIN list : list[k] \in flashMessage
  OBVIOUS
<1>2. \A m \in flashMessage : m.id \in Nat
  BY DEF flashMessage
<1> QED BY <1>1, <1>2

\* A message with a new number goes to the end.
LEMMA AppendSorted ==
  ASSUME NEW last \in Nat, NEW list, Sorted(list, last),
         NEW m \in flashMessage, m.id = last + 1
  PROVE  /\ Sorted(Append(list, m), last + 1)
         /\ Range(Append(list, m)) = Range(list) \cup {m}
         /\ Len(Append(list, m)) = Len(list) + 1
<1> DEFINE new == Append(list, m)
<1>1. /\ list \in Seq(flashMessage) /\ new \in Seq(flashMessage) /\ Len(list) \in Nat
      /\ Len(new) = Len(list) + 1 /\ DOMAIN list = 1 .. Len(list) /\ DOMAIN new = 1 .. Len(list) + 1
      /\ \A k \in 1 .. Len(list) : new[k] = list[k]
      /\ new[Len(list) + 1] = m
  BY DEF Sorted
<1>2. \A k \in DOMAIN list : list[k] \in flashMessage /\ list[k].id \in Nat
  BY <1>1, NumberedMessages
<1> HIDE DEF new
<1>3. ASSUME NEW k \in DOMAIN new PROVE new[k].id <= last + 1
  <2>1. CASE k \in DOMAIN list
    BY <1>1, <1>2, <2>1 DEF Sorted
  <2>2. CASE k = Len(list) + 1
    BY <1>1, <2>2
  <2> QED BY <1>1, <2>1, <2>2
<1>4. ASSUME NEW j \in DOMAIN new, NEW k \in DOMAIN new, j < k PROVE new[j].id < new[k].id
  <2>1. j \in DOMAIN list /\ new[j] = list[j]
    BY <1>1, <1>4
  <2>2. CASE k \in DOMAIN list
    BY <1>1, <1>4, <2>1, <2>2 DEF Sorted
  <2>3. CASE k = Len(list) + 1
    <3>1. list[j].id <= last /\ list[j].id \in Nat
      BY <1>2, <2>1 DEF Sorted
    <3> QED BY <1>1, <2>1, <2>3, <3>1
  <2> QED BY <1>1, <2>2, <2>3
<1>5. Range(new) = Range(list) \cup {m}
  BY <1>1 DEF Range
<1> QED BY <1>1, <1>3, <1>4, <1>5 DEF Sorted, new

\* What is left of the end of a list is newer than what is cut off.
LEMMA SuffixSorted ==
  ASSUME NEW last \in Nat, NEW list, Sorted(list, last), NEW i \in 1 .. Len(list)
  PROVE  LET new == SubSeq(list, i, Len(list))
         IN  /\ Sorted(new, last) /\ Len(new) = Len(list) - i + 1
             /\ Range(new) \subseteq Range(list) /\ list[Len(list)] \in Range(new)
             /\ \A e \in Range(list) : e \in Range(new) \/ \A f \in Range(new) : e.id < f.id
<1> DEFINE new == SubSeq(list, i, Len(list))
           n == Len(list) - i + 1
<1>1. /\ list \in Seq(flashMessage) /\ Len(list) \in Nat /\ DOMAIN list = 1 .. Len(list)
      /\ n \in Nat
  BY DEF Sorted
<1>2. /\ new \in Seq(flashMessage) /\ Len(new) = n /\ DOMAIN new = 1 .. n
      /\ \A k \in 1 .. n : new[k] = list[i + k - 1]
  BY <1>1
<1>3. \A k \in 1 .. n : i + k - 1 \in DOMAIN list
  BY <1>1
<1>4. Sorted(new, last)
  <2> HIDE DEF new
  <2>1. \A k \in DOMAIN new : new[k].id <= last
    BY <1>2, <1>3 DEF Sorted
  <2>2. ASSUME NEW j \in DOMAIN new, NEW k \in DOMAIN new, j < k PROVE new[j].id < new[k].id
    <3>1. i + j - 1 \in DOMAIN list /\ i + k - 1 \in DOMAIN list /\ i + j - 1 < i + k - 1
      BY <1>2, <1>3, <2>2
    <3> QED BY <1>2, <3>1 DEF Sorted
  <2> QED BY <1>2, <2>1, <2>2 DEF Sorted
<1>5. Range(new) = {list[k] : k \in i .. Len(list)}
  <2> HIDE DEF new
  <2>1. ASSUME NEW k \in i .. Len(list) PROVE list[k] \in Range(new)
    <3>1. k - i + 1 \in DOMAIN new /\ new[k - i + 1] = list[k]
      BY <1>1, <1>2
    <3> QED BY <3>1 DEF Range
  <2>2. ASSUME NEW k \in DOMAIN new PROVE \E j \in i .. Len(list) : new[k] = list[j]
    <3>1. i + k - 1 \in i .. Len(list)
      BY <1>1, <1>2
    <3> QED BY <1>2, <3>1
  <2> QED BY <2>1, <2>2 DEF Range
<1>6. Range(new) \subseteq Range(list) /\ list[Len(list)] \in Range(new)
  <2>1. i .. Len(list) \subseteq DOMAIN list /\ Len(list) \in i .. Len(list)
    BY <1>1
  <2>2. Range(list) = {list[k] : k \in DOMAIN list}
    BY DEF Range
  <2> HIDE DEF new
  <2> QED BY <1>5, <2>1, <2>2
<1>7. ASSUME NEW e \in Range(list), e \notin Range(new), NEW f \in Range(new) PROVE e.id < f.id
  <2>1. PICK k \in DOMAIN list : e = list[k]
    BY DEF Range
  <2>2. PICK j \in i .. Len(list) : f = list[j]
    BY <1>5
  <2>3. k < j /\ j \in DOMAIN list
    BY <1>1, <1>5, <1>7, <2>1, <2>2
  <2> QED BY <2>1, <2>2, <2>3 DEF Sorted
<1> HIDE DEF new
<1> QED BY <1>2, <1>4, <1>6, <1>7 DEF new

\* The message at a place goes, and no other.
LEMMA RemoveSorted ==
  ASSUME NEW last \in Nat, NEW list, Sorted(list, last), NEW at \in DOMAIN list
  PROVE  LET new == RemoveAt(list, at)
         IN  /\ Sorted(new, last) /\ Len(new) = Len(list) - 1
             /\ Range(new) = {e \in Range(list) : e.id # list[at].id}
<1> DEFINE new == RemoveAt(list, at)
<1>1. list \in Seq(flashMessage) /\ Len(list) \in Nat /\ DOMAIN list = 1 .. Len(list)
  BY DEF Sorted
<1>2. /\ new \in Seq(flashMessage) /\ Len(new) = Len(list) - 1 /\ DOMAIN new = 1 .. Len(list) - 1
      /\ \A k \in 1 .. Len(list) - 1 : new[k] = IF k < at THEN list[k] ELSE list[k + 1]
  <2> DEFINE before == SubSeq(list, 1, at - 1)
             after == SubSeq(list, at + 1, Len(list))
  <2>1. /\ before \in Seq(flashMessage) /\ Len(before) = at - 1
        /\ \A k \in 1 .. at - 1 : before[k] = list[k]
    BY <1>1
  <2>2. /\ after \in Seq(flashMessage) /\ Len(after) = Len(list) - at
        /\ \A k \in 1 .. Len(list) - at : after[k] = list[at + k]
    BY <1>1
  <2>3. new = before \o after
    BY DEF RemoveAt
  <2> HIDE DEF before, after, new
  <2>4. /\ new \in Seq(flashMessage) /\ Len(new) = Len(before) + Len(after)
        /\ \A k \in 1 .. Len(before) + Len(after) :
             new[k] = IF k <= Len(before) THEN before[k] ELSE after[k - Len(before)]
    BY <2>1, <2>2, <2>3, ConcatProperties
  <2>5. ASSUME NEW k \in 1 .. Len(list) - 1
        PROVE  new[k] = IF k < at THEN list[k] ELSE list[k + 1]
    <3>1. CASE k < at
      BY <1>1, <2>1, <2>2, <2>4, <3>1
    <3>2. CASE ~(k < at)
      <4>1. new[k] = after[k - Len(before)]
        BY <1>1, <2>1, <2>2, <2>4, <3>2
      <4>2. k - Len(before) \in 1 .. Len(list) - at /\ at + (k - Len(before)) = k + 1
        BY <1>1, <2>1, <3>2
      <4> QED BY <2>2, <3>2, <4>1, <4>2
    <3> QED BY <3>1, <3>2
  <2>6. Len(new) = Len(list) - 1
    BY <1>1, <2>1, <2>2, <2>4
  <2> QED BY <2>4, <2>5, <2>6
<1> HIDE DEF new
<1>3. Sorted(new, last)
  <2>1. \A k \in DOMAIN new : new[k].id <= last
    BY <1>1, <1>2 DEF Sorted
  <2>2. ASSUME NEW j \in DOMAIN new, NEW k \in DOMAIN new, j < k PROVE new[j].id < new[k].id
    <3> DEFINE p(x) == IF x < at THEN x ELSE x + 1
    <3>1. p(j) \in DOMAIN list /\ p(k) \in DOMAIN list /\ p(j) < p(k)
      BY <1>1, <1>2, <2>2
    <3>2. new[j] = list[p(j)] /\ new[k] = list[p(k)]
      BY <1>2
    <3> HIDE DEF p
    <3> QED BY <3>1, <3>2 DEF Sorted
  <2> QED BY <1>2, <2>1, <2>2 DEF Sorted
<1>4. \A k \in DOMAIN list : k # at => list[k].id # list[at].id
  <2>1. \A k \in DOMAIN list : list[k].id \in Nat
    BY <1>1, NumberedMessages
  <2> QED BY <1>1, <2>1 DEF Sorted
<1>5. ASSUME NEW k \in DOMAIN list, k # at PROVE list[k] \in Range(new)
  <2>1. CASE k < at
    BY <1>1, <1>2, <2>1 DEF Range
  <2>2. CASE k > at
    <3>1. k - 1 \in DOMAIN new /\ new[k - 1] = list[k]
      BY <1>1, <1>2, <2>2
    <3> QED BY <3>1 DEF Range
  <2> QED BY <1>1, <1>5, <2>1, <2>2
<1>6. ASSUME NEW k \in DOMAIN new PROVE \E j \in DOMAIN list : j # at /\ new[k] = list[j]
  <2>1. CASE k < at
    BY <1>1, <1>2, <2>1
  <2>2. CASE ~(k < at)
    BY <1>1, <1>2, <2>2
  <2> QED BY <2>1, <2>2
<1>7. Range(new) = {e \in Range(list) : e.id # list[at].id}
  BY <1>4, <1>5, <1>6 DEF Range
<1> QED BY <1>2, <1>3, <1>7 DEF new

\* The message with a number goes, and no other (flash.go removeLiveMessageByID).
LEMMA WithoutIdSorted ==
  ASSUME NEW last \in Nat, NEW list, Sorted(list, last), NEW id
  PROVE  /\ Sorted(WithoutId(list, id), last) /\ Len(WithoutId(list, id)) <= Len(list)
         /\ Range(WithoutId(list, id)) = {e \in Range(list) : e.id # id}
<1>1. list \in Seq(flashMessage) /\ Len(list) \in Nat
  BY DEF Sorted
<1>2. CASE id \in Ids(list)
  <2> DEFINE at == CHOOSE k \in DOMAIN list : list[k].id = id
  <2>1. at \in DOMAIN list /\ list[at].id = id
    BY <1>2 DEF Ids
  <2>2. WithoutId(list, id) = RemoveAt(list, at)
    BY <1>2 DEF WithoutId
  <2> HIDE DEF at
  <2> QED BY <1>1, <2>1, <2>2, RemoveSorted
<1>3. CASE id \notin Ids(list)
  BY <1>1, <1>3 DEF WithoutId, Ids, Range
<1> QED BY <1>2, <1>3

\* Without its first message a list has what was there, except that one.
LEMMA TailSorted ==
  ASSUME NEW last \in Nat, NEW list, Sorted(list, last), list # <<>>
  PROVE  Sorted(Tail(list), last) /\ Range(Tail(list)) \subseteq Range(list)
<1>1. /\ list \in Seq(flashMessage) /\ Len(list) \in Nat \ {0} /\ DOMAIN list = 1 .. Len(list)
      /\ Tail(list) \in Seq(flashMessage) /\ DOMAIN Tail(list) = 1 .. Len(list) - 1
      /\ \A k \in 1 .. Len(list) - 1 : Tail(list)[k] = list[k + 1]
  BY DEF Sorted
<1>2. \A k \in 1 .. Len(list) - 1 : k + 1 \in DOMAIN list
  BY <1>1
<1> QED BY <1>1, <1>2 DEF Sorted, Range

-----------------------------------------------------------------------------
(* The history and its dialog.                                               *)

\* The lists are in the order of the numbers given so far; a timer runs only for a
\* number that was given, and never for an error.
MessagePart ==
  /\ currentId \in Nat
  /\ expiring \subseteq Nat /\ \A id \in expiring : id <= currentId
  /\ history \in [open : BOOLEAN, items : Seq(flashMessage), selected : Nat]
  /\ Sorted(messages, currentId) /\ Sorted(messageHistory, currentId)
  /\ Sorted(history.items, currentId)
  /\ Len(messageHistory) <= HistoryLimit
  /\ \A e \in Range(messages) : e.command # NoCommand => ~Missing(e)
  /\ \A e \in Range(history.items) : ~Missing(e)
  /\ SelectionInRange
  /\ \A e \in Range(messages) : e.id \in expiring => ~e.error

\* An end that is kept says whether it is an error.
ResultPart == \A c \in DOMAIN pendingResults : c \in Commands /\ pendingResults[c] \in BOOLEAN

HistoryInv == MessagePart /\ ResultPart

\* Numbers of a list, by its messages.
LEMMA IdsOfRange == \A list : Ids(list) = {e.id : e \in Range(list)}
  BY DEF Ids, Range

\* A command that ends enters the history, and only older ones leave it
\* (flash.go addHistory).
LEMMA HistoryAdds ==
  ASSUME NEW m \in flashMessage, currentId \in Nat, m.id = currentId + 1,
         Sorted(messageHistory, currentId), Len(messageHistory) <= HistoryLimit
  PROVE  LET new == addHistory(m)
         IN  /\ Sorted(new, currentId + 1) /\ Len(new) <= HistoryLimit
             /\ Range(new) \subseteq Range(messageHistory) \cup {m}
             /\ m.command # NoCommand => m \in Range(new)
             /\ \A e \in Range(messageHistory) :
                  e \in Range(new) \/ \A f \in Range(new) : e.id < f.id
<1> DEFINE all == Append(messageHistory, m)
           over == Len(all) - HistoryLimit
           first == IF over > 0 THEN over + 1 ELSE 1
           new == addHistory(m)
<1>1. messageHistory \in Seq(flashMessage) /\ Len(messageHistory) \in Nat
  BY DEF Sorted
<1>2. /\ Sorted(all, currentId + 1) /\ Range(all) = Range(messageHistory) \cup {m}
      /\ Len(all) = Len(messageHistory) + 1 /\ all[Len(all)] = m
  <2>1. all[Len(messageHistory) + 1] = m /\ Len(all) = Len(messageHistory) + 1
    BY <1>1
  <2> QED BY <2>1, AppendSorted
<1>3. CASE m.command = NoCommand
  <2>1. new = messageHistory
    BY <1>3 DEF addHistory
  <2>2. Sorted(messageHistory, currentId + 1)
    <3>1. \A k \in DOMAIN messageHistory : messageHistory[k].id \in Nat
      BY <1>1, NumberedMessages
    <3> QED BY <3>1 DEF Sorted
  <2> HIDE DEF new
  <2> QED BY <1>3, <2>1, <2>2 DEF new
<1>4. CASE m.command # NoCommand
  <2>1. new = SubSeq(all, first, Len(all))
    BY <1>4 DEF addHistory
  <2>2. HistoryLimit \in Nat \ {0} /\ first \in 1 .. Len(all) /\ Len(all) - first + 1 <= HistoryLimit
    BY <1>1, <1>2, FlashBounds
  <2> HIDE DEF all, first, over, new
  <2>3. /\ Sorted(new, currentId + 1) /\ Len(new) = Len(all) - first + 1
        /\ Range(new) \subseteq Range(all) /\ all[Len(all)] \in Range(new)
        /\ \A e \in Range(all) : e \in Range(new) \/ \A f \in Range(new) : e.id < f.id
    <3>1. currentId + 1 \in Nat
      OBVIOUS
    <3> QED BY <1>2, <2>1, <2>2, <3>1, SuffixSorted
  <2> QED BY <1>2, <2>2, <2>3 DEF new
<1> QED BY <1>3, <1>4

\* A new message leaves the history with the newest commands, whatever the dialog
\* shows (flash.go AddWithCommand).
LEMMA AddStep ==
  ASSUME MessagePart, history' = history,
         NEW command \in Commands \cup {NoCommand}, NEW error \in BOOLEAN, NEW sticky \in BOOLEAN,
         AddWithCommand(command, error, sticky)
  PROVE  MessagePart'
<1> DEFINE m == [id |-> currentId + 1, command |-> command, error |-> error]
<1>1. m \in flashMessage /\ m.id = currentId + 1 /\ m.command = command /\ m.error = error
  BY DEF MessagePart, flashMessage
<1>2. /\ currentId' = currentId + 1 /\ messages' = Append(messages, m)
      /\ messageHistory' = addHistory(m) /\ expiring' \in ExpiryOf(m, sticky)
  BY DEF AddWithCommand
<1> HIDE DEF m
<1>3. currentId \in Nat /\ currentId' \in Nat
  BY <1>2 DEF MessagePart
<1>4. /\ Sorted(messages', currentId') /\ Range(messages') = Range(messages) \cup {m}
  BY <1>1, <1>2, AppendSorted DEF MessagePart
<1>5. /\ Sorted(messageHistory', currentId') /\ Len(messageHistory') <= HistoryLimit
      /\ Range(messageHistory') \subseteq Range(messageHistory) \cup {m}
      /\ m.command # NoCommand => m \in Range(messageHistory')
      /\ \A e \in Range(messageHistory) :
           e \in Range(messageHistory') \/ \A f \in Range(messageHistory') : e.id < f.id
  BY <1>1, <1>2, HistoryAdds DEF MessagePart
<1>6. Sorted(history'.items, currentId')
  <2>1. history.items \in Seq(flashMessage)
    BY DEF MessagePart, Sorted
  <2>2. \A k \in DOMAIN history.items : history.items[k].id \in Nat
    BY <2>1, NumberedMessages
  <2>3. Sorted(history.items, currentId)
    BY DEF MessagePart
  <2> QED BY <1>2, <1>3, <2>2, <2>3 DEF Sorted
<1>7. ASSUME NEW e, e.id \in Nat, e.id <= currentId, ~Missing(e) PROVE ~Missing(e)'
  <2> SUFFICES ASSUME NEW h \in Range(messageHistory'), h.id < e.id, e.id \notin Ids(messageHistory')
               PROVE  FALSE
    BY IdsOfRange DEF Missing
  <2>1. e.id \notin {f.id : f \in Range(messageHistory')}
    BY IdsOfRange
  <2>2. h # m
    BY <1>1, <1>3, <1>7
  <2>3. h \in Range(messageHistory)
    BY <1>5, <2>2
  <2>4. \A f \in Range(messageHistory') : f.id \in Nat
    <3>1. messageHistory' \in Seq(flashMessage)
      BY <1>5 DEF Sorted
    <3>2. \A k \in DOMAIN messageHistory' : messageHistory'[k].id \in Nat
      BY <3>1, NumberedMessages
    <3> QED BY <3>2 DEF Range
  <2>5. e.id \notin {f.id : f \in Range(messageHistory)}
    <3> SUFFICES ASSUME NEW f \in Range(messageHistory), e.id = f.id PROVE FALSE
      OBVIOUS
    <3>1. f.id < h.id
      BY <1>5, <2>1
    <3> QED BY <1>7, <2>4, <3>1
  <2> QED BY <1>7, <2>3, <2>5, IdsOfRange DEF Missing
<1>8. \A e \in Range(messages) : e.id \in Nat /\ e.id <= currentId
  <2>1. messages \in Seq(flashMessage)
    BY DEF MessagePart, Sorted
  <2>2. \A k \in DOMAIN messages : messages[k].id \in Nat
    BY <2>1, NumberedMessages
  <2> QED BY <2>2 DEF MessagePart, Sorted, Range
<1>9. \A e \in Range(history.items) : e.id \in Nat /\ e.id <= currentId
  <2>1. history.items \in Seq(flashMessage)
    BY DEF MessagePart, Sorted
  <2>2. \A k \in DOMAIN history.items : history.items[k].id \in Nat
    BY <2>1, NumberedMessages
  <2> QED BY <2>2 DEF MessagePart, Sorted, Range
<1>10. ASSUME NEW e \in Range(messages'), e.command # NoCommand PROVE ~Missing(e)'
  <2>1. CASE e \in Range(messages)
    BY <1>7, <1>8, <1>10, <2>1 DEF MessagePart
  <2>2. CASE e = m
    BY <1>5, <1>10, <2>2, IdsOfRange DEF Missing
  <2> QED BY <1>4, <2>1, <2>2
<1>11. \A e \in Range(history'.items) : ~Missing(e)'
  BY <1>7, <1>9 DEF MessagePart
<1>12. /\ expiring' \subseteq Nat /\ \A id \in expiring' : id <= currentId'
       /\ \A e \in Range(messages') : e.id \in expiring' => ~e.error
  <2>1. expiring \subseteq Nat /\ \A id \in expiring : id <= currentId
    BY DEF MessagePart
  <2>2. expiring' = expiring \/ (~m.error /\ expiring' = expiring \cup {m.id})
    BY <1>2 DEF ExpiryOf
  <2>3. ASSUME NEW e \in Range(messages'), e.id \in expiring' PROVE ~e.error
    <3>1. CASE e \in Range(messages)
      <4>1. e.id # m.id
        BY <1>1, <1>3, <1>8, <3>1
      <4> QED BY <2>2, <2>3, <3>1, <4>1 DEF MessagePart
    <3>2. CASE e = m
      <4>1. m.id \notin expiring
        BY <1>1, <1>3, <2>1
      <4> QED BY <2>2, <2>3, <3>2, <4>1
    <3> QED BY <1>4, <3>1, <3>2
  <2>4. ASSUME NEW id \in expiring' PROVE id \in Nat /\ id <= currentId'
    <3>1. CASE id \in expiring
      BY <1>2, <1>3, <2>1, <3>1
    <3>2. CASE id = m.id
      BY <1>1, <1>2, <1>3, <3>2
    <3> QED BY <2>2, <3>1, <3>2
  <2> QED BY <2>3, <2>4
<1>13. SelectionInRange' /\ history' \in [open : BOOLEAN, items : Seq(flashMessage), selected : Nat]
  BY DEF MessagePart, SelectionInRange
<1> QED BY <1>3, <1>4, <1>5, <1>6, <1>10, <1>11, <1>12, <1>13 DEF MessagePart

\* Fewer messages and fewer entries: nothing that is left becomes missing.
LEMMA RemovalKeepsNewest ==
  ASSUME NEW e, NEW id, ~Missing(e), e.id # id,
         Range(messageHistory') = {f \in Range(messageHistory) : f.id # id}
  PROVE  ~Missing(e)'
<1> SUFFICES ASSUME NEW h \in Ids(messageHistory'), h < e.id, e.id \notin Ids(messageHistory')
             PROVE  FALSE
  BY DEF Missing
<1>1. /\ Ids(messageHistory) = {f.id : f \in Range(messageHistory)}
      /\ Ids(messageHistory') = {f.id : f \in Range(messageHistory')}
  BY IdsOfRange
<1>2. h \in Ids(messageHistory) /\ e.id \notin Ids(messageHistory)
  BY <1>1
<1> QED BY <1>2 DEF Missing

\* Deleting an entry leaves the dialog with a selection, and the other entries
\* where they were (command_history.go deleteSelected).
LEMMA DeleteStep == MessagePart /\ deleteSelected => MessagePart'
<1> SUFFICES ASSUME MessagePart, deleteSelected PROVE MessagePart'
  OBVIOUS
<1> DEFINE at == history.selected
           id == history.items[at].id
           n == Len(history.items)
<1>1. /\ currentId \in Nat /\ currentId' = currentId /\ expiring' = expiring
      /\ Sorted(messages, currentId) /\ Sorted(messageHistory, currentId) /\ Sorted(history.items, currentId)
      /\ history \in [open : BOOLEAN, items : Seq(flashMessage), selected : Nat]
  BY DEF MessagePart, deleteSelected, HistoryStep
<1>2. n \in Nat /\ DOMAIN history.items = 1 .. n /\ at \in DOMAIN history.items
  BY <1>1 DEF MessagePart, deleteSelected, SelectionInRange
<1>3. /\ history' = [history EXCEPT !.items = RemoveAt(history.items, at),
                                    !.selected = IF at = n THEN at - 1 ELSE at]
      /\ messageHistory' = WithoutId(messageHistory, id) /\ messages' = WithoutId(messages, id)
  BY DEF deleteSelected
<1>4. /\ Sorted(RemoveAt(history.items, at), currentId) /\ Len(RemoveAt(history.items, at)) = n - 1
      /\ Range(RemoveAt(history.items, at)) = {e \in Range(history.items) : e.id # id}
  BY <1>1, <1>2, RemoveSorted
<1>5. /\ history'.items = RemoveAt(history.items, at)
      /\ history'.selected = IF at = n THEN at - 1 ELSE at
      /\ history'.open = history.open
  BY <1>1, <1>3
<1> HIDE DEF at, id, n
<1>6. RemoveAt(history.items, at) \in Seq(flashMessage)
  BY <1>4 DEF Sorted
<1>7. history' \in [open : BOOLEAN, items : Seq(flashMessage), selected : Nat]
  <2>1. (IF at = n THEN at - 1 ELSE at) \in Nat
    BY <1>2
  <2> DEFINE place == IF at = n THEN at - 1 ELSE at
             left == RemoveAt(history.items, at)
  <2> HIDE DEF place, left
  <2>2. history' = [history EXCEPT !.items = left, !.selected = place]
    BY <1>3 DEF place, left
  <2>3. place \in Nat /\ left \in Seq(flashMessage)
    BY <1>6, <2>1 DEF place, left
  <2> QED BY <1>1, <2>2, <2>3
<1>8. SelectionInRange'
  <2>1. CASE n = 1
    <3>1. history'.items = <<>> /\ history'.selected = 0
      BY <1>2, <1>4, <1>5, <1>6, <2>1
    <3> QED BY <3>1 DEF SelectionInRange
  <2>2. CASE n # 1
    <3>1. DOMAIN history'.items = 1 .. n - 1 /\ history'.items # <<>>
      BY <1>2, <1>4, <1>5, <1>6, <2>2
    <3>2. history'.selected \in 1 .. n - 1
      BY <1>2, <1>5, <2>2
    <3> QED BY <3>1, <3>2 DEF SelectionInRange
  <2> QED BY <2>1, <2>2
<1>9. /\ Sorted(messageHistory', currentId) /\ Len(messageHistory') <= Len(messageHistory)
      /\ Range(messageHistory') = {e \in Range(messageHistory) : e.id # id}
  BY <1>1, <1>3, WithoutIdSorted
<1>10. /\ Sorted(messages', currentId)
       /\ Range(messages') = {e \in Range(messages) : e.id # id}
  BY <1>1, <1>3, WithoutIdSorted
<1>11. Len(messageHistory') <= HistoryLimit
  <2>1. Len(messageHistory) \in Nat /\ Len(messageHistory') \in Nat /\ HistoryLimit \in Nat
    BY <1>1, <1>9, FlashBounds DEF Sorted
  <2> QED BY <1>9, <2>1 DEF MessagePart
<1>12. \A e \in Range(messages') : e.command # NoCommand => ~Missing(e)'
  BY <1>9, <1>10, RemovalKeepsNewest DEF MessagePart
<1>13. \A e \in Range(history'.items) : ~Missing(e)'
  BY <1>4, <1>5, <1>9, RemovalKeepsNewest DEF MessagePart
<1>14. \A e \in Range(messages') : e.id \in expiring' => ~e.error
  BY <1>1, <1>10 DEF MessagePart
<1>15. expiring' \subseteq Nat /\ \A i \in expiring' : i <= currentId'
  BY <1>1 DEF MessagePart
<1> QED BY <1>1, <1>4, <1>5, <1>7, <1>8, <1>9, <1>10, <1>11, <1>12, <1>13, <1>14, <1>15 DEF MessagePart

\* When only messages go, the rest of what is known stays.
LEMMA FewerMessages ==
  ASSUME MessagePart, messageHistory' = messageHistory, currentId' = currentId, history' = history,
         expiring' \subseteq expiring, Sorted(messages', currentId), Range(messages') \subseteq Range(messages)
  PROVE  MessagePart'
<1>1. \A e : Missing(e)' = Missing(e)
  BY DEF Missing
<1> QED BY <1>1 DEF MessagePart, SelectionInRange

\* Every step keeps the lists in order, the history with the newest commands, and
\* the dialog with a selection (flash.go, command_history.go).
LEMMA HistoryInvStep == HistoryInv /\ [Next]_vars => HistoryInv'
<1> SUFFICES ASSUME HistoryInv, [Next]_vars PROVE HistoryInv'
  OBVIOUS
<1>0. MessagePart /\ ResultPart
  BY DEF HistoryInv
<1>1. ASSUME UNCHANGED <<messageVars, history>> PROVE MessagePart'
  <2>1. \A e : Missing(e)' = Missing(e)
    BY <1>1 DEF Missing, messageVars
  <2> QED BY <1>0, <1>1, <2>1 DEF MessagePart, SelectionInRange, messageVars
<1>2. ASSUME UNCHANGED pendingVars PROVE ResultPart'
  BY <1>0, <1>2 DEF ResultPart, pendingVars
<1>3. ASSUME NEW c \in Commands, RunCommand(c) \/ CommandEnds(c) PROVE HistoryInv'
  BY <1>1, <1>2, <1>3 DEF RunCommand, CommandEnds, HistoryInv
<1>4. ASSUME NEW c \in Commands, CommandRunning(c) PROVE HistoryInv'
  <2>1. CASE c \in DOMAIN pendingResults
    <3>1. /\ AddWithCommand(c, pendingResults[c], FALSE) /\ history' = history
          /\ pendingResults' = [d \in DOMAIN pendingResults \ {c} |-> pendingResults[d]]
      BY <1>4, <2>1 DEF CommandRunning
    <3>2. pendingResults[c] \in BOOLEAN
      BY <1>0, <2>1 DEF ResultPart
    <3>3. MessagePart'
      BY <1>0, <3>1, <3>2, AddStep
    <3>4. ResultPart'
      BY <1>0, <3>1 DEF ResultPart
    <3> QED BY <3>3, <3>4 DEF HistoryInv
  <2>2. CASE c \notin DOMAIN pendingResults
    <3>1. UNCHANGED <<messageVars, history>> /\ pendingResults' = pendingResults
      BY <1>4, <2>2 DEF CommandRunning
    <3>2. ResultPart'
      BY <1>0, <3>1 DEF ResultPart
    <3> QED BY <1>1, <3>1, <3>2 DEF HistoryInv
  <2> QED BY <2>1, <2>2
<1>5. ASSUME NEW c \in Commands, NEW error \in BOOLEAN, CommandCompleted(c, error) PROVE HistoryInv'
  <2>1. CASE c \in pendingCommands
    <3>1. AddWithCommand(c, error, FALSE) /\ history' = history /\ pendingResults' = pendingResults
      BY <1>5, <2>1 DEF CommandCompleted
    <3>2. MessagePart'
      BY <1>0, <3>1, AddStep
    <3>3. ResultPart'
      BY <1>0, <3>1 DEF ResultPart
    <3> QED BY <3>2, <3>3 DEF HistoryInv
  <2>2. CASE c \notin pendingCommands
    <3>1. /\ UNCHANGED <<messageVars, history>>
          /\ pendingResults' = [d \in DOMAIN pendingResults \cup {c} |->
                                  IF d = c THEN error ELSE pendingResults[d]]
      BY <1>5, <2>2 DEF CommandCompleted
    <3>2. ResultPart'
      BY <1>0, <3>1 DEF ResultPart
    <3> QED BY <1>1, <3>1, <3>2 DEF HistoryInv
  <2> QED BY <2>1, <2>2
<1>6. ASSUME NEW error \in BOOLEAN, NEW sticky \in BOOLEAN, AddMessage(error, sticky) PROVE HistoryInv'
  <2>1. AddWithCommand(NoCommand, error, sticky) /\ history' = history /\ UNCHANGED pendingVars
    BY <1>6 DEF AddMessage
  <2>2. MessagePart'
    BY <1>0, <2>1, AddStep
  <2> QED BY <1>2, <2>1, <2>2 DEF HistoryInv
<1>7. ASSUME NEW id \in expiring, Expire(id) PROVE HistoryInv'
  <2>1. /\ messages' = WithoutId(messages, id) /\ expiring' \subseteq expiring /\ UNCHANGED pendingVars
        /\ messageHistory' = messageHistory /\ currentId' = currentId /\ history' = history
    BY <1>7 DEF Expire
  <2>2. Sorted(messages', currentId) /\ Range(messages') \subseteq Range(messages)
    BY <1>0, <2>1, WithoutIdSorted DEF MessagePart
  <2>3. MessagePart'
    BY <1>0, <2>1, <2>2, FewerMessages
  <2> QED BY <1>2, <2>1, <2>3 DEF HistoryInv
<1>8. ASSUME DeleteOldest PROVE HistoryInv'
  <2>1. /\ messages # <<>> /\ messages' = Tail(messages) /\ expiring' = expiring /\ UNCHANGED pendingVars
        /\ messageHistory' = messageHistory /\ currentId' = currentId /\ history' = history
    BY <1>8 DEF DeleteOldest
  <2>2. Sorted(messages', currentId) /\ Range(messages') \subseteq Range(messages)
    BY <1>0, <2>1, TailSorted DEF MessagePart
  <2>3. MessagePart'
    BY <1>0, <2>1, <2>2, FewerMessages
  <2> QED BY <1>2, <2>1, <2>3 DEF HistoryInv
<1>9. ASSUME NEW t \in DOMAIN ticks, Tick(t) PROVE HistoryInv'
  BY <1>1, <1>2, <1>9 DEF Tick, HistoryInv
<1>10. ASSUME NewHistory \/ CloseHistory \/ \E i \in DOMAIN history.items : SelectItem(i) PROVE HistoryInv'
  <2>1. /\ UNCHANGED pendingVars /\ currentId' = currentId /\ expiring' = expiring
        /\ messages' = messages /\ messageHistory' = messageHistory
    BY <1>10 DEF NewHistory, CloseHistory, SelectItem, HistoryStep
  <2>2. \A e : Missing(e)' = Missing(e)
    BY <2>1 DEF Missing
  <2>3. /\ history' \in [open : BOOLEAN, items : Seq(flashMessage), selected : Nat]
        /\ Sorted(history'.items, currentId) /\ SelectionInRange'
        /\ \A e \in Range(history'.items) : ~Missing(e)
    <3>1. CASE NewHistory
      <4>1. /\ history'.items = messageHistory /\ history'.selected = Len(messageHistory)
            /\ history' = [open |-> TRUE, items |-> messageHistory, selected |-> Len(messageHistory)]
        BY <3>1 DEF NewHistory
      <4>2. Sorted(messageHistory, currentId) /\ messageHistory \in Seq(flashMessage)
        BY <1>0 DEF MessagePart, Sorted
      <4>3. SelectionInRange'
        BY <4>1, <4>2 DEF SelectionInRange
      <4>4. \A e \in Range(messageHistory) : ~Missing(e)
        BY IdsOfRange DEF Missing
      <4> QED BY <4>1, <4>2, <4>3, <4>4
    <3>2. CASE CloseHistory
      <4>1. history' = [open |-> FALSE, items |-> <<>>, selected |-> 0]
        BY <3>2 DEF CloseHistory, Closed
      <4>2. Sorted(<<>>, currentId) /\ Range(<<>>) = {}
        BY DEF Sorted, Range
      <4> QED BY <4>1, <4>2 DEF SelectionInRange
    <3>3. CASE \E i \in DOMAIN history.items : SelectItem(i)
      <4>1. PICK i \in DOMAIN history.items : history' = [history EXCEPT !.selected = i]
        BY <3>3 DEF SelectItem
      <4>2. history \in [open : BOOLEAN, items : Seq(flashMessage), selected : Nat]
        BY <1>0 DEF MessagePart
      <4>3. history'.items = history.items /\ history'.selected = i /\ i \in Nat
        BY <4>1, <4>2
      <4>4. history' \in [open : BOOLEAN, items : Seq(flashMessage), selected : Nat]
        BY <4>1, <4>2, <4>3
      <4>5. SelectionInRange'
        BY <4>3 DEF SelectionInRange
      <4> QED BY <1>0, <4>3, <4>4, <4>5 DEF MessagePart
    <3> QED BY <1>10, <3>1, <3>2, <3>3
  <2>4. MessagePart'
    BY <1>0, <2>1, <2>2, <2>3 DEF MessagePart
  <2> QED BY <1>2, <2>1, <2>4 DEF HistoryInv
<1>11. ASSUME deleteSelected PROVE HistoryInv'
  <2>1. UNCHANGED pendingVars
    BY <1>11 DEF deleteSelected, HistoryStep
  <2> QED BY <1>0, <1>2, <1>11, <2>1, DeleteStep DEF HistoryInv
<1>12. CASE UNCHANGED vars
  BY <1>1, <1>2, <1>12 DEF vars, HistoryInv
<1> QED BY <1>3, <1>4, <1>5, <1>6, <1>7, <1>8, <1>9, <1>10, <1>11, <1>12 DEF Next, CommandMsg

\* Nothing is listed at first.
LEMMA HistoryInit == Init => HistoryInv
<1> SUFFICES ASSUME Init PROVE HistoryInv
  OBVIOUS
<1>1. /\ messages = <<>> /\ messageHistory = <<>> /\ currentId = 0 /\ expiring = {} /\ pendingResults = <<>>
      /\ history = [open |-> FALSE, items |-> <<>>, selected |-> 0]
  BY DEF Init, Closed
<1>2. Sorted(<<>>, 0) /\ Range(<<>>) = {} /\ Len(<<>>) = 0
  BY DEF Sorted, Range
<1>3. 0 <= HistoryLimit
  BY FlashBounds
<1>4. ResultPart
  BY <1>1 DEF ResultPart
<1> QED BY <1>1, <1>2, <1>3, <1>4 DEF HistoryInv, MessagePart, SelectionInRange

\* The history holds the last commands that ended, once each, and its dialog, which
\* works on a snapshot, has an item selected while it has items (flash.go addHistory,
\* command_history.go).
THEOREM HistoryIsAlwaysSound == Spec => []HistoryIsSound
<1>1. Init => PendingInv
  BY DEF Init, PendingInv, PendingTypes, NewIsQuiet, ShownWhileItRuns, Phases
<1>2. Init => SpinnerInv
  BY DEF Init, SpinnerInv, SpinnerTurns, IsABag, EmptyBag, SetToBag
<1>3. HistoryInv /\ PendingInv /\ SpinnerInv => HistoryIsSound
  <2> SUFFICES ASSUME HistoryInv, PendingInv, SpinnerInv PROVE HistoryIsSound
    OBVIOUS
  <2>1. TypeOK
    BY DEF TypeOK, HistoryInv, MessagePart, ResultPart, Sorted, PendingInv, PendingTypes, SpinnerInv
  <2>2. HistoryIsNewest /\ SelectionInRange
    BY DEF HistoryInv, MessagePart, HistoryIsNewest, Sorted, Range
  <2> QED BY <2>1, <2>2 DEF HistoryIsSound
<1> QED BY <1>1, <1>2, <1>3, HistoryInit, HistoryInvStep, PendingStep, SpinnerStep, PTL DEF Spec

-----------------------------------------------------------------------------
(* Messages and their timers.                                                *)

\* Every step takes only such a message off the screen as the user deletes or whose
\* own timer has run out, and no timer takes an error.
LEMMA StayStep ==
  ASSUME HistoryInv, Next, NEW k \in DOMAIN messages, messages[k].id \notin Ids(messages')
  PROVE  \/ DeleteOldest \/ deleteSelected
         \/ (~messages[k].error /\ Expire(messages[k].id))
<1>1. MessagePart /\ ResultPart
  BY DEF HistoryInv
<1>2. messages[k] \in Range(messages) /\ messages[k] \notin Range(messages')
  BY IdsOfRange DEF Range
<1>3. \A command, error, sticky : ~AddWithCommand(command, error, sticky)
  <2> SUFFICES ASSUME NEW command, NEW error, NEW sticky, AddWithCommand(command, error, sticky)
               PROVE  FALSE
    OBVIOUS
  <2>1. PICK m : messages' = Append(messages, m)
    BY DEF AddWithCommand
  <2>2. messages \in Seq(flashMessage) /\ Len(messages) \in Nat /\ DOMAIN messages = 1 .. Len(messages)
    BY <1>1 DEF MessagePart, Sorted
  <2>3. k \in DOMAIN messages' /\ messages'[k] = messages[k]
    BY <2>1, <2>2
  <2> QED BY <1>2, <2>3 DEF Range
<1>4. ~UNCHANGED messages
  BY <1>2
<1>5. ASSUME NEW id \in expiring, Expire(id) PROVE ~messages[k].error /\ Expire(messages[k].id)
  <2>1. messages' = WithoutId(messages, id)
    BY <1>5 DEF Expire
  <2>2. Range(messages') = {e \in Range(messages) : e.id # id}
    BY <1>1, <2>1, WithoutIdSorted DEF MessagePart
  <2>3. messages[k].id = id
    BY <1>2, <2>2
  <2> QED BY <1>1, <1>2, <1>5, <2>3 DEF MessagePart
<1>6. /\ \A c : ~RunCommand(c) /\ ~CommandEnds(c) /\ ~CommandRunning(c)
      /\ \A c, error : ~CommandCompleted(c, error)
      /\ \A error, sticky : ~AddMessage(error, sticky)
      /\ \A t : ~Tick(t)
      /\ ~NewHistory /\ ~CloseHistory /\ \A i : ~SelectItem(i)
  <2>1. \A c : ~RunCommand(c) /\ ~CommandEnds(c)
    BY <1>4 DEF RunCommand, CommandEnds, messageVars
  <2>2. \A c : ~CommandRunning(c)
    BY <1>3, <1>4 DEF CommandRunning, messageVars
  <2>3. \A c, error : ~CommandCompleted(c, error)
    BY <1>3, <1>4 DEF CommandCompleted, messageVars
  <2>4. \A error, sticky : ~AddMessage(error, sticky)
    BY <1>3 DEF AddMessage
  <2>5. \A t : ~Tick(t)
    BY <1>4 DEF Tick, messageVars
  <2>6. ~NewHistory /\ ~CloseHistory /\ \A i : ~SelectItem(i)
    BY <1>4 DEF NewHistory, CloseHistory, SelectItem
  <2> QED BY <2>1, <2>2, <2>3, <2>4, <2>5, <2>6
<1> QED BY <1>5, <1>6 DEF Next, CommandMsg

\* An error or a message whose time has not come goes only when the user says so
\* (flash.go removeLiveMessageByID, completeCommand).
THEOREM MessagesAlwaysStay == Spec => MessagesStay
<1> DEFINE Stay == \A k \in DOMAIN messages :
                     messages[k].id \notin Ids(messages') =>
                       \/ DeleteOldest \/ deleteSelected
                       \/ ~messages[k].error /\ Expire(messages[k].id)
<1>1. HistoryInv /\ [Next]_vars => [Stay]_vars
  BY StayStep
<1>2. MessagesStay <=> [][Stay]_vars
  BY DEF MessagesStay
<1> QED BY <1>1, <1>2, HistoryInit, HistoryInvStep, PTL DEF Spec
=============================================================================
