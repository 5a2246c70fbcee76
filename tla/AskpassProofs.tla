---------------------------- MODULE AskpassProofs ----------------------------
(***************************************************************************)
(* Proofs about Askpass for any commands, connections and number of keys.  *)
(***************************************************************************)
EXTENDS Askpass, TLAPS

\* A goroutine that has not shown its prompt owns a fresh channel.
Before == {"idle", "lookup", "wait", "open"}

\* The channel of the prompt on the screen is open, and channels are written
\* and closed only after their prompt has been shown.
ChannelInv ==
  /\ password # None => password \notin closed
  /\ \A c \in Conns : handler[c] \in Before => password # c /\ c \notin closed \cup full

\* The event loop blocks only on the prompt that is on the screen.
LoopInv == loop = "blocked" => password # None

\* An answer that lies in its channel was followed by a closing message.
AnswerInv == \A c \in Conns : c \in full /\ password = c => toggles[c] > 0

\* An answer under way was given in time or its command has returned since.
TimelyInv ==
  /\ \A c \in Conns : c \in full \/ handler[c] = "check" \/ (loop = "blocked" /\ password = c)
                        => c \in answered \/ SubOf[c] \in finished
  /\ \A c \in Conns : handler[c] = "write" => c \in answered

IndInv ==
  /\ TypeOK /\ NoPanic /\ PasswordOnlyForItsPrompt /\ NoOrphanedHelper /\ NoDeadPrompt
  /\ ChannelInv /\ LoopInv /\ AnswerInv /\ TimelyInv

\* Every connection presents the key of some command.
LEMMA SubOfType == \A c \in Conns : SubOf[c] \in Subs
  BY SubOfAssumption

\* The initial state has no prompt, no answer and no closed channel.
LEMMA InitInv == Init => IndInv
<1> SUFFICES ASSUME Init
             PROVE  IndInv
  OBVIOUS
<1>1. TypeOK
  <2>1. panicked \in BOOLEAN /\ listening \in BOOLEAN
    BY Zenon DEF Init
  <2> QED
    BY <2>1, NoneAssumption, MaxKeysAssumption DEF Init, TypeOK, ProcStates, HandlerStates
<1>2. NoPanic
  BY Zenon DEF Init, NoPanic
<1>3. ChannelInv /\ LoopInv /\ AnswerInv /\ TimelyInv
  BY NoneAssumption DEF Init, ChannelInv, LoopInv, AnswerInv, TimelyInv
<1>4. PasswordOnlyForItsPrompt /\ NoOrphanedHelper /\ NoDeadPrompt
  BY DEF Init, PasswordOnlyForItsPrompt, NoOrphanedHelper, NoDeadPrompt
<1> QED
  BY <1>1, <1>2, <1>3, <1>4 DEF IndInv

\* Steps of a command leave the prompts alone; finished only grows.
LEMMA CommandInv ==
  ASSUME IndInv, NEW s \in Subs, Command(s)
  PROVE  IndInv'
<1>1. /\ UNCHANGED <<handler, full, closed, screenVars, given, answered>>
      /\ finished \subseteq finished'
  BY DEF Command, NewSubprocess, Start, StartFails, ReportStarted, WaitReturns, CancelDone,
         CancelDelete, CommandStep
<1>2. TypeOK'
  BY DEF IndInv, TypeOK, ProcStates, Command, NewSubprocess, Start, StartFails, ReportStarted,
         WaitReturns, CancelDone, CancelDelete, CommandStep, screenVars
<1> QED
  BY <1>1, <1>2 DEF screenVars, IndInv, NoPanic, PasswordOnlyForItsPrompt,
     NoOrphanedHelper, NoDeadPrompt, ChannelInv, LoopInv, AnswerInv, TimelyInv, Before

\* Steps of the goroutine of a connection.
LEMMA HandlerInv ==
  ASSUME IndInv, NEW c \in Conns, Handler(c) \/ Connect(c)
  PROVE  IndInv'
<1> USE SubOfType DEF Goto, commandVars, screenVars, IndInv, NoPanic, PasswordOnlyForItsPrompt,
     NoOrphanedHelper, NoDeadPrompt, ChannelInv, LoopInv, AnswerInv, TimelyInv, Before
<1>1. CASE Connect(c)
  BY <1>1 DEF Connect, TypeOK, HandlerStates
<1>2. CASE LookUp(c)
  BY <1>2 DEF LookUp, TypeOK, HandlerStates
<1>3. CASE AwaitStarted(c)
  BY <1>3 DEF AwaitStarted, TypeOK, HandlerStates
<1>4. CASE SelectDone(c)
  BY <1>4 DEF SelectDone, TypeOK, HandlerStates
<1>5. CASE SelectPassword(c)
  BY <1>5 DEF SelectPassword, TypeOK, HandlerStates
<1>6. CASE CheckDone(c)
  BY <1>6 DEF CheckDone, TypeOK, HandlerStates
<1>7. CASE WritePassword(c)
  BY <1>7 DEF WritePassword, TypeOK, HandlerStates
<1> QED
  BY <1>1, <1>2, <1>3, <1>4, <1>5, <1>6, <1>7 DEF Handler

\* Messages that the event loop takes.
LEMMA MessagesInv ==
  ASSUME IndInv, NEW c \in Conns, Messages(c)
  PROVE  IndInv'
<1> USE SubOfType, NoneAssumption
    DEF Ready, UnchangedByLoop, commandVars, CloseChannel, IndInv, NoPanic,
     PasswordOnlyForItsPrompt, NoOrphanedHelper, NoDeadPrompt, ChannelInv, LoopInv,
     AnswerInv, TimelyInv, Before
<1>1. CASE OpenPrompt(c)
  <2>1. password # c /\ c \notin closed \cup full /\ (password # None => password \notin closed)
    BY <1>1 DEF OpenPrompt
  <2>2. CASE password = None
    BY <1>1, <2>1, <2>2 DEF OpenPrompt, TypeOK, HandlerStates
  <2>3. CASE password # None
    <3>1. closed' = closed \cup {password} /\ panicked' = panicked
      BY <1>1, <2>1, <2>3 DEF OpenPrompt, TypeOK
    <3>2. TypeOK'
      BY <1>1, <2>3, <3>1 DEF OpenPrompt, TypeOK, HandlerStates
    <3>3. (NoOrphanedHelper /\ ChannelInv)'
      BY <1>1, <2>1, <2>3, <3>1 DEF OpenPrompt, TypeOK, HandlerStates
    <3>4. (NoPanic /\ PasswordOnlyForItsPrompt /\ NoDeadPrompt)'
      BY <1>1, <2>1, <2>3, <3>1 DEF OpenPrompt, TypeOK, HandlerStates
    <3>5. (LoopInv /\ AnswerInv /\ TimelyInv)'
      BY <1>1, <2>1, <2>3, <3>1 DEF OpenPrompt, TypeOK, HandlerStates
    <3> QED
      BY <3>2, <3>3, <3>4, <3>5
  <2> QED
    BY <2>2, <2>3
<1>2. CASE ToggleByHandler(c)
  BY <1>2 DEF ToggleByHandler, ClosePrompt, TypeOK, HandlerStates
<1>3. CASE ToggleByKey(c)
  BY <1>3 DEF ToggleByKey, ClosePrompt, TypeOK, HandlerStates
<1>4. CASE SendUnblocks(c)
  BY <1>4 DEF SendUnblocks, Send, TypeOK, HandlerStates
<1> QED
  BY <1>1, <1>2, <1>3, <1>4 DEF Messages

\* Keys of the user.
LEMMA KeyInv ==
  ASSUME IndInv, NEW c \in Conns, CancelKey(c) \/ ApplyKey(c)
  PROVE  IndInv'
<1> USE SubOfType, NoneAssumption, MaxKeysAssumption
    DEF Key, Ready, UnchangedByLoop, commandVars, IndInv, NoPanic, PasswordOnlyForItsPrompt,
     NoOrphanedHelper, NoDeadPrompt, ChannelInv, LoopInv, AnswerInv, TimelyInv, Before
<1>1. CASE CancelKey(c)
  BY <1>1 DEF CancelKey, TypeOK, HandlerStates
<1>2. CASE ApplyKey(c)
  BY <1>2 DEF ApplyKey, Send, TypeOK, HandlerStates
<1> QED
  BY <1>1, <1>2

\* The inductive invariant holds in every reachable state.
THEOREM Invariance == Spec => []IndInv
<1>1. Init => IndInv
  BY InitInv
<1>2. IndInv /\ [Next]_vars => IndInv'
  <2> SUFFICES ASSUME IndInv, [Next]_vars
               PROVE  IndInv'
    OBVIOUS
  <2>1. CASE \E s \in Subs : Command(s)
    BY <2>1, CommandInv
  <2>2. CASE \E c \in Conns : Connect(c) \/ Handler(c)
    BY <2>2, HandlerInv
  <2>3. CASE \E c \in Conns : Messages(c)
    BY <2>3, MessagesInv
  <2>4. CASE \E c \in Conns : CancelKey(c) \/ ApplyKey(c)
    BY <2>4, KeyInv
  <2>5. CASE CloseServer
    BY <2>5 DEF CloseServer, screenVars, TypeOK, IndInv, NoPanic, PasswordOnlyForItsPrompt,
     NoOrphanedHelper, NoDeadPrompt, ChannelInv, LoopInv, AnswerInv, TimelyInv, Before
  <2>6. CASE UNCHANGED vars
    BY <2>6 DEF vars, commandVars, screenVars, TypeOK, IndInv, NoPanic, PasswordOnlyForItsPrompt,
     NoOrphanedHelper, NoDeadPrompt, ChannelInv, LoopInv, AnswerInv, TimelyInv, Before
  <2> QED
    BY <2>1, <2>2, <2>3, <2>4, <2>5, <2>6 DEF Next
<1> QED
  BY <1>1, <1>2, PTL DEF Spec

\* Every variable keeps its type (the type invariant of Askpass).
THEOREM TypeCorrect == Spec => []TypeOK
  BY Invariance, PTL DEF IndInv

\* Whatever closes a prompt, and however often, no channel is closed twice or
\* written when closed (the TogglePasswordMsg case of ui.go Update).
THEOREM NeverPanics == Spec => []NoPanic
  BY Invariance, PTL DEF IndInv

\* A password goes only to a helper whose own prompt the user answered while
\* its command was running (Server.handle, the second look at done).
THEOREM PasswordStaysWithItsPrompt == Spec => []PasswordOnlyForItsPrompt
  BY Invariance, PTL DEF IndInv

\* A waiting helper is on the screen or has been told to give up, and a prompt
\* on the screen is awaited or on its way out (ui.go Update, showPassword).
THEOREM PromptsAndHelpersMatch == Spec => []PromptsMatchHelpers
  BY Invariance, PTL DEF IndInv, PromptsMatchHelpers
=============================================================================
