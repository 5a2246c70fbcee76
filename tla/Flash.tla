------------------------------- MODULE Flash -------------------------------
(***************************************************************************)
(* Flash messages and the history of commands.  RunCommand sends two       *)
(* messages from two goroutines, one that the command runs and one that it *)
(* has ended, and nothing orders them; messages that expire are removed by *)
(* timers that know only a number; the history dialog works on a snapshot  *)
(* while commands go on ending; and the spinner lives on ticks that each   *)
(* ask for the next one.                                                   *)
(***************************************************************************)
EXTENDS Integers, Sequences, Bags, SequencesExt

CONSTANTS
  Commands,      \* commands that are run, each with a number of its own
  NoCommand,     \* the command of a message that reports none
  HistoryLimit,  \* 50 in the code
  MaxId,         \* bound on the messages
  MaxTag         \* bound on the ticks of the spinner

ASSUME CommandAssumption == NoCommand \notin Commands
ASSUME FlashBounds == HistoryLimit \in Nat \ {0} /\ MaxId \in Nat /\ MaxTag \in Nat

VARIABLES
  phase,            \* of each command, up to the delivery of its end
  announcing,       \* commands whose CommandRunningMsg is under way
  pendingCommands,  \* shown as running
  pendingResults,   \* ends that came first, with whether they are errors
  messages, messageHistory, currentId,
  expiring,         \* numbers whose timer is running
  history,          \* history dialog: closed, or its items and selection
  spinner,          \* tag of the spinner
  ticks             \* bag of the tags of the ticks under way

commandVars == <<phase, announcing>>
pendingVars == <<pendingCommands, pendingResults>>
messageVars == <<messages, messageHistory, currentId, expiring>>
spinnerVars == <<spinner, ticks>>
vars == <<commandVars, pendingVars, messageVars, history, spinnerVars>>

Phases == {"new", "running", "exited", "delivered"}
flashMessage == [id : Nat, command : Commands \cup {NoCommand}, error : BOOLEAN]
Closed == [open |-> FALSE, items |-> <<>>, selected |-> 0]

TypeOK ==
  /\ phase \in [Commands -> Phases] /\ announcing \subseteq Commands
  /\ pendingCommands \subseteq Commands
  /\ DOMAIN pendingResults \subseteq Commands
  /\ \A c \in DOMAIN pendingResults : pendingResults[c] \in BOOLEAN
  /\ messages \in Seq(flashMessage) /\ messageHistory \in Seq(flashMessage)
  /\ currentId \in Nat /\ expiring \subseteq Nat
  /\ history.open \in BOOLEAN /\ history.items \in Seq(flashMessage) /\ history.selected \in Nat
  /\ spinner \in Nat /\ IsABag(ticks) /\ DOMAIN ticks \subseteq Nat

Init ==
  /\ phase = [c \in Commands |-> "new"] /\ announcing = {}
  /\ pendingCommands = {} /\ pendingResults = <<>>
  /\ messages = <<>> /\ messageHistory = <<>> /\ currentId = 0 /\ expiring = {}
  /\ history = Closed
  /\ spinner = 0 /\ ticks = EmptyBag

-----------------------------------------------------------------------------
(* The list of messages.                                                   *)

\* Mutant of addHistory: the limit drops the newest entry.
addHistoryUpToLimit(m) ==
  IF m.command = NoCommand THEN messageHistory
  ELSE SubSeq(Append(messageHistory, m), 1, HistoryLimit)

\* Only completed commands enter the history, which keeps the last ones.
addHistory(m) ==
  LET all == Append(messageHistory, m)
      over == Len(all) - HistoryLimit
  IN  IF m.command = NoCommand THEN messageHistory
      ELSE SubSeq(all, IF over > 0 THEN over + 1 ELSE 1, Len(all))

Ids(list) == {list[k].id : k \in DOMAIN list}

\* The message with that number goes, if it is still there; numbers do not repeat.
WithoutId(list, id) ==
  IF id \in Ids(list) THEN RemoveAt(list, CHOOSE k \in DOMAIN list : list[k].id = id) ELSE list

\* A message without error gets a timer, if the configured time is not zero.
ExpiryOf(m, sticky) ==
  IF m.error \/ sticky THEN {expiring} ELSE {expiring, expiring \cup {m.id}}

\* AddWithCommand; a message with neither text, error nor command is dropped.
AddWithCommand(command, error, sticky) ==
  LET m == [id |-> currentId + 1, command |-> command, error |-> error]
  IN  /\ currentId < MaxId
      /\ currentId' = currentId + 1
      /\ messages' = Append(messages, m)
      /\ messageHistory' = addHistory(m)
      /\ expiring' \in ExpiryOf(m, sticky)

\* intents.AddMessage, UpdateRevisionsFailedMsg, and the end of a command that
\* runs in the terminal.
AddMessage(error, sticky) ==
  /\ AddWithCommand(NoCommand, error, sticky)
  /\ UNCHANGED <<commandVars, pendingVars, history, spinnerVars>>

\* Mutant of Expire: the timer removes the oldest message.
ExpireOldest(id) ==
  /\ id \in expiring /\ expiring' = expiring \ {id}
  /\ messages' = IF messages = <<>> THEN <<>> ELSE Tail(messages)
  /\ UNCHANGED <<commandVars, pendingVars, messageHistory, currentId, history, spinnerVars>>

Expire(id) ==
  /\ id \in expiring /\ expiring' = expiring \ {id}
  /\ messages' = WithoutId(messages, id)
  /\ UNCHANGED <<commandVars, pendingVars, messageHistory, currentId, history, spinnerVars>>

\* DismissOldest and the cancel key of the root model.
DeleteOldest ==
  /\ messages # <<>> /\ messages' = Tail(messages)
  /\ UNCHANGED <<commandVars, pendingVars, messageHistory, currentId, expiring, history, spinnerVars>>

-----------------------------------------------------------------------------
(* Commands.                                                               *)

\* The batch of RunCommand: one goroutine announces, the other one runs jj.
RunCommand(c) ==
  /\ phase[c] = "new"
  /\ phase' = [phase EXCEPT ![c] = "running"]
  /\ announcing' = announcing \cup {c}
  /\ UNCHANGED <<pendingVars, messageVars, history, spinnerVars>>

\* jj returns, or does not start; the message about it is under way.
CommandEnds(c) ==
  /\ phase[c] = "running"
  /\ phase' = [phase EXCEPT ![c] = "exited"]
  /\ UNCHANGED <<announcing, pendingVars, messageVars, history, spinnerVars>>

\* Mutant of StartSpinner: a spinner that has turned once is not started again.
StartSpinnerOnce == IF spinner = 0 THEN ticks (+) SetToBag({spinner}) ELSE ticks

\* spinner.Tick asks for a tick with the tag of the moment.
StartSpinner == ticks (+) SetToBag({spinner})

\* Mutant of CommandRunning: an end that came first is not looked for.
CommandRunningOnly(c) ==
  /\ c \in announcing /\ announcing' = announcing \ {c}
  /\ pendingCommands' = pendingCommands \cup {c}
  /\ ticks' = StartSpinner
  /\ UNCHANGED <<phase, pendingResults, messageVars, history, spinner>>

\* CommandRunningMsg: the command is shown as running and the spinner asked to
\* turn, unless its end is known already.
CommandRunning(c) ==
  /\ c \in announcing /\ announcing' = announcing \ {c}
  /\ IF c \in DOMAIN pendingResults
       THEN /\ AddWithCommand(c, pendingResults[c], FALSE)
            /\ pendingResults' = [d \in DOMAIN pendingResults \ {c} |-> pendingResults[d]]
            /\ UNCHANGED <<pendingCommands, ticks>>
       ELSE /\ pendingCommands' = pendingCommands \cup {c}
            /\ ticks' = StartSpinner
            /\ UNCHANGED <<pendingResults, messageVars>>
  /\ UNCHANGED <<phase, history, spinner>>

\* Mutant of CommandCompleted: an end before the announcement is reported at once.
CommandCompletedAtOnce(c, error) ==
  /\ phase[c] = "exited" /\ phase' = [phase EXCEPT ![c] = "delivered"]
  /\ AddWithCommand(c, error, FALSE)
  /\ pendingCommands' = pendingCommands \ {c}
  /\ UNCHANGED <<announcing, pendingResults, history, spinnerVars>>

\* CommandCompletedMsg: the end of a command that is not shown is kept.
CommandCompleted(c, error) ==
  /\ phase[c] = "exited" /\ phase' = [phase EXCEPT ![c] = "delivered"]
  /\ IF c \in pendingCommands
       THEN /\ AddWithCommand(c, error, FALSE)
            /\ pendingCommands' = pendingCommands \ {c}
            /\ UNCHANGED pendingResults
       ELSE /\ pendingResults' = [d \in DOMAIN pendingResults \cup {c} |->
                                    IF d = c THEN error ELSE pendingResults[d]]
            /\ UNCHANGED <<pendingCommands, messageVars>>
  /\ UNCHANGED <<announcing, history, spinnerVars>>

\* A tick reaches the spinner only while a command is shown.  The spinner takes
\* a tick of its own tag, or an untagged one, and asks for the next.
Tick(t) ==
  /\ t \in DOMAIN ticks
  /\ IF pendingCommands # {} /\ t \in {0, spinner}
       THEN /\ spinner < MaxTag
            /\ spinner' = spinner + 1
            /\ ticks' = (ticks (-) SetToBag({t})) (+) SetToBag({spinner + 1})
       ELSE ticks' = ticks (-) SetToBag({t}) /\ UNCHANGED spinner
  /\ UNCHANGED <<commandVars, pendingVars, messageVars, history>>

-----------------------------------------------------------------------------
(* The history dialog.  Its items are a snapshot; selected is 0 without any. *)

HistoryStep == UNCHANGED <<commandVars, pendingVars, currentId, expiring, spinnerVars>>

NewHistory ==
  /\ ~history.open
  /\ history' = [open |-> TRUE, items |-> messageHistory, selected |-> Len(messageHistory)]
  /\ HistoryStep /\ UNCHANGED <<messages, messageHistory>>

CloseHistory == history.open /\ history' = Closed /\ HistoryStep /\ UNCHANGED <<messages, messageHistory>>

\* Navigation stops at both ends; a click of an older frame may be out of range.
SelectItem(i) ==
  /\ history.open /\ i \in DOMAIN history.items
  /\ history' = [history EXCEPT !.selected = i]
  /\ HistoryStep /\ UNCHANGED <<messages, messageHistory>>

\* The entry goes from the dialog, the history and the screen.
deleteSelected ==
  /\ history.open /\ history.items # <<>>
  /\ LET id == history.items[history.selected].id
     IN  /\ history' = [history EXCEPT !.items = RemoveAt(history.items, history.selected),
                          !.selected = IF history.selected = Len(history.items) THEN history.selected - 1
                                                                               ELSE history.selected]
         /\ messageHistory' = WithoutId(messageHistory, id)
         /\ messages' = WithoutId(messages, id)
  /\ HistoryStep

-----------------------------------------------------------------------------
CommandMsg(c) == CommandRunning(c) \/ \E error \in BOOLEAN : CommandCompleted(c, error)

Next ==
  \/ \E c \in Commands : RunCommand(c) \/ CommandEnds(c) \/ CommandMsg(c)
  \/ \E error, sticky \in BOOLEAN : AddMessage(error, sticky)
  \/ \E id \in expiring : Expire(id)
  \/ DeleteOldest
  \/ \E t \in DOMAIN ticks : Tick(t)
  \/ NewHistory \/ CloseHistory \/ deleteSelected
  \/ \E i \in DOMAIN history.items : SelectItem(i)

Spec == Init /\ [][Next]_vars
\* The event loop takes the two messages of every command.
FairSpec == Spec /\ \A c \in Commands : WF_vars(CommandMsg(c))

-----------------------------------------------------------------------------
(* Properties.                                                             *)

\* A command is shown as running exactly between its two messages, and an end
\* is kept only until the announcement comes, in whichever order they arrive
\* (flash.go Update, pendingCommands and pendingResults).
ShownWhileItRuns ==
  \A c \in Commands :
    /\ c \in pendingCommands <=> phase[c] \in {"running", "exited"} /\ c \notin announcing
    /\ c \in DOMAIN pendingResults <=> phase[c] = "delivered" /\ c \in announcing

\* While a command is shown as running, the spinner turns: some tick that it will
\* take is under way, although ticks are dropped when nothing runs and only one
\* of several is followed up (flash.go Update, the default case).
SpinnerTurns == pendingCommands # {} => \E t \in DOMAIN ticks : t \in {0, spinner}

Missing(m) == m.id \notin Ids(messageHistory) /\ \E h \in Ids(messageHistory) : h < m.id

\* The history holds the last commands that ended: what is shown on the screen or
\* in the dialog and is not in the history is older than all of it, and nothing
\* is in it twice (flash.go addHistory, command_history.go deleteSelected).
HistoryIsNewest ==
  /\ Len(messageHistory) <= HistoryLimit
  /\ \A j, k \in DOMAIN messageHistory : j < k => messageHistory[j].id < messageHistory[k].id
  /\ \A k \in DOMAIN messages : messages[k].command # NoCommand => ~Missing(messages[k])
  /\ \A k \in DOMAIN history.items : ~Missing(history.items[k])

\* The history dialog has an item selected while it has items
\* (command_history.go clampSelection after a deletion or an old click).
SelectionInRange ==
  IF history.items = <<>> THEN history.selected = 0 ELSE history.selected \in DOMAIN history.items

\* An error or a message whose time has not come goes only when the user says so:
\* an expiry removes no other message than its own, and no error
\* (flash.go removeLiveMessageByID, completeCommand).
MessagesStay ==
  [][ \A k \in DOMAIN messages :
        messages[k].id \notin Ids(messages') =>
          \/ DeleteOldest \/ deleteSelected
          \/ ~messages[k].error /\ Expire(messages[k].id) ]_vars

\* A command that has ended is reported on the screen, whichever message comes
\* first, as long as there are numbers for it (flash.go completeCommand).
CommandIsReported ==
  \A c \in Commands : phase[c] = "exited" ~>
    (currentId = MaxId \/ \E k \in DOMAIN messages : messages[k].command = c)

\* The history keeps the newest commands, once each, and its dialog, which works on a snapshot, has
\* an item selected while it has items (flash.go addHistory, command_history.go).
HistoryIsSound == TypeOK /\ HistoryIsNewest /\ SelectionInRange
=============================================================================
