------------------------------- MODULE Askpass -------------------------------
(***************************************************************************)
(* Credential prompts: the askpass server, the commands that register with *)
(* it, the prompt of the root model and the helper processes that want a   *)
(* password.                                                               *)
(*                                                                         *)
(* A command of jjui registers a key, starts jj and unregisters the key    *)
(* when jj has returned.  A helper that jj started connects and gives the  *)
(* key; a goroutine per connection shows a prompt by sending a message to  *)
(* the event loop and waits for the answer on a channel with room for one, *)
(* which only the event loop writes and closes.  The event loop shows at   *)
(* most one prompt.  Sending to the event loop blocks until it takes the   *)
(* message.                                                                *)
(*                                                                         *)
(* A prompt is named after its connection: promptID.Add gives every prompt *)
(* an id of its own.  What the password is plays no part.                  *)
(***************************************************************************)
EXTENDS Integers, FiniteSets

CONSTANTS
  Subs,    \* commands that may need credentials
  Conns,   \* connections of helper processes
  SubOf,   \* the command whose key a connection presents
  None,    \* no prompt
  MaxKeys  \* bound on the answers (Enter or Esc) a prompt gets from the user

ASSUME SubOfAssumption == SubOf \in [Conns -> Subs]
ASSUME NoneAssumption == None \notin Conns
ASSUME MaxKeysAssumption == MaxKeys \in Nat

VARIABLES
  listening,              \* the unix socket is open
  registered,             \* keys of Server.subprocesses
  proc,                   \* how far each command is
  started, finished,      \* commands whose channel started, done is closed
  handler,                \* where the goroutine of each connection is
  full, closed,           \* answer channels that hold an answer, that are closed
  password,               \* the prompt on the screen
  toggles,                \* closing messages under way for each prompt
  loop,                   \* the event loop is ready, or blocked in a send
  keys,                   \* answers of the user so far
  panicked,               \* a channel was closed twice or written when closed
  given, answered         \* history: helpers that got a password, prompts that
                          \* were answered while their command ran

commandVars == <<listening, registered, proc, started, finished>>
screenVars  == <<password, toggles, loop, keys, panicked>>
vars == <<commandVars, handler, full, closed, screenVars, given, answered>>

ProcStates == {"none", "new", "running", "reported", "returning", "cancelling", "gone"}
HandlerStates == {"idle", "lookup", "wait", "open", "select", "sendDone", "check", "write", "end"}

TypeOK ==
  /\ listening \in BOOLEAN /\ registered \subseteq Subs
  /\ proc \in [Subs -> ProcStates]
  /\ started \subseteq Subs /\ finished \subseteq Subs
  /\ handler \in [Conns -> HandlerStates]
  /\ full \subseteq Conns /\ closed \subseteq Conns
  /\ password \in Conns \cup {None}
  /\ toggles \in [Conns -> Nat] /\ keys \in [Conns -> 0 .. MaxKeys]
  /\ loop \in {"ready", "blocked"} /\ panicked \in BOOLEAN
  /\ given \subseteq Conns /\ answered \subseteq Conns

Init ==
  /\ listening \in BOOLEAN /\ registered = {}
  /\ proc = [s \in Subs |-> "none"] /\ started = {} /\ finished = {}
  /\ handler = [c \in Conns |-> "idle"]
  /\ full = {} /\ closed = {}
  /\ password = None /\ loop = "ready" /\ panicked = FALSE
  /\ toggles = [c \in Conns |-> 0] /\ keys = [c \in Conns |-> 0]
  /\ given = {} /\ answered = {}

-----------------------------------------------------------------------------
(* The goroutine of a command: runCommandWithInput with the closures that  *)
(* NewSubprocess returns, which do nothing when nobody listens.            *)

CommandStep(s, from, to) ==
  /\ proc[s] = from /\ proc' = [proc EXCEPT ![s] = to]
  /\ UNCHANGED <<listening, handler, full, closed, screenVars, given, answered>>

NewSubprocess(s) ==
  /\ CommandStep(s, "none", "new")
  /\ registered' = IF listening THEN registered \cup {s} ELSE registered
  /\ UNCHANGED <<started, finished>>

Start(s) == CommandStep(s, "new", "running") /\ UNCHANGED <<registered, started, finished>>
StartFails(s) == CommandStep(s, "new", "returning") /\ UNCHANGED <<registered, started, finished>>

ReportStarted(s) ==
  /\ CommandStep(s, "running", "reported")
  /\ started' = IF s \in registered THEN started \cup {s} ELSE started
  /\ UNCHANGED <<registered, finished>>

\* jj returns; it may do so while a helper still waits.
WaitReturns(s) == CommandStep(s, "reported", "returning") /\ UNCHANGED <<registered, started, finished>>

\* The deferred cancel closes done and then deletes the key.
CancelDone(s) ==
  /\ CommandStep(s, "returning", "cancelling")
  /\ finished' = IF s \in registered THEN finished \cup {s} ELSE finished
  /\ UNCHANGED <<registered, started>>
CancelDelete(s) ==
  /\ CommandStep(s, "cancelling", "gone")
  /\ registered' = registered \ {s}
  /\ UNCHANGED <<started, finished>>

\* Server.Close, when the program ends.
CloseServer ==
  /\ listening /\ listening' = FALSE
  /\ UNCHANGED <<registered, proc, started, finished, handler, full, closed, screenVars,
                 given, answered>>

-----------------------------------------------------------------------------
(* The goroutine of a connection: Server.handle with the callback of       *)
(* showPassword.                                                           *)

Goto(c, from, to) ==
  /\ handler[c] = from /\ handler' = [handler EXCEPT ![c] = to]
  /\ UNCHANGED <<commandVars, closed, screenVars, answered>>

\* External: jj runs a helper, which dials the server.
Connect(c) ==
  /\ listening /\ proc[SubOf[c]] \in {"running", "reported"}
  /\ Goto(c, "idle", "lookup") /\ UNCHANGED <<full, given>>

\* An unknown key, or none within the deadline, ends the connection.
LookUp(c) ==
  /\ \/ SubOf[c] \in registered /\ Goto(c, "lookup", "wait")
     \/ Goto(c, "lookup", "end")
  /\ UNCHANGED <<full, given>>

\* The select on started and done takes either when both are closed.  A peer
\* that is no descendant of jj, or a missing prompt, ends the connection.
AwaitStarted(c) ==
  /\ \/ SubOf[c] \in started /\ \E to \in {"open", "end"} : Goto(c, "wait", to)
     \/ SubOf[c] \in finished /\ Goto(c, "wait", "end")
  /\ UNCHANGED <<full, given>>

SelectClosed(c) ==
  c \notin full /\ c \in closed /\ Goto(c, "select", "end") /\ UNCHANGED <<full, given>>

\* The select on done and the answer.  A closed channel gives its answer
\* first, if it holds one, and then nil, with which the connection ends.
SelectDone(c) ==
  /\ SubOf[c] \in finished
  /\ Goto(c, "select", "sendDone") /\ UNCHANGED <<full, given>>
SelectPassword(c) ==
  \/ c \in full /\ full' = full \ {c} /\ Goto(c, "select", "check") /\ UNCHANGED given
  \/ c \notin full /\ c \in closed /\ Goto(c, "select", "end") /\ UNCHANGED <<full, given>>

\* Mutant of CheckDone: done is not looked at again.
CheckNothing(c) == Goto(c, "check", "write") /\ UNCHANGED <<full, given>>

CheckDone(c) ==
  /\ Goto(c, "check", IF SubOf[c] \in finished THEN "end" ELSE "write")
  /\ UNCHANGED <<full, given>>

\* The write may run into its deadline or a helper that has gone.
WritePassword(c) ==
  /\ Goto(c, "write", "end")
  /\ given' \in {given, given \cup {c}}
  /\ UNCHANGED full

-----------------------------------------------------------------------------
(* The event loop.                                                         *)

Ready == loop = "ready"
UnchangedByLoop == UNCHANGED <<commandVars, given>>

\* Closing the answer channel of a prompt.
CloseChannel(c) == closed' = closed \cup {c} /\ panicked' = (panicked \/ c \in closed)

\* Mutants of OpenPrompt: the prompt is named after its command; the superseded
\* channel stays open.
OpenPromptAs(c, name) ==
  /\ Ready /\ handler[c] = "open"
  /\ handler' = [handler EXCEPT ![c] = "select"]
  /\ password' = name
  /\ UNCHANGED <<closed, panicked, full, toggles, loop, keys, answered>> /\ UnchangedByLoop
OpenPromptOver(c) == OpenPromptAs(c, c)

\* TogglePasswordMsg with a channel: the prompt replaces the one on the screen.
OpenPrompt(c) ==
  /\ Ready /\ handler[c] = "open"
  /\ handler' = [handler EXCEPT ![c] = "select"]
  /\ password' = c
  /\ IF password = None THEN UNCHANGED <<closed, panicked>> ELSE CloseChannel(password)
  /\ UNCHANGED <<full, toggles, loop, keys, answered>> /\ UnchangedByLoop

\* Mutant of ClosePrompt: the prompt stays on the screen.
ClosePromptOnScreen(c) ==
  /\ IF password = c THEN CloseChannel(c) ELSE UNCHANGED <<closed, panicked>>
  /\ UNCHANGED password

\* TogglePasswordMsg without one concerns the prompt with its id only.
ClosePrompt(c) ==
  IF password = c THEN CloseChannel(c) /\ password' = None
                  ELSE UNCHANGED <<closed, panicked, password>>

\* It comes from the goroutine of the connection, or from a key.
ToggleByHandler(c) ==
  /\ Ready /\ handler[c] = "sendDone"
  /\ handler' = [handler EXCEPT ![c] = "end"]
  /\ ClosePrompt(c)
  /\ UNCHANGED <<full, toggles, loop, keys, answered>> /\ UnchangedByLoop
ToggleByKey(c) ==
  /\ Ready /\ toggles[c] > 0
  /\ toggles' = [toggles EXCEPT ![c] = @ - 1]
  /\ ClosePrompt(c)
  /\ UNCHANGED <<handler, full, loop, keys, answered>> /\ UnchangedByLoop

\* A key for the prompt on the screen.
Key(c) ==
  /\ Ready /\ password = c /\ keys[c] < MaxKeys
  /\ keys' = [keys EXCEPT ![c] = @ + 1]
  /\ UNCHANGED <<handler, closed, password>> /\ UnchangedByLoop

CancelKey(c) ==
  /\ Key(c)
  /\ toggles' = [toggles EXCEPT ![c] = @ + 1]
  /\ UNCHANGED <<full, loop, panicked, answered>>

\* passwordCh <- value, then the closing message.
Send(c) ==
  /\ full' = full \cup {c} /\ panicked' = (panicked \/ c \in closed)
  /\ toggles' = [toggles EXCEPT ![c] = @ + 1]

ApplyKey(c) ==
  /\ Key(c)
  /\ answered' = IF SubOf[c] \notin finished THEN answered \cup {c} ELSE answered
  /\ IF c \in full
       THEN loop' = "blocked" /\ UNCHANGED <<full, toggles, panicked>>
       ELSE Send(c) /\ UNCHANGED loop

\* The blocked send goes on when the connection has taken the first answer.
SendUnblocks(c) ==
  /\ loop = "blocked" /\ password = c /\ c \notin full
  /\ loop' = "ready"
  /\ Send(c)
  /\ UNCHANGED <<handler, closed, password, keys, answered>> /\ UnchangedByLoop

-----------------------------------------------------------------------------
Command(s) ==
  \/ NewSubprocess(s) \/ Start(s) \/ StartFails(s) \/ ReportStarted(s)
  \/ WaitReturns(s) \/ CancelDone(s) \/ CancelDelete(s)

\* What the goroutine of a connection does by itself.
Handler(c) ==
  \/ LookUp(c) \/ AwaitStarted(c) \/ SelectDone(c) \/ SelectPassword(c)
  \/ CheckDone(c) \/ WritePassword(c)

\* Messages that the event loop has to take.
Messages(c) == OpenPrompt(c) \/ ToggleByHandler(c) \/ ToggleByKey(c) \/ SendUnblocks(c)

Next ==
  \/ \E s \in Subs : Command(s)
  \/ \E c \in Conns : Connect(c) \/ Handler(c) \/ Messages(c) \/ CancelKey(c) \/ ApplyKey(c)
  \/ CloseServer

Spec == Init /\ [][Next]_vars

\* Goroutines run, the event loop takes every message that is sent to it, and
\* a command that was begun starts jj and cleans up after it; whether jj
\* returns and the user answers is left open.
Fairness ==
  /\ \A s \in Subs : /\ WF_vars(Start(s) \/ StartFails(s)) /\ WF_vars(ReportStarted(s))
                     /\ WF_vars(CancelDone(s)) /\ WF_vars(CancelDelete(s))
  /\ \A c \in Conns : /\ WF_vars(Handler(c)) /\ WF_vars(OpenPrompt(c)) /\ WF_vars(SendUnblocks(c))
                      /\ WF_vars(ToggleByHandler(c)) /\ WF_vars(ToggleByKey(c))

FairSpec == Spec /\ Fairness

-----------------------------------------------------------------------------
(* Properties.                                                             *)

\* No channel is closed twice or written when closed, which would take the
\* program down: of all the messages that may close a prompt (its command
\* returned, the user answered, another prompt took its place) only the first
\* does (ui.go, TogglePasswordMsg).
NoPanic == ~panicked

\* A helper gets a password only if the user answered its own prompt, while
\* its command was still running (showPassword; handle looks at done again
\* after the answer has come).
PasswordOnlyForItsPrompt == given \subseteq answered

\* Nobody waits for a prompt that the user cannot see: the goroutine that
\* waits has its prompt on the screen, or its channel was closed.
NoOrphanedHelper == \A c \in Conns : handler[c] = "select" => password = c \/ c \in closed

\* A prompt on the screen is never a dead one: somebody waits for the answer,
\* or a message that closes the prompt is under way.
NoDeadPrompt ==
  password # None => handler[password] \in {"select", "sendDone"} \/ toggles[password] > 0

\* A prompt goes away when its command has returned.
Returned(c) == password = c /\ SubOf[c] \in finished
PromptCleansItself == \A c \in Conns : Returned(c) ~> password # c

\* It does so unless a second answer blocks the event loop: nothing else keeps
\* a prompt on the screen.
PromptGoesUnlessBlocked == \A c \in Conns : Returned(c) ~> (password # c \/ loop = "blocked")

\* An answer given in time reaches the goroutine of its connection, unless the
\* command returns first, even if another prompt takes the screen (the closed
\* channel still holds the answer).
AnswerIsTaken ==
  \A c \in Conns : c \in full /\ handler[c] = "select" ~> handler[c] # "select"

\* Helpers that wait and prompts on the screen belong together: nobody waits for a prompt that is
\* not shown, and no prompt is shown that nobody waits for (showPassword, Server.handle).
PromptsMatchHelpers == NoOrphanedHelper /\ NoDeadPrompt

\* A prompt whose command has returned goes, unless a second Enter blocked the loop, and an answer
\* is taken by the goroutine it is for (Server.handle, password.go).
PromptsEnd == PromptGoesUnlessBlocked /\ AnswerIsTaken
=============================================================================
