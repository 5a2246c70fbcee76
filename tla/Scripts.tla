------------------------------ MODULE Scripts ------------------------------
(***************************************************************************)
(* Lua scripts.  A script is a coroutine that runs inside the event loop   *)
(* until it yields a step that waits for a message; the root model keeps a *)
(* stack of suspended runners and shows a message to the top one only.  An *)
(* action that a script calls may itself be a script: the caller waits for *)
(* a message with the number of the call, whoever ends the call sends it.  *)
(*                                                                         *)
(* What a script does between two waits is any step of the API.  The       *)
(* commands of one tea.Sequence are a sequence of messages, delivered in   *)
(* order; different sequences interleave.                                  *)
(***************************************************************************)
EXTENDS Integers, Sequences, FiniteSets, Bags, SequencesExt

CONSTANTS
  MaxWaits,   \* bound on the waiting steps of all scripts together
  MaxCmds,    \* bound on the sequences under way when the user presses a key
  MaxLayers   \* bound on the views when a key or an action opens one

ASSUME ScriptBounds == MaxWaits \in Nat /\ MaxCmds \in Nat /\ MaxLayers \in Nat

VARIABLES
  frames,   \* scriptRunners: the call each one serves and what it waits for
  waits,    \* waiting steps so far, the number of the last call
  layers,   \* views over the revision list, bottom to top
  cmds      \* bag of message sequences under way

vars == <<frames, waits, layers, cmds>>

WaitKinds == {"action", "choose", "input", "close", "refresh"}
MsgTypes == {"runLua", "dispatch", "completed", "showChoose", "showInput",
             "chosen", "entered", "close", "refresh", "updated", "execCompleted"}
LayerKinds == {"choose", "input", "dialog", "oplog"}

\* id is the number of the call that a message carries, 0 when it has none;
\* "of" is the call whose action sent it, which no handler reads.
Msg(t) == [type |-> t, id |-> 0, of |-> 0]
Call(t, i) == [type |-> t, id |-> i, of |-> 0]
Effect(t, i) == [type |-> t, id |-> 0, of |-> i]
Message == [type : MsgTypes, id : Nat, of : Nat]

TypeOK ==
  /\ frames \in Seq([id : Nat, wait : [kind : WaitKinds, id : Nat]])
  /\ waits \in 0 .. MaxWaits
  /\ layers \in Seq(LayerKinds)
  /\ IsABag(cmds) /\ \A s \in DOMAIN cmds : s \in Seq(Message) /\ s # <<>>

Init == frames = <<>> /\ waits = 0 /\ layers = <<>> /\ cmds = EmptyBag

Post(bag, s) == IF s = <<>> THEN bag ELSE bag (+) SetToBag({s})

-----------------------------------------------------------------------------
(* The views, as far as scripts depend on them.                            *)

Dialogs == LayerKinds \ {"oplog"}
Top == IF layers = <<>> THEN "revisions" ELSE Last(layers)
closeDialog == IF Top \in Dialogs THEN Front(layers) ELSE layers
openDialog(kind) == Append(closeDialog, kind)
\* The screen of that kind that is open already goes; there is never a second one
\* (ViewLayers, OneScreenOfAKind).
WithoutScreen(ls, kind) ==
  IF kind \in Range(ls) THEN RemoveAt(ls, CHOOSE i \in DOMAIN ls : ls[i] = kind) ELSE ls
openScreen(kind) == Append(WithoutScreen(layers, kind), kind)
RevisionsArePrimary == "oplog" \notin Range(layers)

-----------------------------------------------------------------------------
(* A runner.                                                               *)

\* Mutant of actionCompleted: a call that a script served is not answered.
actionNeverCompleted(i) == <<>>

actionCompleted(i) == IF i = 0 THEN <<>> ELSE <<Call("completed", i)>>

\* What the functions of the API that do not wait send, as far as a script can
\* tell: nothing, or the end of a program that runs in the terminal.
StepsBefore == {<<>>, <<Msg("execCompleted")>>}

\* A function of the API that is named after an action.
generatedAction(i) == <<Call("dispatch", i)>>

\* The command of a step that waits.
StepCommands(kind, i) ==
  CASE kind = "action"  -> {generatedAction(i)}
    [] kind = "choose"  -> {<<Msg("showChoose")>>}
    [] kind = "input"   -> {<<Msg("showInput")>>}
    [] kind = "refresh" -> {<<Msg("refresh")>>, <<>>}
    [] kind = "close"   -> {<<>>}

\* Runner.resume for the runner that serves call i on top of the frames
\* below: steps that do not wait, then one that does, or the end of the
\* script, which is also where an error leads.
Resume(below, i, rest) ==
  \E before \in StepsBefore :
    \/ /\ waits < MaxWaits
       /\ waits' = waits + 1
       /\ \E kind \in WaitKinds : \E command \in StepCommands(kind, waits + 1) :
            /\ frames' = Append(below, [id |-> i, wait |-> [kind |-> kind, id |-> waits + 1]])
            /\ cmds' = Post(rest, before \o command)
    \/ /\ frames' = below
       /\ cmds' = Post(rest, before \o actionCompleted(i))
       /\ UNCHANGED waits

\* What a runner waits for: matchActionCompleted, matchChoose, ...
Matches(wait, m) ==
  CASE wait.kind = "action"  -> m.type = "completed" /\ m.id = wait.id
    [] wait.kind = "choose"  -> m.type = "chosen"
    [] wait.kind = "input"   -> m.type = "entered"
    [] wait.kind = "refresh" -> m.type = "updated"
    [] wait.kind = "close"   -> m.type = "close"

\* handleScriptMsg: only the top runner sees the message.
handleScriptMsg(m, rest) ==
  IF frames # <<>> /\ Matches(Last(frames).wait, m)
    THEN Resume(Front(frames), Last(frames).id, rest)
    ELSE cmds' = rest /\ UNCHANGED <<frames, waits>>

-----------------------------------------------------------------------------
(* The handlers of Update, one per message.                                *)

\* A key may not start a script while one runs; a running script may call one.
Rejected(i) == i = 0 /\ frames # <<>>

\* The source does not compile, or a runner starts.
RunScript(i, rest) ==
  \/ cmds' = Post(rest, actionCompleted(i)) /\ UNCHANGED <<frames, waits>>
  \/ Resume(frames, i, rest)

RunLuaScript(m, rest) ==
  /\ \/ Rejected(m.id) /\ cmds' = rest /\ UNCHANGED <<frames, waits>>
     \/ ~Rejected(m.id) /\ RunScript(m.id, rest)
  /\ UNCHANGED layers

\* The action is a script, too.
DispatchLua(m, rest) ==
  /\ cmds' = Post(rest, <<Call("runLua", m.id)>>)
  /\ UNCHANGED <<frames, waits, layers>>

\* Mutants of DispatchIntent: the answer does not wait for the commands of the
\* action; both the handler and the deferred function answer.
DispatchIntentBatched(m, rest) ==
  /\ \E type \in {"close", "refresh"} :
       cmds' = Post(Post(rest, <<Effect(type, m.id)>>), actionCompleted(m.id))
  /\ UNCHANGED <<frames, waits, layers>>
DispatchIntentTwice(m, rest) ==
  /\ cmds' = Post(Post(rest, actionCompleted(m.id)), actionCompleted(m.id))
  /\ UNCHANGED <<frames, waits, layers>>

\* The action is an intent (or nothing at all): it opens a view or returns a
\* command, and the answer comes after the command.
DispatchIntent(m, rest) ==
  /\ \/ /\ \E effect \in {<<>>, <<Effect("close", m.id)>>, <<Effect("refresh", m.id)>>} :
             cmds' = Post(rest, effect \o actionCompleted(m.id))
        /\ UNCHANGED layers
     \/ /\ Len(layers) < MaxLayers
        /\ layers' \in {openDialog("dialog"), openScreen("oplog")}
        /\ cmds' = Post(rest, actionCompleted(m.id))
  /\ UNCHANGED <<frames, waits>>

ActionCompleted(m, rest) == handleScriptMsg(m, rest) /\ UNCHANGED layers

ShowDialog(m, rest) ==
  /\ layers' = openDialog(IF m.type = "showChoose" THEN "choose" ELSE "input")
  /\ cmds' = rest
  /\ UNCHANGED <<frames, waits>>

\* choose.SelectedMsg and CancelledMsg, and those of the input.
Answered(m, rest) == layers' = closeDialog /\ handleScriptMsg(m, rest)

\* A close goes to the help overlay, a question of the annotation or the split
\* pane; to the top view; or, with none of them, to everybody.
CloseOverlay(m, rest) ==
  /\ Top \notin Dialogs
  /\ cmds' = rest
  /\ UNCHANGED <<frames, waits, layers>>
CloseLayer(m, rest) ==
  /\ layers # <<>>
  /\ layers' = Front(layers)
  /\ cmds' \in CASE Top = "choose" -> {Post(rest, <<Msg("chosen")>>)}
                 [] Top = "input"  -> {Post(rest, <<Msg("entered")>>)}
                 [] Top = "dialog" -> {rest, Post(rest, <<Msg("close")>>)}  \* the history echoes it
                 [] OTHER -> {rest}
  /\ UNCHANGED <<frames, waits>>
CloseOperation(m, rest) ==
  /\ layers = <<>>
  /\ handleScriptMsg(m, rest)
  /\ UNCHANGED layers

\* Only the primary view hears of a refresh.  The list reports that it was
\* updated unless jj prints no row.
Refresh(m, rest) ==
  /\ \/ RevisionsArePrimary /\ cmds' = Post(rest, <<Msg("updated")>>)
     \/ cmds' = rest
  /\ UNCHANGED <<frames, waits, layers>>
Updated(m, rest) == handleScriptMsg(m, rest) /\ UNCHANGED layers

\* A program that the script ran has returned; the root model refreshes.
ExecCompleted(m, rest) ==
  /\ cmds' = Post(rest, <<Msg("refresh")>>)
  /\ UNCHANGED <<frames, waits, layers>>

Handle(m, rest) ==
  \/ m.type = "runLua" /\ RunLuaScript(m, rest)
  \/ m.type = "dispatch" /\ (DispatchLua(m, rest) \/ DispatchIntent(m, rest))
  \/ m.type = "completed" /\ ActionCompleted(m, rest)
  \/ m.type \in {"showChoose", "showInput"} /\ ShowDialog(m, rest)
  \/ m.type \in {"chosen", "entered"} /\ Answered(m, rest)
  \/ m.type = "close" /\ (CloseOverlay(m, rest) \/ CloseLayer(m, rest) \/ CloseOperation(m, rest))
  \/ m.type = "refresh" /\ Refresh(m, rest)
  \/ m.type = "updated" /\ Updated(m, rest)
  \/ m.type = "execCompleted" /\ ExecCompleted(m, rest)

Deliver(s) == Handle(Head(s), Post(cmds (-) SetToBag({s}), Tail(s)))

-----------------------------------------------------------------------------
(* Keys.                                                                   *)

KeyPosts(m) ==
  /\ BagCardinality(cmds) < MaxCmds
  /\ cmds' = Post(cmds, <<m>>)
  /\ UNCHANGED <<frames, waits, layers>>

ScriptKey  == Top # "input" /\ KeyPosts(Msg("runLua"))
ChooseKey  == Top = "choose" /\ KeyPosts(Msg("chosen"))
InputKey   == Top = "input" /\ KeyPosts(Msg("entered"))
CloseKey   == Top \notin {"choose", "input"} /\ KeyPosts(Msg("close"))
\* Also when the terminal gains the focus, or jj's operation log has changed.
RefreshKey == KeyPosts(Msg("refresh"))
ViewKey ==
  /\ Top # "input" /\ Len(layers) < MaxLayers
  /\ layers' \in {openDialog("dialog"), openScreen("oplog")}
  /\ UNCHANGED <<frames, waits, cmds>>

Next ==
  \/ \E s \in DOMAIN cmds : Deliver(s)
  \/ ScriptKey \/ ChooseKey \/ InputKey \/ CloseKey \/ RefreshKey \/ ViewKey

Spec == Init /\ [][Next]_vars

Carries(s, i) == \E k \in DOMAIN s : s[k].id = i
DeliverCall(i) == \E s \in DOMAIN cmds : Carries(s, i) /\ Deliver(s)

\* The event loop takes every message that is sent to it.
Fairness == \A i \in 1 .. MaxWaits : WF_vars(DeliverCall(i))
FairSpec == Spec /\ Fairness

-----------------------------------------------------------------------------
(* Properties.                                                             *)

Waiting(f, kind) == f.wait.kind = kind

\* The stack is a chain of calls: it starts with the script of a key, and every
\* runner but the top one waits for the answer to the call that the runner above
\* it serves.  So showing messages to the top runner only loses none that a lower
\* one waits for (ui.go handleScriptMsg and the check of scriptRunning).
CallChain ==
  \A k \in DOMAIN frames :
    IF k = 1 THEN frames[k].id = 0
    ELSE Waiting(frames[k - 1], "action") /\ frames[k].id = frames[k - 1].wait.id

\* Where call i may be: in a message, with the runner that serves it, and at the
\* runner that waits for it.
Carried(i) == \E s \in DOMAIN cmds : Carries(s, i)
Served(i)  == \E k \in DOMAIN frames : frames[k].id = i
Awaited(i) == \E k \in DOMAIN frames : Waiting(frames[k], "action") /\ frames[k].wait.id = i

\* No two messages carry the same call, nor is a sequence that carries one under
\* way twice.
CarriedOnce(bag) ==
  \A s, t \in DOMAIN bag : \A j \in DOMAIN s, k \in DOMAIN t :
    s[j].id # 0 /\ s[j].id = t[k].id => s = t /\ j = k /\ bag[s] = 1

ServedOnce == \A j, k \in DOMAIN frames : frames[j].id = frames[k].id => j = k

\* A call is answered exactly once: while a runner waits for call i, the call is
\* in exactly one place, a message or a runner that serves it, and nowhere once
\* the wait is over (ui.go DispatchActionMsg, RunLuaScriptMsg, handleScriptMsg:
\* each path ends with actionCompleted).
CallIsSomewhere ==
  /\ CarriedOnce(cmds) /\ ServedOnce
  /\ \A i \in 1 .. MaxWaits : /\ Awaited(i) <=> Carried(i) \/ Served(i)
                            /\ ~(Carried(i) /\ Served(i))

\* "Dispatched actions must finish their commands ... before Lua resumes"
\* (ui.go Update): when the answer to a call is about to be delivered, none of
\* the messages of its action is still under way.
EffectsBeforeResume ==
  \A s \in DOMAIN cmds : Head(s).type = "completed" =>
    \A t \in DOMAIN cmds : \A k \in DOMAIN t : t[k].of # Head(s).id

\* A runner on top that waits for an action does not wait for ever: it goes on,
\* or the action is a script, which then is on top.
TopWaitsFor(i) ==
  frames # <<>> /\ Waiting(Last(frames), "action") /\ Last(frames).wait.id = i
ActionReturns == \A i \in 1 .. MaxWaits : TopWaitsFor(i) ~> ~TopWaitsFor(i)

\* Scripts call one another as a stack: each runner but the top one waits for the one above it, and
\* every call under way is in exactly one place (ui.go handleScriptMsg).
CallsNest == TypeOK /\ CallChain /\ CallIsSomewhere
=============================================================================
