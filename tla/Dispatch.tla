------------------------------ MODULE Dispatch ------------------------------
(***************************************************************************)
(* From a key to an action: the scopes that are visible, the bindings of   *)
(* each, sequences of keys that are typed while scopes and conditions may  *)
(* change, the actions the configuration replaces, and where the result    *)
(* goes: a script, the intent of a scope, or the key itself to the scope   *)
(* that blocks.  The status line opens to show how a sequence goes on, and *)
(* every frame renews the help it shows.                                   *)
(***************************************************************************)
EXTENDS Integers, Sequences, SequencesExt, FiniteSets

CONSTANTS Bindings,        \* the bindings, in the order of the configuration
          Chains,          \* the chains of scopes there can be, innermost first
          Properties,      \* state properties that conditions name
          ActionWhen,      \* conditions of the actions that have one
          ConfiguredLua,   \* the actions with a script in the configuration
          BuiltIns,        \* the actions of the catalog
          StatusInputs,    \* the scopes of the inputs of the status line
          Handles          \* pairs <<scope, action>>: the scope handles the intent

Always == "always"

\* A binding has keys, each of which triggers it, or a sequence of two or more.
Binding(scope, keys, seq, action, when) ==
  [scope |-> scope, keys |-> keys, seq |-> seq, action |-> action, when |-> when]

Scope(name, leak, global) == [name |-> name, leak |-> leak, global |-> global, hidden |-> FALSE]

validBinding(b) == (b.keys = {}) /= (b.seq = <<>>) /\ Len(b.seq) /= 1

ASSUME BindingsAssumption == \A i \in DOMAIN Bindings : validBinding(Bindings[i])

VARIABLES scopes,          \* dispatchScopes()
          state,           \* the value of each property: "true", "false" or "unknown"
          buffered,        \* the keys of the sequence being typed
          candidates,      \* the bindings the sequence can still become
          seqHelp,         \* the continuations shown: none, opened by the sequence or open before
          expanded,        \* the status line is expanded
          groups,          \* the groups of keys the status line shows
          outcome          \* what the last key did

dispatchVars == <<scopes, state, buffered, candidates, seqHelp, expanded, groups, outcome>>

Outcome(kind, action, scope, keys) == [kind |-> kind, action |-> action, scope |-> scope, keys |-> keys]

DispatchInit ==
  /\ scopes \in Chains
  /\ state = [p \in Properties |-> "true"]
  /\ buffered = <<>>
  /\ candidates = <<>>
  /\ seqHelp = "none"
  /\ expanded = FALSE
  /\ groups = 0
  /\ outcome = Outcome("none", "", "", <<>>)

-----------------------------------------------------------------------------
\* Scopes and conditions

VisibleScopes(chain) ==
  LET blocking == {i \in DOMAIN chain : chain[i].leak /= "all"}
      first == CHOOSE i \in blocking : \A j \in blocking : i <= j
      inner == SubSeq(chain, 1, first)
  IN  IF blocking = {} THEN chain
      ELSE IF chain[first].leak = "none" THEN inner
      ELSE inner \o SelectSeq(SubSeq(chain, first + 1, Len(chain)), LAMBDA s : s.global)

VisibleNames(chain) == {s.name : s \in ToSet(VisibleScopes(chain))}

\* A condition on an unknown property does not hold.
Matches(when) == when = Always \/ state[when] = "true"

ActionEnabled(action) == action \in DOMAIN ActionWhen => Matches(ActionWhen[action])

bindingEnabled(b) == Matches(b.when) /\ ActionEnabled(b.action)

-----------------------------------------------------------------------------
\* Dispatcher.Resolve

InScope(name) == SelectSeq(Bindings, LAMBDA b : b.scope = name)

OfVisibleScopes ==
  LET visible == VisibleScopes(scopes)
  IN  FlattenSeq([i \in DOMAIN visible |-> InScope(visible[i].name)])

initialSequenceCandidates(key) ==
  SelectSeq(OfVisibleScopes, LAMBDA b : bindingEnabled(b) /\ b.seq /= <<>> /\ Head(b.seq) = key)

\* Mutant of eligibleCandidates: the candidates are those from when the sequence began.
staleCandidates(list) == list

eligibleCandidates(list) ==
  SelectSeq(list, LAMBDA b : bindingEnabled(b) /\ b.scope \in VisibleNames(scopes))

Resolution(buffer, list, kind, action, scope) ==
  [buffer |-> buffer, list |-> list, kind |-> kind, action |-> action, scope |-> scope]

Consumed == Resolution(<<>>, <<>>, "consumed", "", "")

\* The scope found first wins, and in it the binding added last.
resolveSequenceKey(key) ==
  LET typed == Append(buffered, key)
      filtered == SelectSeq(eligibleCandidates(candidates), LAMBDA b : IsPrefix(typed, b.seq))
      complete == SelectSeq(filtered, LAMBDA b : b.seq = typed)
      won == Last(SelectSeq(complete, LAMBDA b : b.scope = Head(complete).scope))
  IN  IF key = "esc" \/ filtered = <<>> THEN Consumed
      ELSE IF complete /= <<>> THEN Resolution(<<>>, <<>>, "action", won.action, won.scope)
      ELSE Resolution(typed, filtered, "pending", "", "")

resolveSingleKey(key) ==
  LET bound == SelectSeq(OfVisibleScopes, LAMBDA b : bindingEnabled(b) /\ key \in b.keys)
      won == Last(SelectSeq(bound, LAMBDA b : b.scope = Head(bound).scope))
  IN  IF bound = <<>> THEN Resolution(<<>>, <<>>, "none", "", "")
      ELSE Resolution(<<>>, <<>>, "action", won.action, won.scope)

Resolve(key) ==
  IF buffered /= <<>> THEN resolveSequenceKey(key)
  ELSE IF initialSequenceCandidates(key) /= <<>>
    THEN Resolution(<<key>>, initialSequenceCandidates(key), "pending", "", "")
    ELSE resolveSingleKey(key)

-----------------------------------------------------------------------------
\* What becomes of it

\* The innermost of the scopes, from the one the binding is in, that handles the intent.
RouteIntent(action, scope) ==
  LET start == CHOOSE i \in DOMAIN scopes : scopes[i].name = scope
      handlers == SelectSeq(VisibleScopes(SubSeq(scopes, start, Len(scopes))), LAMBDA s : <<s.name, action>> \in Handles)
  IN  IF handlers /= <<>> THEN Outcome("intent", action, Head(handlers).name, <<>>)
      ELSE IF scopes[start].leak /= "all" THEN Outcome("typed", action, scope, <<>>)
      ELSE Outcome("dropped", action, scope, <<>>)

\* The condition is looked at again, then the configuration, then the catalog.
resolveAction(action, scope) ==
  IF ~ActionEnabled(action) THEN Outcome("dropped", action, scope, <<>>)
  ELSE IF action \in ConfiguredLua THEN Outcome("script", action, scope, <<>>)
  ELSE IF action \in BuiltIns THEN RouteIntent(action, scope)
  ELSE Outcome("unresolved", action, scope, <<>>)

BlockingScope ==
  LET blocking == SelectSeq(scopes, LAMBDA s : s.leak /= "all")
  IN  IF blocking = <<>> THEN "" ELSE Head(blocking).name

\* A key that nothing took goes, as typed, to the first scope that blocks.
handleKey(r, keys) ==
  LET o == CASE r.kind = "action" -> resolveAction(r.action, r.scope)
             [] r.kind = "none"   -> Outcome("unresolved", "", "", <<>>)
             [] OTHER             -> Outcome(r.kind, "", "", <<>>)
  IN  [(IF o.kind = "unresolved" THEN Outcome("typed", o.action, BlockingScope, <<>>) ELSE o) EXCEPT !.keys = keys]

\* A focused input of the status line keeps its expansion as it is.
InputFocused == BlockingScope \in StatusInputs

SetStatusExpanded(open) == expanded' = IF InputFocused THEN expanded ELSE open

setSequenceStatusHelp ==
  IF seqHelp = "none"
  THEN /\ seqHelp' = IF expanded THEN "before" ELSE "opened"
       /\ SetStatusExpanded(TRUE)
  ELSE UNCHANGED <<seqHelp, expanded>>

clearSequenceStatusHelp ==
  /\ seqHelp' = "none"
  /\ IF seqHelp = "opened" THEN SetStatusExpanded(FALSE) ELSE UNCHANGED expanded

PressKey(key) ==
  LET r == Resolve(key) IN
  /\ buffered' = r.buffer
  /\ candidates' = r.list
  /\ outcome' = handleKey(r, Append(buffered, key))
  /\ IF r.kind = "pending" THEN setSequenceStatusHelp ELSE clearSequenceStatusHelp
  /\ UNCHANGED <<scopes, state, groups>>

\* A view opens or closes, by a message or a click, also while a sequence is typed.
ScopesChange(chain) ==
  /\ scopes' = chain
  /\ UNCHANGED <<state, buffered, candidates, seqHelp, expanded, groups, outcome>>

StateChanges(p, value) ==
  /\ state' = [state EXCEPT ![p] = value]
  /\ UNCHANGED <<scopes, buffered, candidates, seqHelp, expanded, groups, outcome>>

\* expand_status or Escape, between two sequences.  The line opens only when
\* it does not show all keys, which is a matter of the window's width.
ToggleStatusExpand ==
  /\ buffered = <<>>
  /\ SetStatusExpanded(~expanded)
  /\ UNCHANGED <<scopes, state, buffered, candidates, seqHelp, groups, outcome>>

\* A message that closes a view closes the expanded status line first, also
\* in the middle of a sequence.
CloseStatus ==
  /\ expanded
  /\ SetStatusExpanded(FALSE)
  /\ UNCHANGED <<scopes, state, buffered, candidates, seqHelp, groups, outcome>>

\* What is listed for a binding: its keys or its sequence.
BindingLabel(b) == <<b.keys, b.seq>>

\* Of the bindings of an action in a scope the last one is listed, and greyed while its conditions fail.
buildFromBindings(name) ==
  LET own == InScope(name)
      last == {i \in DOMAIN own : \A j \in i + 1 .. Len(own) : own[j].action /= own[i].action}
  IN  {[label |-> BindingLabel(own[i]), action |-> own[i].action,
        disabled |-> ~bindingEnabled(own[i]), overridden |-> FALSE] : i \in last}

buildGroupedFromBindings ==
  LET listed == SelectSeq(VisibleScopes(scopes), LAMBDA s : ~s.hidden /\ InScope(s.name) /= <<>>)
  IN  [i \in DOMAIN listed |-> [scope |-> listed[i].name, entries |-> buildFromBindings(listed[i].name)]]

\* An entry is struck out when a group further in has an enabled one with its label.
MarkOverriddenKeys(list) ==
  LET taken(i, e) == \E j \in 1 .. i - 1 : \E f \in list[j].entries : f.label = e.label /\ ~f.disabled
  IN  [i \in DOMAIN list |-> [list[i] EXCEPT !.entries = {[e EXCEPT !.overridden = taken(i, e)] : e \in @}]]

setHelpFromScopes == MarkOverriddenKeys(buildGroupedFromBindings)

\* The keys that go on with the sequence; a leaf ends it.
pendingContinuations ==
  LET next == Len(buffered) + 1
      open == {b \in ToSet(eligibleCandidates(candidates)) : Len(b.seq) >= next}
  IN  {[key |-> k, leaf |-> \A b \in open : b.seq[next] = k => Len(b.seq) = next] : k \in {b.seq[next] : b \in open}}

\* The continuations are one group, if any is left.
HelpGroups ==
  IF seqHelp = "none" THEN Len(setHelpFromScopes) ELSE IF pendingContinuations = {} THEN 0 ELSE 1

\* Every frame takes the help from the scopes or the continuations (updateStatus,
\* Sync, setGroups).
DrawFrame ==
  /\ groups' = HelpGroups
  /\ expanded' = (expanded /\ groups = HelpGroups)
  /\ UNCHANGED <<scopes, state, buffered, candidates, seqHelp, outcome>>

BoundKeys == (UNION {b.keys \cup ToSet(b.seq) : b \in ToSet(Bindings)}) \cup {"esc", "x"}

DispatchNext ==
  \/ \E key \in BoundKeys : PressKey(key)
  \/ \E chain \in Chains : ScopesChange(chain)
  \/ \E p \in Properties, value \in {"true", "false", "unknown"} : StateChanges(p, value)
  \/ ToggleStatusExpand \/ CloseStatus \/ DrawFrame

-----------------------------------------------------------------------------
\* An action runs only for a binding of exactly the keys that were typed
\* since the sequence began, in a scope that is visible now and under
\* conditions that hold now, whatever changed while it was typed
\* (eligibleCandidates, resolveSequenceKey).
ActionsAreBound ==
  [][outcome' /= outcome /\ outcome'.kind \in {"script", "intent"} =>
       \E b \in ToSet(Bindings) :
         /\ b.action = outcome'.action
         /\ b.scope \in VisibleNames(scopes) /\ bindingEnabled(b)
         /\ IF Len(outcome'.keys) = 1 THEN outcome'.keys[1] \in b.keys ELSE b.seq = outcome'.keys]_dispatchVars

\* While a sequence is typed its continuations are shown and there is at
\* least one way to go on from the keys typed so far (resolveSequenceKey,
\* clearSequenceStatusHelp).
SequenceCanGoOn ==
  /\ (buffered /= <<>>) = (seqHelp /= "none")
  /\ buffered /= <<>> => \E i \in DOMAIN candidates : Len(candidates[i].seq) > Len(buffered)
  /\ \A i \in DOMAIN candidates : IsPrefix(buffered, candidates[i].seq)

\* The help does not lie: the keys of an entry that is struck out run something of a scope further in,
\* what a key would run is listed for its scope, and a continuation shown is taken, a leaf as the last
\* key (builder.go).
HelpIsHonest ==
  /\ \A c \in pendingContinuations :
       c.key /= "esc" => Resolve(c.key).kind \in (IF c.leaf THEN {"action"} ELSE {"pending", "action"})
  /\ buffered = <<>> =>
       LET shown == ToSet(setHelpFromScopes)
       IN  \A k \in BoundKeys :
             LET r == Resolve(k)
             IN  r.kind = "action" =>
                   \A group \in {g \in shown : g.scope = r.scope} :
                     /\ \E e \in group.entries : e.action = r.action
                     /\ \A e \in group.entries : e.overridden => k \notin e.label[1]

\* A sequence under way can be continued and is shown, what runs at its end is bound to just its keys,
\* in a scope and under conditions of now, and the help tells it (dispatcher.go Resolve, builder.go).
KeysAreSound == [](SequenceCanGoOn /\ HelpIsHonest) /\ ActionsAreBound
=============================================================================
