------------------------------ MODULE MCInputs ------------------------------
(***************************************************************************)
(* What the user types at and chooses from, side by side: one part is in   *)
(* use and the others stand still.                                         *)
(***************************************************************************)
EXTENDS Menus, Dispatch, StatusLine, RevsetInput, Dialogs

VARIABLE inUse

\* A bookmark that is tracked, one of a second remote only and a local one.
ML(name, remote, tracked, commit) == Line(name, remote, TRUE, tracked, commit)
Tracked == <<ML(1, LocalRemote, FALSE, 21), ML(1, Origin, TRUE, 21)>>
Local == <<ML(3, LocalRemote, FALSE, 23)>>
MCMenuBookmarks == {<<ML(1, LocalRemote, FALSE, 21), ML(1, GitRemote, TRUE, 21), ML(1, Origin, TRUE, 21),
                      ML(2, 1001, FALSE, 22), ML(3, LocalRemote, FALSE, 23)>>}
MCMenuMovables == {<<Movable(1, 21, FALSE, TRUE), Movable(3, 23, FALSE, FALSE)>>}
MCMenuRemotes == {<<>>, <<1001, Origin>>}
MCMenuContext == [current |-> 22, visible |-> <<21, 22, 23>>]
MCGitSelections == {<<Tracked>>, <<Tracked, Local>>}
MCMenuTexts == {NoText, [word |-> "track", name |-> 0], [word |-> "", name |-> 1]}
MCRemotePrefixes == {<<Origin, 1001>>}

\* Keys and sequences that share a first key, within a scope and across scopes.
MCBindings == <<
  Binding("revisions", {"j"}, <<>>, "down", Always), Binding("revisions", {}, <<"g", "g">>, "top", Always),
  Binding("revisions", {}, <<"g", "p", "g">>, "push", "marked"), Binding("ui", {"j"}, <<>>, "none", Always),
  Binding("ui", {}, <<"g", "g">>, "git", Always), Binding("details", {}, <<"g", "p", "j">>, "script", Always),
  Binding("details", {"enter"}, <<>>, "down", "marked"), Binding("input", {"enter"}, <<>>, "apply", Always),
  Binding("ui.preview", {"p"}, <<>>, "scroll", Always), Binding("revset", {"x"}, <<>>, "apply", Always)>>
UIScope == Scope("ui", "none", TRUE)
RevisionsScope == Scope("revisions", "all", FALSE)
RevsetScope == [Scope("revset", "all", FALSE) EXCEPT !.hidden = TRUE]
MCChains == {<<RevisionsScope, RevsetScope, UIScope>>,
             <<Scope("details", "global", FALSE), RevisionsScope, Scope("ui.preview", "all", TRUE), UIScope>>,
             <<Scope("input", "none", FALSE), RevisionsScope, UIScope>>}
MCActionWhen == [a \in {"top"} |-> "marked"]
MCHandles == {<<"revisions", "down">>, <<"revisions", "top">>, <<"ui", "push">>, <<"ui", "git">>,
              <<"ui.preview", "scroll">>, <<"input", "apply">>}

\* Which lines of the status line are alike, for the fuzzy search.
MCAlike == {<<1, 101>>, <<2, 101>>, <<2, 102>>, <<1, 1>>, <<2, 1>>, <<1, 201>>}

\* A function of two arguments, the second of them named and a remote.
MCSourceItems == <<SourceItem(<<"a">>, "function", TRUE), SourceItem(<<"a", "b">>, "bookmark", FALSE),
                   SourceItem(<<"b">>, "function", FALSE)>>
MCRemoteItems == <<SourceItem(<<"b", "a">>, "remote", FALSE)>>
MCArguments == [f \in {<<"a">>} |-> <<Argument(<<"x">>, FALSE, TRUE, FALSE, "revset"),
                                      Argument(<<"b">>, TRUE, TRUE, FALSE, "remote")>>]
MCDefault == <<"b">>
MCValid == {<<"b">>, <<"a", "b">>}

\* Options, references and help entries that share words.
MCOptions == <<{"a"}, {"b"}, {"a", "b"}, {}>>
MCItems == <<{}, {"a"}, {"a", "b"}, {"b"}, {"a", "b"}>>
HE(id, words) == [id |-> id, words |-> words]
MCHelpGroups == <<[words |-> {"a"}, entries |-> <<HE(1, {}), HE(2, {"b"}), HE(3, {})>>],
                  [words |-> {}, entries |-> <<HE(4, {}), HE(5, {"b"}), HE(6, {}), HE(7, {})>>]>>

inputsVars == <<inUse, menuVars, dispatchVars, statusVars, revsetInputVars, dialogVars>>

Init ==
  /\ inUse \in {"menus", "keys", "status", "revset", "choose", "picker", "help"}
  /\ MenuInit /\ DispatchInit /\ StatusInit /\ RevsetInit /\ DialogsInit
  /\ inUse = "menus" \/ menu = NewBookmarkMenu(<<>>)      \* the others start in one state
  /\ inUse = "keys" \/ Head(scopes).name = "input"
  /\ inUse = "choose" \/ ~chooser.ordered

Next ==
  /\ UNCHANGED inUse
  /\ \/ inUse = "menus" /\ MenuNext /\ UNCHANGED <<dispatchVars, statusVars, revsetInputVars, dialogVars>>
     \/ inUse = "keys" /\ DispatchNext /\ UNCHANGED <<menuVars, statusVars, revsetInputVars, dialogVars>>
     \/ inUse = "status" /\ StatusNext /\ UNCHANGED <<menuVars, dispatchVars, revsetInputVars, dialogVars>>
     \/ inUse = "revset" /\ RevsetNext /\ UNCHANGED <<menuVars, dispatchVars, statusVars, dialogVars>>
     \/ inUse = "choose" /\ ChooseNext /\ UNCHANGED <<menuVars, dispatchVars, statusVars, revsetInputVars>>
     \/ inUse = "picker" /\ PickerNext /\ UNCHANGED <<menuVars, dispatchVars, statusVars, revsetInputVars>>
     \/ inUse = "help" /\ HelpNext /\ UNCHANGED <<menuVars, dispatchVars, statusVars, revsetInputVars>>

Spec == Init /\ [][Next]_inputsVars
=============================================================================
