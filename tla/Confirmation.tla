---------------------------- MODULE Confirmation ----------------------------
(***************************************************************************)
(* The question with options shown by details, describe, undo and others   *)
(* (confirmation.Model).  An option is the set of sequences of messages    *)
(* its command sends; a command is fixed when the question is opened.      *)
(***************************************************************************)
EXTENDS Integers, Sequences

\* esc is the number of the option that Escape stands for; 0: none, and Escape
\* closes the question.
Question(options, esc, about) ==
  [options |-> options, esc |-> esc, at |-> 1, about |-> about, touched |-> FALSE]
NoQuestion == Question(<<>>, 0, {})

QuestionClosed == {<<"question closed">>}

moveSelection(q, delta) ==
  LET next == q.at + delta
  IN  [q EXCEPT !.at = IF next < 1 THEN 1 ELSE IF next > Len(q.options) THEN Len(q.options) ELSE next]

\* A click selects the option and runs it.
selectOption(q, i) == [q |-> [q EXCEPT !.at = i], send |-> q.options[i]]

\* Enter, Escape, the arrows and the keys of the options.
QuestionKeys(q) ==
  {[q |-> moveSelection(q, delta), send |-> {}] : delta \in {-1, 1}}
  \cup {[q |-> q, send |-> q.options[q.at]]}
  \cup {[q |-> q, send |-> IF q.esc = 0 THEN QuestionClosed ELSE q.options[q.esc]]}
  \cup {[q |-> q, send |-> q.options[i]] : i \in DOMAIN q.options}
=============================================================================
