------------------------------ MODULE Describe ------------------------------
(***************************************************************************)
(* The description editor inside the revision list                         *)
(* (ui/operations/describe) on top of the text area of Bubbles, which is   *)
(* external.  The text area deletes with Ctrl+K and Ctrl+U but has no kill *)
(* buffer; describe computes beforehand what the key is going to delete,   *)
(* so that Ctrl+Y can bring it back.                                       *)
(***************************************************************************)
EXTENDS Integers, Sequences, FiniteSets, SequencesExt, FiniteSetsExt, Confirmation

CONSTANTS MaxText   \* bound on the length of the text

ASSUME DescribeAssumption == MaxText \in Nat \ {0}

VARIABLES
  desc,       \* the operation
  descCmds    \* sequences of messages under way

describeVars == <<desc, descCmds>>

\* A text is a sequence of letters and line ends; the cursor stands before pos + 1.
Letter == "a"
LineEnd == "\n"
Texts == BoundedSeq({Letter, LineEnd}, MaxText)

NewDescribe(original) ==
  [open |-> TRUE, text |-> original, pos |-> Len(original), original |-> original,
   killed |-> <<>>, question |-> NoQuestion]

\* Where the line of the cursor begins and ends.
LineFrom(d) == Max({0} \cup {i \in 1 .. d.pos : d.text[i] = LineEnd})
LineTo(d) == Min({Len(d.text)} \cup {i \in d.pos .. Len(d.text) - 1 : d.text[i + 1] = LineEnd})

\* The text area: what Ctrl+K and Ctrl+U delete, and inserting.
Cut(d, from, to) ==
  [d EXCEPT !.text = SubSeq(@, 1, from) \o SubSeq(@, to + 1, Len(@)), !.pos = from]
deleteAfterCursor(d) ==
  IF d.pos < LineTo(d) THEN Cut(d, d.pos, LineTo(d))
  ELSE IF d.pos < Len(d.text) THEN Cut(d, d.pos, d.pos + 1) ELSE d
deleteBeforeCursor(d) ==
  IF d.pos > LineFrom(d) THEN Cut(d, LineFrom(d), d.pos)
  ELSE IF d.pos > 0 THEN Cut(d, d.pos - 1, d.pos) ELSE d
InsertString(d, s) ==
  [d EXCEPT !.text = SubSeq(@, 1, d.pos) \o s \o SubSeq(@, d.pos + 1, Len(@)), !.pos = @ + Len(s)]

\* Mutant of captureKilledText: joining two lines is forgotten.
captureKilledTextInLine(d, forward) ==
  IF forward /\ d.pos < LineTo(d) THEN [d EXCEPT !.killed = SubSeq(d.text, d.pos + 1, LineTo(d))]
  ELSE IF ~forward /\ d.pos > LineFrom(d) THEN [d EXCEPT !.killed = SubSeq(d.text, LineFrom(d) + 1, d.pos)]
  ELSE d

captureKilledText(d, forward) ==
  [d EXCEPT !.killed =
     IF forward THEN IF d.pos < LineTo(d) THEN SubSeq(d.text, d.pos + 1, LineTo(d))
                     ELSE IF LineTo(d) < Len(d.text) THEN <<LineEnd>> ELSE d.killed
     ELSE IF d.pos > LineFrom(d) THEN SubSeq(d.text, LineFrom(d) + 1, d.pos)
          ELSE IF LineFrom(d) > 0 THEN <<LineEnd>> ELSE d.killed]

Fits(d) == Len(d.text) <= MaxText

(***************************************************************************)
(* Keys.                                                                   *)
(***************************************************************************)
Kill(forward) ==
  LET d == captureKilledText(desc, forward)
  IN  IF forward THEN deleteAfterCursor(d) ELSE deleteBeforeCursor(d)

\* Typing, Ctrl+Y, a new line, the arrows, InlineDescribeClear.
Edits ==
  {InsertString(desc, <<Letter>>), InsertString(desc, desc.killed), InsertString(desc, <<LineEnd>>)}
  \cup {[desc EXCEPT !.pos = p] : p \in {desc.pos - 1, desc.pos + 1} \cap 0 .. Len(desc.text)}
  \cup {[desc EXCEPT !.text = <<>>, !.pos = 0, !.killed = IF desc.text = <<>> THEN @ ELSE desc.text]}

Editing == desc.open /\ desc.question = NoQuestion

KillKey(forward) ==
  /\ Editing /\ desc' = Kill(forward)
  /\ UNCHANGED descCmds

EditKey ==
  /\ Editing
  /\ \E d \in Edits : Fits(d) /\ desc' = d
  /\ UNCHANGED descCmds

PasteText ==
  /\ desc.open
  /\ \E s \in {<<Letter>>, <<LineEnd>>} :
       desc' = (IF desc.question = NoQuestion THEN InsertString(desc, s) ELSE desc) /\ Fits(desc')
  /\ UNCHANGED descCmds

openCancelConfirmation ==
  [desc EXCEPT !.question = Question(<<{<<"discard">>}, QuestionClosed>>, 2, {})]

\* Accept, also with force, and the editor: jj is run with the text, then the
\* operation is closed, whether jj failed or not.
AcceptKey ==
  /\ Editing /\ descCmds = {}
  /\ descCmds' = {<<"ended", "applied", "refresh">>}
  /\ UNCHANGED desc

CancelDescribe ==
  /\ Editing /\ descCmds = {}
  /\ IF desc.text # desc.original THEN desc' = openCancelConfirmation /\ UNCHANGED descCmds
     ELSE descCmds' = {<<"close">>} /\ UNCHANGED desc

DescribeQuestionKey ==
  /\ desc.open /\ desc.question # NoQuestion /\ descCmds = {}
  /\ \E k \in QuestionKeys(desc.question) :
       desc' = [desc EXCEPT !.question = k.q] /\ descCmds' = k.send

DescribeDeliver ==
  \E c \in descCmds :
    /\ descCmds' = (descCmds \ {c}) \cup (IF Len(c) = 1 THEN {} ELSE {Tail(c)})
    /\ \/ /\ Head(c) \in {"discard", "close", "applied"}
          /\ desc' = [desc EXCEPT !.open = FALSE, !.question = NoQuestion]
       \/ /\ Head(c) = "question closed"
          /\ desc' = [desc EXCEPT !.question = NoQuestion]
       \/ /\ Head(c) \in {"ended", "refresh"} /\ UNCHANGED desc

DescribeInit ==
  /\ \E original \in {<<>>, <<Letter>>, <<Letter, LineEnd>>} : desc = NewDescribe(original)
  /\ descCmds = {}

DescribeNext ==
  \/ \E forward \in BOOLEAN : KillKey(forward)
  \/ EditKey \/ PasteText \/ AcceptKey \/ CancelDescribe \/ DescribeQuestionKey \/ DescribeDeliver

DescribeSpec == DescribeInit /\ [][DescribeNext]_describeVars

(***************************************************************************)
(* Properties.                                                             *)
(***************************************************************************)

\* Ctrl+K or Ctrl+U followed by Ctrl+Y gives back the text, at line ends too: what
\* describe says was deleted is what the text area deletes.
KillIsUndone ==
  [][ \A forward \in BOOLEAN :
        desc'.text # desc.text /\ KillKey(forward)
        => InsertString(desc', desc'.killed).text = desc.text ]_describeVars

=============================================================================
