------------------------------ MODULE Preview ------------------------------
(***************************************************************************)
(* The pane beside the primary view and the preview in it.  A change of    *)
(* the highlighted item starts a debounced command: it waits 50 ms, checks *)
(* that no later call replaced it, runs jj, checks again and only then     *)
(* answers.  The event loop hands messages to the active pane alone, so an *)
(* answer for a hidden preview is lost.  Each answer waits in a goroutine  *)
(* of its own for the event loop, which now and then runs jj itself: an    *)
(* answer may be handled late, after newer calls were made and have ended. *)
(***************************************************************************)
EXTENDS Integers, Sequences, SequencesExt

CONSTANTS Items,           \* the items that can be highlighted, positive numbers
          MaxCalls,        \* bound: debounced calls alive and answers not handled, together
          MaxChanges,      \* bound: selection messages under way at once
          MaxOffset        \* the last offset the viewport can be scrolled to

NoItem == 0
ScriptText == -1           \* content put there by ui.preview_show
VARIABLES highlighted,     \* context.Selection().Highlighted
          changes,         \* SelectionChangedMsg and RefreshMsg not handled yet
          pcalls,          \* goroutines of Debounce, oldest first
          answers,         \* updatePreviewContentMsg not handled yet; history: late,
                           \* another call was made since
          pview,           \* the preview: content, contentItem, offset; history:
                           \* scripted, opened by a script and nothing selected since;
                           \* overtaken, a late answer came after the last call had
                           \* read contentItem, and no newer one since
          split            \* the container: active, focused, the focus of the views

previewVars == <<highlighted, changes, pcalls, answers, pview, split>>

PreviewInit ==
  /\ highlighted \in Items
  /\ changes = 0
  /\ pcalls = <<>>
  /\ answers = <<>>
  /\ pview = [content |-> NoItem, item |-> NoItem, offset |-> 0, scripted |-> FALSE,
              overtaken |-> FALSE]
  /\ split = [active |-> "", focused |-> FALSE, primary |-> TRUE, content |-> FALSE]

-----------------------------------------------------------------------------
\* Debounce

\* entry: the call is the one in debouncers; done: its context is cancelled.
Call(item) == [item |-> item, stage |-> "timer", entry |-> TRUE, done |-> FALSE]

Superseded(c) == [c EXCEPT !.entry = FALSE, !.done = @ \/ c.entry]

Debounce(calls, item) ==
  Append([i \in DOMAIN calls |-> Superseded(calls[i])], Call(item))

isLatest(c) == c.entry /\ ~c.done

Advance(i, stage) ==
  pcalls' = IF isLatest(pcalls[i]) THEN [pcalls EXCEPT ![i].stage = stage] ELSE RemoveAt(pcalls, i)

\* The timer ends, or the context of a replaced call does.
TimerEnds(i) ==
  /\ pcalls[i].stage = "timer"
  /\ Advance(i, "started")
  /\ UNCHANGED <<highlighted, changes, answers, pview, split>>

\* The command reads contentItem, without a lock, and has nothing to do when
\* the preview shows the item.
ReadContentItem(i) ==
  /\ pcalls[i].stage = "started"
  /\ pcalls' = IF pview.item = pcalls[i].item THEN RemoveAt(pcalls, i) ELSE [pcalls EXCEPT ![i].stage = "running"]
  /\ UNCHANGED <<highlighted, changes, answers, pview, split>>

\* Mutant of answered: a call that was replaced while its command ran still answers.
answeredAlways(c) == TRUE

answered(c) == isLatest(c)

CommandEnds(i) ==
  /\ pcalls[i].stage = "running"
  /\ pcalls' = RemoveAt(pcalls, i)
  /\ answers' = IF answered(pcalls[i]) THEN Append(answers, [item |-> pcalls[i].item, late |-> FALSE]) ELSE answers
  /\ UNCHANGED <<highlighted, changes, pview, split>>

-----------------------------------------------------------------------------
\* The preview

SetContent(content, item) == [pview EXCEPT !.content = content, !.item = item, !.offset = 0]

\* Another item is highlighted, or a refresh begins: the view that did it sends a message.
SelectionMoves(item) ==
  /\ changes < MaxChanges
  /\ highlighted' = item
  /\ changes' = changes + 1
  /\ UNCHANGED <<pcalls, answers, pview, split>>

\* The message reaches the preview when the preview is the active content.
SelectionChanged ==
  /\ changes > 0
  /\ changes' = changes - 1
  /\ IF split.active = "preview"
       THEN /\ Len(pcalls) + Len(answers) < MaxCalls
            /\ pcalls' = Debounce(pcalls, highlighted)
            /\ answers' = [i \in DOMAIN answers |-> [answers[i] EXCEPT !.late = TRUE]]
            /\ pview' = [pview EXCEPT !.scripted = FALSE, !.overtaken = FALSE]
       ELSE UNCHANGED <<pcalls, answers, pview>>
  /\ UNCHANGED <<highlighted, split>>

\* The newest call has yet to look at what the preview shows.
WillLook == \E i \in DOMAIN pcalls : pcalls[i].entry /\ pcalls[i].stage # "running"

\* The answers come in any order.
UpdatePreviewContent(i) ==
  /\ answers' = RemoveAt(answers, i)
  /\ pview' = IF split.active # "preview" THEN pview
              ELSE [SetContent(answers[i].item, answers[i].item) EXCEPT
                      !.overtaken = answers[i].late /\ (@ \/ ~WillLook)]
  /\ UNCHANGED <<highlighted, changes, pcalls, split>>

\* The viewport keeps the offset inside the content.
PreviewScroll(delta) ==
  /\ split.active = "preview"
  /\ pview.offset + delta \in 0..MaxOffset
  /\ pview' = [pview EXCEPT !.offset = @ + delta]
  /\ UNCHANGED <<highlighted, changes, pcalls, answers, split>>

-----------------------------------------------------------------------------
\* The container

setContentFocused(s, focused) ==
  IF focused /\ s.active = "" THEN s
  ELSE [s EXCEPT !.focused = focused, !.content = IF s.active = "" THEN @ ELSE focused, !.primary = ~focused]

\* The content that was shown loses the focus and is hidden.
ShowContent(s, id) ==
  IF s.active = id THEN s
  ELSE setContentFocused([s EXCEPT !.active = id, !.content = FALSE], FALSE)

CloseContent(s) ==
  IF s.active = "" THEN s ELSE [setContentFocused(s, FALSE) EXCEPT !.active = ""]

ToggleContent(s, id) == IF s.active = id THEN CloseContent(s) ELSE ShowContent(s, id)

\* OnShow of the preview resets the offsets.
OnShow(s) == IF s.active = "preview" /\ split.active /= "preview" THEN [pview EXCEPT !.offset = 0] ELSE pview

\* The keys reach the pane when it has the focus, and the preview never does.
PreviewToggle ==
  /\ changes < MaxChanges
  /\ split' = setContentFocused(ToggleContent(split, "preview"), FALSE)
  /\ pview' = OnShow(split')
  /\ changes' = changes + 1
  /\ UNCHANGED <<highlighted, pcalls, answers>>

\* PreviewToggleBottom, and the ShowPreview message.
ShowPreview ==
  /\ changes < MaxChanges
  /\ split' = setContentFocused(ShowContent(split, "preview"), FALSE)
  /\ pview' = OnShow(split')
  /\ changes' = IF split.active = "preview" THEN changes ELSE changes + 1
  /\ UNCHANGED <<highlighted, pcalls, answers>>

\* A script shows a text of its own; contentItem stays.
PreviewShow ==
  /\ split' = setContentFocused(ShowContent(split, "preview"), FALSE)
  /\ pview' = [SetContent(ScriptText, pview.item) EXCEPT !.scripted = @ \/ split.active # "preview"]
  /\ UNCHANGED <<highlighted, changes, pcalls, answers>>

ToggleBookmarkPane ==
  /\ split' = IF split.active = "bookmark-pane" THEN CloseContent(split)
              ELSE setContentFocused(ShowContent(split, "bookmark-pane"), TRUE)
  /\ UNCHANGED <<highlighted, changes, pcalls, answers, pview>>

\* FocusNextPane, and a click into one of the two panes.
FocusOther(focused) ==
  /\ split.active = "bookmark-pane"
  /\ split' = setContentFocused(split, focused)
  /\ UNCHANGED <<highlighted, changes, pcalls, answers, pview>>

PreviewNext ==
  \/ \E item \in Items : SelectionMoves(item)
  \/ SelectionChanged
  \/ \E i \in DOMAIN answers : UpdatePreviewContent(i)
  \/ \E i \in DOMAIN pcalls : TimerEnds(i) \/ ReadContentItem(i) \/ CommandEnds(i)
  \/ \E delta \in {-1, 1} : PreviewScroll(delta)
  \/ PreviewToggle \/ ShowPreview \/ PreviewShow \/ ToggleBookmarkPane
  \/ \E focused \in BOOLEAN : FocusOther(focused)

PreviewSpec == PreviewInit /\ [][PreviewNext]_previewVars

-----------------------------------------------------------------------------
\* Once nothing is under way, a preview that is shown has the output of the
\* highlighted item: no order of selections, cancelled calls, answers, hiding
\* and showing leaves an older item (Debounce and refreshPreviewForItem),
\* with three exceptions that the code has.  A pane that a script opened keeps
\* the script's text until a selection.  A script's text put over the output
\* of the highlighted item stays as long as that item is the one asked for,
\* since contentItem still names it and refreshes of it are dropped.  And a
\* late answer, handled after the newest call had seen nothing to do, puts an
\* older item there until the next selection or refresh.
PreviewIsCurrent ==
  split.active = "preview" /\ changes = 0 /\ pcalls = <<>> /\ answers = <<>>
    => \/ pview.item = highlighted /\ pview.content \in {highlighted, ScriptText}
       \/ pview.scripted \/ pview.overtaken

\* An answer brings an item that the preview does not have, so that a refresh
\* of what is shown does not scroll it back to the top (the test of
\* contentItem in refreshPreviewForItem, read outside the event loop): unless
\* it is late or a late one came while it was made.
AnswersAreNews ==
  ~pview.overtaken => \A i \in DOMAIN answers : answers[i].late \/ answers[i].item /= pview.item

\* The list and the pane never both have the focus or both lack it, and a
\* hidden pane never keeps it (setContentFocused).
FocusIsInOnePlace ==
  /\ split.primary /= split.focused
  /\ split.content = split.focused
  /\ split.focused => split.active = "bookmark-pane"

\* At rest the preview has the output of the highlighted item, save for late answers and scripts' texts
\* as told above, answers that come in time are news, and exactly one of list and pane has the focus
\* (preview.go, debounce.go, container.go).
PreviewIsSound == PreviewIsCurrent /\ AnswersAreNews /\ FocusIsInOnePlace
=============================================================================
