------------------------------ MODULE Dialogs ------------------------------
(***************************************************************************)
(* Three dialogs with a list and a text that narrows it: the choice of a   *)
(* script (ui/choose), the target picker (ui/operations/target_picker,     *)
(* with the refined search of ui/fuzzy_search) and the keys help (ui/help).*)
(* Texts are sets of words; an item is the set of words it contains.  A    *)
(* click carries the index of a row of the last frame.                     *)
(***************************************************************************)
EXTENDS ListView, FiniteSets

CONSTANTS
  ChooseOptions,  \* the options of the choice, a sequence of sets of words
  PickerItems,    \* the items of the picker, likewise
  HelpGroupsOf,   \* the groups of the help, sequences of entries
  Words,          \* words that can be typed
  ListHeights,    \* rows a dialog has for its list
  HelpCols        \* columns that fit the width of the help

ASSUME DialogsAssumption == ListHeights \subseteq Nat \ {0} /\ HelpCols \subseteq 1 .. 3

VARIABLES
  chooser,  \* the choice
  picker,   \* the target picker
  helper,   \* the help
  rowsDrawn \* the first item and the number of items of the last frame of a dialog

dialogVars == <<chooser, picker, helper, rowsDrawn>>

Ones(n) == [i \in 1 .. n |-> 1]                      \* every item is one line
Indices(n) == [i \in 1 .. n |-> i]
NoRows == [first |-> 0, count |-> 0]
Cancelled == 0                                       \* an answer that is no item
NoAnswer == -1
TypedAnswer == -2                                    \* the text itself is the answer

\* The rows a list renderer draws: the start line it keeps and the items in view.
ListDrawn(start, cursor, ensure, n, height) ==
  LET clamped == ClampStartLine(start, height, n)
      at == IF n = 0 THEN start
            ELSE IF ensure THEN ensureCursorVisible(clamped, height, Ones(n), cursor) ELSE clamped
      spans == layoutAll(at, height, Ones(n))
  IN  [start |-> at, rows |-> IF n = 0 \/ spans = <<>> THEN NoRows ELSE [first |-> Head(spans).item, count |-> Len(spans)]]

-----------------------------------------------------------------------------
\* The choice.  Options are named by their place, from 1; the row selected counts from 0.

Contain(items, word) == SelectSeq(Indices(Len(items)), LAMBDA i : word \in items[i])
NoWord == "none"

filterOptions(c) ==
  LET filtered == IF c.word = NoWord THEN Indices(Len(ChooseOptions)) ELSE Contain(ChooseOptions, c.word)
  IN  [c EXCEPT !.filtered = filtered, !.selected = IF @ >= Len(filtered) THEN 0 ELSE @]

\* selectCurrent: no option, no choice.
selectCurrent(c) ==
  [c EXCEPT !.answer = IF c.filtered = <<>> THEN Cancelled ELSE c.filtered[c.selected + 1]]

NewChooser(ordered) ==
  [ordered |-> ordered, filtering |-> FALSE, word |-> NoWord, filtered |-> Indices(Len(ChooseOptions)),
   selected |-> 0, start |-> 0, ensure |-> FALSE, answer |-> NoAnswer]

ChooseOpenFilter ==
  /\ chooser.answer = NoAnswer /\ chooser' = [chooser EXCEPT !.filtering = TRUE]
  /\ UNCHANGED <<picker, helper, rowsDrawn>>

ChooseType(word) ==
  /\ chooser.answer = NoAnswer /\ chooser.filtering
  /\ chooser' = filterOptions([chooser EXCEPT !.word = word])
  /\ UNCHANGED <<picker, helper, rowsDrawn>>

\* A digit takes the option it is drawn before; in a filter it is a letter.
ChooseDigit(d) ==
  /\ chooser.answer = NoAnswer /\ ~chooser.filtering /\ chooser.ordered
  /\ d <= Len(chooser.filtered)
  /\ chooser' = selectCurrent([chooser EXCEPT !.selected = d - 1])
  /\ UNCHANGED <<picker, helper, rowsDrawn>>

ChooseNavigate(delta) ==
  LET next == AtMost(AtLeast(chooser.selected + delta, 0), Len(chooser.filtered) - 1)
  IN  /\ chooser.answer = NoAnswer /\ chooser.filtered # <<>> /\ next # chooser.selected
      /\ chooser' = [chooser EXCEPT !.selected = next, !.ensure = TRUE]
      /\ UNCHANGED <<picker, helper, rowsDrawn>>

ChooseApply ==
  /\ chooser.answer = NoAnswer /\ chooser' = selectCurrent(chooser)
  /\ UNCHANGED <<picker, helper, rowsDrawn>>

ChooseCancel ==
  /\ chooser.answer = NoAnswer
  /\ chooser' = IF chooser.filtering
                  THEN [chooser EXCEPT !.filtering = FALSE, !.word = NoWord, !.selected = 0,
                                       !.filtered = Indices(Len(ChooseOptions))]
                  ELSE [chooser EXCEPT !.answer = Cancelled]
  /\ UNCHANGED <<picker, helper, rowsDrawn>>

ChooseClick(row) ==
  /\ chooser.answer = NoAnswer /\ rowsDrawn.first + row < Len(chooser.filtered)
  /\ chooser' = selectCurrent([chooser EXCEPT !.selected = rowsDrawn.first + row])
  /\ UNCHANGED <<picker, helper, rowsDrawn>>

ChooseScroll(delta) ==
  /\ chooser.answer = NoAnswer /\ chooser.start + delta <= Len(ChooseOptions)    \* bound: the wheel
  /\ chooser' = [chooser EXCEPT !.start = AtLeast(@ + delta, 0)]
  /\ UNCHANGED <<picker, helper, rowsDrawn>>

ChooseDrawn ==
  \E height \in ListHeights :
    LET drawn == ListDrawn(chooser.start, chooser.selected, chooser.ensure, Len(chooser.filtered), height)
    IN  /\ chooser.answer = NoAnswer
        /\ rowsDrawn' = drawn.rows
        /\ chooser' = [chooser EXCEPT !.start = drawn.start, !.ensure = FALSE]
        /\ UNCHANGED <<picker, helper>>

ChooseNext ==
  \/ ChooseOpenFilter \/ ChooseApply \/ ChooseCancel \/ ChooseDrawn
  \/ \E word \in Words \cup {NoWord} : ChooseType(word)
  \/ \E d \in 1 .. 9 : ChooseDigit(d)
  \/ \E delta \in {-1, 1} : ChooseNavigate(delta) \/ ChooseScroll(delta)
  \/ \E row \in 0 .. rowsDrawn.count - 1 : ChooseClick(row)

-----------------------------------------------------------------------------
\* The target picker.  Items are named by their place, from 1; the cursor counts from 0, -1 is none.

\* The places of the strings that hold a word, in the order of their scores (external: the order is theirs).
FindFrom(word, strings) == Contain(strings, word)

\* Mutant of RefinedSearch: a refined match keeps its place among the matches before.
RefinedSearchPlaces(words, items) ==
  FoldLeft(LAMBDA matches, w : FindFrom(w, [i \in 1 .. Len(matches) |-> items[matches[i]]]),
           Indices(Len(items)), words)

\* Each word searches the matches of the words before it, and gives back places among the items.
RefinedSearch(words, items) ==
  FoldLeft(LAMBDA matches, w :
             LET found == FindFrom(w, [i \in 1 .. Len(matches) |-> items[matches[i]]])
             IN  [k \in 1 .. Len(found) |-> matches[found[k]]],
           Indices(Len(items)), words)

search(p, words) ==
  IF ~p.loaded THEN p
  ELSE LET matches == RefinedSearch(words, PickerItems)
       IN  IF matches = <<>> THEN [p EXCEPT !.matches = matches, !.searched = words, !.cursor = -1, !.start = 0]
           ELSE [p EXCEPT !.matches = matches, !.searched = words, !.ensure = TRUE,
                          !.cursor = AtMost(AtLeast(@, 0), Len(matches) - 1)]

NewPicker ==
  [loaded |-> FALSE, text |-> <<>>, searched |-> <<>>, matches |-> <<>>, cursor |-> 0, start |-> 0,
   ensure |-> TRUE, answer |-> NoAnswer]

\* itemsLoadedMsg: every item is shown, whatever has been typed by then.
ItemsLoaded ==
  /\ ~picker.loaded /\ picker.answer = NoAnswer
  /\ picker' = search([picker EXCEPT !.loaded = TRUE, !.start = 0], <<>>)
  /\ UNCHANGED <<chooser, helper, rowsDrawn>>

\* A key or a paste: a word more, or the last one gone.
PickerType ==
  /\ picker.answer = NoAnswer
  /\ \E text \in {Append(picker.text, w) : w \in Words} \cup {SubSeq(picker.text, 1, Len(picker.text) - 1)} :
       /\ Len(text) <= 2                                                      \* bound: words typed
       /\ picker' = search([picker EXCEPT !.text = text], text)
  /\ UNCHANGED <<chooser, helper, rowsDrawn>>

\* accept: the match under the cursor, or the text when there is none.
accept(p) ==
  [p EXCEPT !.answer = IF p.cursor \in 0 .. Len(p.matches) - 1 THEN p.matches[p.cursor + 1]
                       ELSE IF p.text # <<>> THEN TypedAnswer ELSE NoAnswer]

PickerNavigate(delta) ==
  LET n == Len(picker.matches)
      to == picker.cursor + delta
  IN  /\ picker.answer = NoAnswer /\ n > 0
      /\ picker' = [picker EXCEPT !.cursor = IF to < 0 THEN n - 1 ELSE IF to >= n THEN 0 ELSE to, !.ensure = TRUE]
      /\ UNCHANGED <<chooser, helper, rowsDrawn>>

PickerApply ==
  /\ picker.answer = NoAnswer /\ picker' = accept(picker)
  /\ UNCHANGED <<chooser, helper, rowsDrawn>>

PickerClick(row) ==
  /\ picker.answer = NoAnswer
  /\ picker' = accept([picker EXCEPT !.cursor = rowsDrawn.first + row, !.ensure = TRUE])
  /\ UNCHANGED <<chooser, helper, rowsDrawn>>

PickerCancel ==
  /\ picker.answer = NoAnswer /\ picker' = [picker EXCEPT !.answer = Cancelled]
  /\ UNCHANGED <<chooser, helper, rowsDrawn>>

PickerScroll(delta) ==
  /\ picker.answer = NoAnswer /\ picker.start + delta <= Len(PickerItems)        \* bound: the wheel
  /\ picker' = [picker EXCEPT !.start = AtLeast(@ + delta, 0), !.ensure = FALSE]
  /\ UNCHANGED <<chooser, helper, rowsDrawn>>

PickerDrawn ==
  \E height \in ListHeights :
    LET drawn == ListDrawn(picker.start, picker.cursor, picker.ensure, Len(picker.matches), height)
    IN  /\ picker.answer = NoAnswer
        /\ rowsDrawn' = drawn.rows
        /\ picker' = [picker EXCEPT !.start = drawn.start, !.ensure = FALSE]
        /\ UNCHANGED <<chooser, helper>>

PickerNext ==
  \/ ItemsLoaded \/ PickerType \/ PickerApply \/ PickerCancel \/ PickerDrawn
  \/ \E delta \in {-1, 1} : PickerNavigate(delta) \/ PickerScroll(delta)
  \/ \E row \in 0 .. rowsDrawn.count - 1 : PickerClick(row)

-----------------------------------------------------------------------------
\* The help.  A group is the words of its name and its entries.

Heading == 0                                         \* no entry

HelpMatches(group, entry, word) == word \in entry.words \/ word \in group.words

\* The groups with the entries that match; none stands for no filter at all.
applyFilter(word) ==
  LET narrowed == [g \in 1 .. Len(HelpGroupsOf) |->
                     [HelpGroupsOf[g] EXCEPT !.entries =
                        SelectSeq(@, LAMBDA e : HelpMatches(HelpGroupsOf[g], e, word))]]
  IN  IF word = NoWord THEN <<>> ELSE SelectSeq(narrowed, LAMBDA g : g.entries # <<>>)

\* The entries in columns, from the top of the first one to the bottom of the last: the lines, as places.
renderEntries(entries, cols) ==
  LET numRows == (Len(entries) + cols - 1) \div cols
  IN  [row \in 1 .. numRows |->
         SelectSeq([col \in 1 .. cols |-> (col - 1) * numRows + row], LAMBDA i : i <= Len(entries))]

\* The lines of the help: a blank line between groups, a heading, the entries.
renderGroups(groups, cols) ==
  FlattenSeq([g \in 1 .. Len(groups) |->
    (IF g > 1 THEN << <<>> >> ELSE <<>>) \o << <<Heading>> >> \o
    LET lines == renderEntries(groups[g].entries, cols)
    IN  [l \in 1 .. Len(lines) |-> [c \in 1 .. Len(lines[l]) |-> groups[g].entries[lines[l][c]].id]]])

HelpShown == IF helper.filtered # <<>> THEN helper.filtered ELSE HelpGroupsOf

NoHelpSeen == [cols |-> 1, height |-> 0, lines |-> <<>>]
NewHelper == [open |-> TRUE, filtering |-> FALSE, word |-> NoWord, filtered |-> <<>>, scroll |-> 0, seen |-> NoHelpSeen]

HelpFilter ==
  /\ helper.open /\ helper' = [helper EXCEPT !.filtering = TRUE]
  /\ UNCHANGED <<chooser, picker, rowsDrawn>>

HelpType(word) ==
  /\ helper.open /\ helper.filtering /\ word # helper.word
  /\ helper' = [helper EXCEPT !.word = word, !.filtered = applyFilter(word), !.scroll = 0, !.seen = NoHelpSeen]
  /\ UNCHANGED <<chooser, picker, rowsDrawn>>

\* Escape gives up the filter, or closes; Enter keeps the filter.
HelpCancel ==
  /\ helper.open
  /\ helper' = IF helper.filtering
                 THEN [helper EXCEPT !.filtering = FALSE, !.word = NoWord, !.filtered = <<>>, !.scroll = 0, !.seen = NoHelpSeen]
                 ELSE [helper EXCEPT !.open = FALSE]
  /\ UNCHANGED <<chooser, picker, rowsDrawn>>

HelpApply ==
  /\ helper.open /\ helper.filtering /\ helper' = [helper EXCEPT !.filtering = FALSE]
  /\ UNCHANGED <<chooser, picker, rowsDrawn>>

HelpScroll(delta) ==
  /\ helper.open /\ helper.scroll + delta <= 20                                  \* bound: the wheel
  /\ helper' = [helper EXCEPT !.scroll = IF delta = 0 THEN 0 ELSE AtLeast(0, @ + delta)]
  /\ UNCHANGED <<chooser, picker, rowsDrawn>>

\* A frame, with the lines it shows.
HelpDrawn ==
  \E height \in ListHeights, cols \in HelpCols :
    LET lines == renderGroups(HelpShown, cols)
        scroll == AtMost(helper.scroll, AtLeast(0, Len(lines) - height))
        visible == SubSeq(lines, scroll + 1, AtMost(scroll + height, Len(lines)))
    IN  /\ helper.open
        /\ helper' = [helper EXCEPT !.scroll = scroll, !.seen = [cols |-> cols, height |-> height, lines |-> visible]]
        /\ UNCHANGED <<chooser, picker, rowsDrawn>>

HelpNext ==
  \/ HelpFilter \/ HelpCancel \/ HelpApply \/ HelpDrawn
  \/ \E word \in Words \cup {NoWord} : HelpType(word)
  \/ \E delta \in {-3, 0, 3} : HelpScroll(delta)

DialogsInit ==
  /\ \E ordered \in BOOLEAN : chooser = NewChooser(ordered)
  /\ picker = NewPicker /\ helper = NewHelper /\ rowsDrawn = NoRows

-----------------------------------------------------------------------------
\* The row selected names an option of the list, and the list is the one the filter asks for, through
\* every order of typing, moving and giving the filter up: Enter can neither fail nor take an option
\* that the filter hides.
ChoiceIsListed ==
  /\ chooser.filtered = IF chooser.word = NoWord THEN Indices(Len(ChooseOptions))
                        ELSE Contain(ChooseOptions, chooser.word)
  /\ chooser.filtered # <<>> => chooser.selected \in 0 .. Len(chooser.filtered) - 1

\* The digit before an option takes that option, also after a filter has been given up.
DigitTakesOption == [][\A d \in 1 .. 9 : ChooseDigit(d) => chooser'.answer = d]_dialogVars

\* A match stands for the item it was found in: refining a search by a word more never loses the way
\* back from a place among the matches to a place among the items, and the cursor is on a match.
MatchesFitSearch ==
  picker.loaded =>
    /\ Range(picker.matches) = {i \in 1 .. Len(PickerItems) : Range(picker.searched) \subseteq PickerItems[i]}
    /\ picker.matches # <<>> => picker.cursor >= 0 /\ (picker.answer # NoAnswer \/ picker.cursor < Len(picker.matches))

\* Enter takes the text that was typed only if no item matches it: an item that does comes first.
TextIsLastResort ==
  [][PickerApply /\ picker'.answer = TypedAnswer /\ picker.loaded =>
       \A i \in 1 .. Len(PickerItems) : ~(Range(picker.text) \subseteq PickerItems[i])]_dialogVars

\* Every entry of the help has its place: the columns of a group hold each entry once, at any width.
EntriesHavePlaces ==
  \A g \in 1 .. Len(HelpShown), cols \in HelpCols :
    LET lines == renderEntries(HelpShown[g].entries, cols)
        places == FlattenSeq(lines)
    IN  /\ Len(places) = Len(HelpShown[g].entries)
        /\ Range(places) = 1 .. Len(HelpShown[g].entries)

\* Every line of the help can be scrolled to: a frame is full when there are lines enough, and past the
\* end the last line is the last of the frame, whatever the filter and the width were when scrolling began.
HelpFrameIsFull ==
  [][helper' # helper /\ HelpDrawn =>
       LET lines == renderGroups(HelpShown, helper'.seen.cols)
           seen == helper'.seen.lines
       IN  /\ Len(seen) = AtMost(helper'.seen.height, Len(lines))
           /\ helper.scroll >= Len(lines) => Last(seen) = Last(lines)
           /\ helper.scroll = 0 => Head(seen) = Head(lines)]_dialogVars

\* A filter that something matches shows what matches and nothing else.
HelpShowsMatches ==
  LET all == UNION {{<<HelpGroupsOf[g], e>> : e \in Range(HelpGroupsOf[g].entries)} : g \in 1 .. Len(HelpGroupsOf)}
      wanted == {p \in all : helper.word # NoWord /\ HelpMatches(p[1], p[2], helper.word)}
  IN  wanted # {} => UNION {Range(HelpShown[g].entries) : g \in 1 .. Len(HelpShown)} = {p[2] : p \in wanted}

\* What the choice, the picker and the help show is what their filters ask for, and what a key, a
\* digit or Enter takes is what is shown for it (choose.go, target_picker.go, help.go).
DialogsAreSound ==
  /\ [](ChoiceIsListed /\ MatchesFitSearch /\ EntriesHavePlaces /\ HelpShowsMatches)
  /\ DigitTakesOption /\ TextIsLastResort /\ HelpFrameIsFull
=============================================================================
