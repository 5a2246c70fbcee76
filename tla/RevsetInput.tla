---------------------------- MODULE RevsetInput ----------------------------
(***************************************************************************)
(* The revset input: what was typed, what is shown while one of the        *)
(* completions is previewed, the completions for the text up to its end,   *)
(* the history of revsets, and the revset that is in force.                *)
(* A text is a sequence of characters.                                     *)
(***************************************************************************)
EXTENDS Integers, Sequences, SequencesExt, FiniteSets

CONSTANTS Characters,      \* the characters that are typed
          NameChars,       \* those of a function's name
          TokenEnds,       \* those that end a token, blanks included
          SourceItems,     \* functions, aliases, bookmarks and tags, in order
          RemoteItems,     \* the remotes
          Arguments,       \* the arguments of the functions that are known, by name
          ValidRevsets,    \* the texts that jj accepts
          DefaultRevset,   \* one of them
          MaxHistoryItems, \* 50
          MaxText,         \* bound on the length of a text
          MaxRevsets       \* bound on the revsets under way

Space == " "
Quotes == {"'", "\""}

SourceItem(name, kind, params) == [name |-> name, kind |-> kind, params |-> params]
Argument(name, named, positional, variadic, source) ==
  [name |-> name, named |-> named, positional |-> positional, variadic |-> variadic, source |-> source]

VARIABLES input,           \* revset.Model
          revsetHistory,   \* its History
          revsetInForce,   \* context.CurrentRevset
          revsetMsgs       \* revsets on their way to the root view

revsetInputVars == <<input, revsetHistory, revsetInForce, revsetMsgs>>

-----------------------------------------------------------------------------
\* Where the text ends

\* The token that a text ends with, and where it starts.
lastTokenInfo(text) ==
  LET ends == {i \in DOMAIN text : text[i] \in TokenEnds}
      start == IF ends = {} THEN 1 ELSE Max(ends) + 1
  IN  [start |-> start, token |-> SubSeq(text, start, Len(text))]

leadingSpaceLen(text) ==
  LET others == {i \in DOMAIN text : text[i] /= Space}
  IN  IF others = {} THEN Len(text) ELSE Min(others) - 1

From(text, i) == SubSeq(text, i, Len(text))

TrimSpace(text) ==
  LET others == {i \in DOMAIN text : text[i] /= Space}
  IN  IF others = {} THEN <<>> ELSE SubSeq(text, Min(others), Max(others))

functionNameBefore(text, i) ==
  LET other == {j \in 1..(i - 1) : text[j] \notin NameChars}
  IN  SubSeq(text, IF other = {} THEN 1 ELSE Max(other) + 1, i - 1)

Equals(text) == {i \in DOMAIN text : text[i] = "="}

NamedIn(segment) ==
  IF Equals(segment) = {} THEN {} ELSE {TrimSpace(SubSeq(segment, 1, Min(Equals(segment)) - 1))} \ {<<>>}

Frame(name, start) == [name |-> name, arg |-> 0, start |-> start, used |-> {}]

\* One character of the text, outside and inside of quotes.
scan(text, acc, i) ==
  LET c == text[i]
      depth == Len(acc.frames)
      top == acc.frames[depth]
  IN
  IF acc.quote /= ""
  THEN IF acc.escaped THEN [acc EXCEPT !.escaped = FALSE]
       ELSE IF c = "\\" THEN [acc EXCEPT !.escaped = TRUE]
       ELSE IF c = acc.quote THEN [acc EXCEPT !.quote = ""] ELSE acc
  ELSE CASE c \in Quotes         -> [acc EXCEPT !.quote = c]
         [] c = "("              -> [acc EXCEPT !.frames = Append(@, Frame(functionNameBefore(text, i), i + 1))]
         [] c = ")" /\ depth > 0 -> [acc EXCEPT !.frames = Front(@)]
         [] c = "," /\ depth > 0 ->
              [acc EXCEPT !.frames[depth] =
                 [top EXCEPT !.arg = @ + 1, !.start = i + 1, !.used = @ \cup NamedIn(SubSeq(text, top.start, i - 1))]]
         [] OTHER                -> acc

Scanned(text) ==
  FoldLeft(LAMBDA acc, i : scan(text, acc, i), [frames |-> <<>>, quote |-> "", escaped |-> FALSE],
           [i \in 1..Len(text) |-> i])

Context(inFunction, frame, named, value, start, token) ==
  [inFunction |-> inFunction, function |-> frame.name, arg |-> frame.arg, used |-> frame.used,
   named |-> named, value |-> value, start |-> start, token |-> token]

analyzeCompletionContext(text) ==
  LET frames == Scanned(text).frames
      top == Last(frames)
      trimmed == top.start + leadingSpaceLen(From(text, top.start))
      argument == From(text, trimmed)
      eq == Min(Equals(argument))
      value == trimmed + eq + leadingSpaceLen(From(text, trimmed + eq))
      last == lastTokenInfo(IF frames = <<>> THEN text ELSE argument)
  IN  IF frames = <<>> THEN Context(FALSE, Frame(<<>>, 1), FALSE, <<>>, last.start, last.token)
      ELSE IF Equals(argument) /= {}
        THEN Context(TRUE, top, TRUE, TrimSpace(SubSeq(argument, 1, eq - 1)), value, From(text, value))
        ELSE Context(TRUE, top, FALSE, <<>>, trimmed + last.start - 1, last.token)

-----------------------------------------------------------------------------
\* Completions

Completion(name, insert, start, kind) == [name |-> name, insert |-> insert, start |-> start, kind |-> kind]

insertText(si) ==
  IF si.kind /= "function" THEN si.name ELSE si.name \o (IF si.params THEN <<"(">> ELSE <<"(", ")">>)

Offered(items, start) == [i \in DOMAIN items |-> Completion(items[i].name, insertText(items[i]), start, items[i].kind)]

\* A token that is empty matches only after the name of an argument.
matchSourceItems(items, start, token, allowEmpty) ==
  IF token = <<>> /\ ~allowEmpty THEN <<>>
  ELSE Offered(SelectSeq(items, LAMBDA si : IsPrefix(token, si.name)), start)

valueCompletions(source, start, token, allowEmpty) ==
  CASE source = "none"   -> <<>>
    [] source = "remote" -> matchSourceItems(RemoteItems, start, token, allowEmpty)
    [] OTHER             -> matchSourceItems(SourceItems, start, token, allowEmpty)

namedArgumentCompletions(arguments, start, token, used) ==
  LET free == SelectSeq(arguments, LAMBDA a : a.named /\ a.name \notin used /\ IsPrefix(token, Append(a.name, "=")))
  IN  [i \in DOMAIN free |-> Completion(Append(free[i].name, "="), Append(free[i].name, "="), start, "argument")]

\* The positional argument with this index, or the one before it that repeats.
argumentAt(arguments, index) ==
  LET positional == SelectSeq(arguments, LAMBDA a : a.positional)
      fitting == {j \in DOMAIN positional : j = index + 1 \/ (j <= index + 1 /\ positional[j].variadic)}
  IN  IF fitting = {} THEN <<>> ELSE <<positional[Min(fitting)]>>

argumentCompletions(c) ==
  LET arguments == Arguments[c.function]
      given == SelectSeq(arguments, LAMBDA a : a.named /\ a.name = c.value)
      at == argumentAt(arguments, c.arg)
  IN
  CASE c.function \notin DOMAIN Arguments -> matchSourceItems(SourceItems, c.start, c.token, FALSE)
    [] c.function \in DOMAIN Arguments /\ c.named ->
         IF given = <<>> THEN <<>> ELSE valueCompletions(given[1].source, c.start, c.token, TRUE)
    [] OTHER ->
         namedArgumentCompletions(arguments, c.start, c.token, c.used)
           \o (IF at = <<>> THEN <<>> ELSE valueCompletions(at[1].source, c.start, c.token, FALSE))

\* With nothing typed the history is offered, then everything.
GetCompletionItems(text, history) ==
  LET c == analyzeCompletionContext(text) IN
  IF text = <<>>
  THEN [i \in DOMAIN history |-> Completion(history[i], history[i], 1, "history")] \o Offered(SourceItems, 1)
  ELSE IF c.inFunction THEN argumentCompletions(c) ELSE matchSourceItems(SourceItems, c.start, c.token, FALSE)

\* A place behind the end of the text, of a list for another one, is its end.
applyCompletion(text, item) ==
  IF item.kind = "history" THEN item.name
  ELSE SubSeq(text, 1, IF item.start - 1 > Len(text) THEN Len(text) ELSE item.start - 1) \o item.insert

-----------------------------------------------------------------------------
\* The input

None == 0

Input(editing, value, typed, items, selected) ==
  [editing |-> editing, value |-> value, typed |-> typed, items |-> items, selected |-> selected]

RevsetInit ==
  /\ input = Input(FALSE, DefaultRevset, <<>>, <<>>, None)
  /\ revsetHistory = <<>>
  /\ revsetInForce = DefaultRevset
  /\ revsetMsgs = <<>>

\* Mutant of Typed: the completions stay.
TypedOnly(text) == [input EXCEPT !.value = text, !.typed = text, !.selected = None]

\* What was typed, or what a completion has become, with its completions.
Typed(text) ==
  [input EXCEPT !.value = text, !.typed = text, !.selected = None, !.items = GetCompletionItems(text, revsetHistory)]

\* A preview is shown over what was typed; the name of an argument is taken at once.
Previewed(index) ==
  LET item == input.items[index] IN
  IF item.kind = "argument" THEN Typed(applyCompletion(input.typed, item))
  ELSE [input EXCEPT !.selected = index, !.value = applyCompletion(input.typed, item)]

Fits(text) == Len(text) <= MaxText

Edit(clear) ==
  /\ input' = [Typed(IF clear THEN <<>> ELSE input.value) EXCEPT !.editing = TRUE]
  /\ UNCHANGED <<revsetHistory, revsetInForce, revsetMsgs>>

Key(text) ==
  /\ input.editing /\ Fits(text)
  /\ input' = Typed(text)
  /\ UNCHANGED <<revsetHistory, revsetInForce, revsetMsgs>>

TypeCharacter(c) == Key(Append(input.value, c))

DeleteCharacter == input.value /= <<>> /\ Key(Front(input.value))

CompletionCycle(reverse) ==
  LET n == Len(input.items)
      next == IF reverse THEN (IF input.selected <= 1 THEN n ELSE input.selected - 1)
              ELSE (IF input.selected >= n THEN 1 ELSE input.selected + 1)
  IN
  /\ input.editing
  /\ input' = IF n = 0 THEN input ELSE Previewed(next)
  /\ Fits(input'.value)
  /\ UNCHANGED <<revsetHistory, revsetInForce, revsetMsgs>>

\* A click on a row of the last frame, which may be of an earlier list or of
\* an input that was left since.
CompletionClick(index) ==
  /\ index \in DOMAIN input.items
  /\ input' = Typed(applyCompletion(input.typed, input.items[index]))
  /\ Fits(input'.value)
  /\ UNCHANGED <<revsetHistory, revsetInForce, revsetMsgs>>

RevsetCancel ==
  /\ input.editing
  /\ input' = [input EXCEPT !.editing = FALSE]
  /\ UNCHANGED <<revsetHistory, revsetInForce, revsetMsgs>>

OrDefault(text) == IF TrimSpace(text) = <<>> THEN DefaultRevset ELSE text

Leave(text) ==
  /\ Len(revsetMsgs) < MaxRevsets
  /\ input' = [input EXCEPT !.editing = FALSE]
  /\ revsetMsgs' = Append(revsetMsgs, text)
  /\ UNCHANGED <<revsetHistory, revsetInForce>>

\* A revset that jj refuses leaves the input open.
RevsetApply ==
  /\ input.editing
  /\ OrDefault(input.value) \in ValidRevsets
  /\ Leave(OrDefault(input.value))

Reset == Leave(DefaultRevset)

Set(text) == Leave(OrDefault(text))

AddToHistory(history, text) ==
  LET all == <<text>> \o SelectSeq(history, LAMBDA item : item /= text)
  IN  SubSeq(all, 1, IF Len(all) > MaxHistoryItems THEN MaxHistoryItems ELSE Len(all))

\* The root view takes the revset, and the input shows it, also one that is
\* being edited.
UpdateRevSetArrives(i) ==
  LET text == revsetMsgs[i]
      force == IF text = <<>> THEN DefaultRevset ELSE text
  IN
  /\ revsetInForce' = force
  /\ revsetHistory' = AddToHistory(revsetHistory, force)
  /\ input' = [input EXCEPT !.editing = FALSE, !.value = text, !.typed = text, !.selected = None]
  /\ revsetMsgs' = RemoveAt(revsetMsgs, i)

RevsetNext ==
  \/ \E clear \in BOOLEAN : Edit(clear)
  \/ \E c \in Characters : TypeCharacter(c)
  \/ DeleteCharacter
  \/ \E reverse \in BOOLEAN : CompletionCycle(reverse)
  \/ \E index \in 1..Len(input.items) : CompletionClick(index)
  \/ RevsetCancel
  \/ RevsetApply
  \/ Reset \/ Set(<<>>)
  \/ \E i \in DOMAIN revsetMsgs : UpdateRevSetArrives(i)

-----------------------------------------------------------------------------
\* While the input is open it shows what was typed, or the selected
\* completion of just that, and the completions are those of what was typed,
\* whatever was previewed, taken, clicked or left before (updatePreview,
\* selectCompletionItem, updateCompletionItems).
PreviewIsOfTypedText ==
  input.editing =>
    /\ input.items = GetCompletionItems(input.typed, revsetHistory)
    /\ input.value = IF input.selected = None THEN input.typed
                     ELSE applyCompletion(input.typed, input.items[input.selected])

\* A completion only adds to what was typed, wherever in a call, in quotes or
\* after blanks the text ends (analyzeCompletionContext, lastTokenInfo).
CompletionsExtend ==
  \A i \in DOMAIN input.items :
    input.items[i].kind /= "history" /\ input.editing => IsPrefix(input.typed, applyCompletion(input.typed, input.items[i]))

\* Positions of the text outside of quotes.
Open(text) == {i \in DOMAIN text : Scanned(SubSeq(text, 1, i - 1)).quote = "" /\ text[i] \notin Quotes}
Count(text, c, i, j) == Cardinality({k \in Open(text) \cap (i..j) : text[k] = c})

\* The call that a text ends in is the innermost that is never closed again,
\* and the argument is counted by the commas since then that are in no
\* further call (analyzeCompletionContext).
ContextIsInnermostCall ==
  LET text == input.typed
      unclosed == {p \in Open(text) : text[p] = "(" /\
                     \A j \in p..Len(text) : Count(text, "(", p, j) > Count(text, ")", p, j)}
      c == analyzeCompletionContext(text)
      p == Max(unclosed)
      commas == {k \in Open(text) \cap (p..Len(text)) : text[k] = "," /\ Count(text, "(", p, k) = Count(text, ")", p, k) + 1}
  IN  /\ c.inFunction = (unclosed /= {})
      /\ c.inFunction => c.function = functionNameBefore(text, p) /\ c.arg = Cardinality(commas)

\* The history has no revset twice, and the newest is the one in force
\* (AddToHistory).
HistoryIsOfForce ==
  /\ IsInjective(revsetHistory) /\ Len(revsetHistory) <= MaxHistoryItems
  /\ revsetHistory /= <<>> => Head(revsetHistory) = revsetInForce

\* The revset input shows what was typed or a completion of just that, computed for the innermost
\* open call, and its history is that of the revsets in force (revset.go Update).
RevsetIsSound == PreviewIsOfTypedText /\ CompletionsExtend /\ ContextIsInnermostCall /\ HistoryIsOfForce
=============================================================================
