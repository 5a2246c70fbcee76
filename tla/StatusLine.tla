----------------------------- MODULE StatusLine -----------------------------
(***************************************************************************)
(* The inputs of the status line (commands, quick search, file search),    *)
(* the list of matches over each, the revset a file search previews, and   *)
(* the histories that are read once, kept per session and appended to      *)
(* their file when the program ends.                                       *)
(*                                                                         *)
(* Messages are handed over by goroutines of their own: a search or a tick *)
(* may arrive at any later time, also for the input that has followed.     *)
(* Assumed: the list of files that was asked for and the revsets to show,  *)
(* which are ready when the command is made, arrive before the next key.   *)
(***************************************************************************)
EXTENDS Integers, Sequences, SequencesExt, FiniteSets, Ordered

CONSTANTS TypedTexts,      \* what can be typed, besides nothing
          PathCount,       \* the number of paths of the revision
          Alike,           \* pairs <<text, entry>> that match
          ListMax,         \* the entries of a history that are walked through (30)
          SuggestMode,     \* the configured suggest mode
          OtherLines,      \* lines that other instances save
          HistoryModes,    \* the modes whose history is followed, of "search", "exec" and "rev file"
          MaxMsgs,         \* bound on the messages under way
          MaxLines,        \* bound on the lines of a session and of a file
          MaxSearches      \* bound on the searches counted by one list

ASSUME StatusAssumption ==
  /\ PathCount \in Nat /\ ListMax \in Nat \ {0}
  /\ SuggestMode \in {"off", "fuzzy", "regex"} /\ HistoryModes \subseteq {"search", "exec", "rev file"}

Blank == 0
PathText(i) == 100 + i                      \* the text of a path
EditLine == 200                             \* the editor's command line, for any path

VARIABLES status,          \* status.Model
          statusMsgs,      \* messages under way, in any order
          revsets,         \* messages under way that set the revset, in order
          currentRevset,   \* context.CurrentRevset: 0, or the number of the path it is about
          decided,         \* for the property: the revset the user last decided on
          histories,       \* per mode, the entries loaded and the ones of this session
          files,           \* per mode, the lines of the file
          kept             \* for the property: the lines of the sessions that ended normally

revsetVars == <<revsets, currentRevset, decided>>
historyVars == <<histories, files, kept>>
statusVars == <<status, statusMsgs, revsetVars, historyVars>>

NoList == [kind |-> "none", entries |-> <<>>, matches |-> <<>>, cursor |-> 0,
           preview |-> FALSE, tag |-> 0, revset |-> 0, suggest |-> "off"]
NewFiles(revset) == [NoList EXCEPT !.kind = "files", !.entries = [i \in 1..PathCount |-> PathText(i)], !.revset = revset]
NewInput(entries) == [NoList EXCEPT !.kind = "history", !.entries = entries, !.suggest = SuggestMode]

NewStatus == [focus |-> "none", mode |-> "revisions", value |-> Blank, list |-> NoList]
NewHistories == [m \in HistoryModes |-> [read |-> FALSE, loaded |-> <<>>, append |-> <<>>]]

StatusInit ==
  /\ status = NewStatus
  /\ statusMsgs = {}
  /\ revsets = <<>>
  /\ currentRevset = 0
  /\ decided = 0
  /\ histories = NewHistories
  /\ files = [m \in HistoryModes |-> <<>>]
  /\ kept = {}

Message(kind, value) == [kind |-> kind, value |-> value]

Exchange(taken, sent) ==
  /\ statusMsgs' = (statusMsgs \ taken) \cup sent
  /\ Cardinality(statusMsgs') <= MaxMsgs

Send(sent) == Exchange({}, sent)

UpdateRevSet(revset) == revsets' = Append(revsets, revset)

-----------------------------------------------------------------------------
\* Histories

\* The first one of equal lines stays.
dedup(lines) == Kept(lines, {i \in DOMAIN lines : \A j \in 1 .. i - 1 : lines[j] /= lines[i]})

\* A file with lines ends with a line break, so that splitting it gives a blank at the end.
load(m) == IF files[m] = <<>> THEN <<>> ELSE Append(files[m], Blank)

\* The history after Entries: the file is read once.
Entered(m) ==
  LET h == histories[m] IN
  IF h.read THEN h ELSE [h EXCEPT !.read = TRUE, !.loaded = dedup(load(m))]

Entries(m) == IF m \in HistoryModes THEN Entered(m).loaded \o Entered(m).append ELSE <<>>

loadEditingSuggestions(m) ==
  histories' = IF m \in HistoryModes THEN [histories EXCEPT ![m] = Entered(m)] ELSE histories

AppendLine(m, line) ==
  LET h == histories[m] IN
  IF line \in ToSet(h.append) \cup ToSet(h.loaded) THEN h ELSE [h EXCEPT !.append = Append(h.append, line)]

saveEditingSuggestions(m, line) ==
  histories' = IF line = Blank \/ m \notin HistoryModes THEN histories ELSE [histories EXCEPT ![m] = AppendLine(m, line)]

flushed(m) ==
  LET append == histories[m].append
  IN  files[m] \o Kept(append, {i \in DOMAIN append : append[i] /= Blank})

-----------------------------------------------------------------------------
\* The lists over the input

Matching(entries, text) == InOrder({i \in DOMAIN entries : <<text, entries[i]>> \in Alike})

\* Nothing typed matches every path and no line of a history.
Searched(list, text) ==
  [list EXCEPT !.cursor = 0,
     !.matches = CASE list.kind = "files" /\ text = Blank -> [i \in DOMAIN list.entries |-> i]
                   [] list.kind = "history" /\ (text = Blank \/ list.suggest = "off") -> <<>>
                   [] OTHER -> Matching(list.entries, text)]

SelectedMatch(list) ==
  IF list.cursor \in 0..(Len(list.matches) - 1) THEN list.entries[list.matches[list.cursor + 1]] ELSE Blank

\* The revset of the path under the cursor, or the one to go back to.
updateRevSet(list) ==
  IF list.cursor \in 0..(Len(list.matches) - 1) THEN list.matches[list.cursor + 1] ELSE list.revset

Wrap(n, last) == IF n > last THEN 0 ELSE IF n < 0 THEN last ELSE n

-----------------------------------------------------------------------------
\* Starting an input

Start(focus, mode, list) ==
  /\ status' = [status EXCEPT !.focus = focus, !.mode = mode, !.list = list]
  /\ loadEditingSuggestions(mode)

\* The keys that start an input reach the root view only while none is focused.
StartExec ==
  /\ status.focus = "none"
  /\ Start("input", "exec", NewInput(Entries("exec")))
  /\ Send({Message("init", 0)})
  /\ UNCHANGED <<revsetVars, files, kept>>

StartQuickSearch ==
  /\ status.focus = "none"
  /\ Start("quick", "search", status.list)
  /\ UNCHANGED <<statusMsgs, revsetVars, files, kept>>

FileSearchToggle ==
  /\ status.focus = "none"
  /\ Send({Message("files", currentRevset)})
  /\ UNCHANGED <<status, revsetVars, historyVars>>

-----------------------------------------------------------------------------
\* Keys of a focused input

Unfocused(mode) == [status EXCEPT !.focus = "none", !.mode = mode, !.value = Blank, !.list = NoList]

\* Mutant of StatusCancel: the previewed revset stays.
StatusCancelOnly ==
  /\ status.focus /= "none"
  /\ status' = Unfocused(status.mode)
  /\ UNCHANGED <<statusMsgs, revsetVars, historyVars>>

\* Leaving a file search goes back to the revset from before it.
StatusCancel ==
  /\ status.focus /= "none"
  /\ status' = Unfocused(status.mode)
  /\ IF status.list.kind /= "none" /\ status.mode = "rev file"
     THEN UpdateRevSet(status.list.revset) ELSE UNCHANGED revsets
  /\ UNCHANGED <<statusMsgs, currentRevset, decided, historyVars>>

\* The selected entry replaces what was typed, and is what the history keeps.
StatusApply ==
  LET match == SelectedMatch(status.list)
      line == IF match /= Blank THEN match ELSE status.value
      isFile == status.mode = "rev file" /\ status.list.kind = "files"
  IN
  /\ status.focus /= "none"
  /\ \A m \in HistoryModes : Len(histories[m].append) < MaxLines
  /\ saveEditingSuggestions(status.mode, line)
  /\ status' = Unfocused("")
  /\ Send(IF status.mode = "exec" THEN {Message("exec", line)} ELSE {})
  /\ IF isFile THEN UpdateRevSet(updateRevSet(status.list)) ELSE UNCHANGED revsets
  /\ decided' = IF isFile THEN updateRevSet(status.list) ELSE decided
  /\ UNCHANGED <<currentRevset, files, kept>>

\* Typing: the list is told by a message.
StatusType(text) ==
  /\ status.focus /= "none" /\ text /= status.value
  /\ status' = [status EXCEPT !.value = text]
  /\ Send(IF status.list.kind = "none" THEN {} ELSE {Message("search", text)})
  /\ UNCHANGED <<revsetVars, historyVars>>

\* The arrows move in the paths, or among the revisions while they preview.
FileSearchNavigate(delta) ==
  /\ status.list.kind = "files" /\ ~status.list.preview
  /\ status' = [status EXCEPT !.list.cursor = Wrap(@ + delta, Len(status.list.matches) - 1)]
  /\ UNCHANGED <<statusMsgs, revsetVars, historyVars>>

FileSearchTogglePreview ==
  /\ status.list.kind = "files"
  /\ status' = [status EXCEPT !.list.preview = ~@]
  /\ UpdateRevSet(updateRevSet(status.list))
  /\ UNCHANGED <<statusMsgs, currentRevset, decided, historyVars>>

FileSearchEdit ==
  /\ status.list.kind = "files"
  /\ Send({Message("exec", EditLine)})
  /\ UNCHANGED <<status, revsetVars, historyVars>>

\* Without suggestions the arrows put the lines of the history in the input.
SuggestNavigate(delta) ==
  LET list == status.list
      size == IF list.suggest = "off" THEN Len(list.entries) ELSE Len(list.matches)
      last == (IF size < ListMax THEN size ELSE ListMax) - 1
      n == IF list.cursor + delta < 0 THEN last ELSE IF list.cursor + delta > last THEN 0 ELSE list.cursor + delta
  IN
  /\ list.kind = "history"
  /\ status' = [status EXCEPT !.list.cursor = n,
                  !.value = IF list.suggest /= "off" THEN @
                            ELSE IF list.entries = <<>> THEN Blank ELSE list.entries[n + 1]]
  /\ UNCHANGED <<statusMsgs, revsetVars, historyVars>>

SuggestCycle ==
  LET list == status.list IN
  /\ list.kind = "history"
  /\ status' = [status EXCEPT !.list =
                  CASE list.suggest = "off"   -> [list EXCEPT !.suggest = "fuzzy"]
                    [] list.suggest = "fuzzy" -> [list EXCEPT !.suggest = "regex"]
                    [] OTHER                  -> [list EXCEPT !.suggest = "off", !.cursor = 0, !.matches = <<>>]]
  /\ UNCHANGED <<statusMsgs, revsetVars, historyVars>>

-----------------------------------------------------------------------------
\* Messages

FilesArrive(m) ==
  /\ m.kind = "files"
  /\ Start("file", "rev file", NewFiles(m.value))
  /\ Exchange({m}, {Message("init", 0)})
  /\ UNCHANGED <<revsetVars, files, kept>>

\* A search, or the first one of a new list; a preview follows with a delay.
SearchArrives(m) ==
  LET list == Searched(status.list, IF m.kind = "init" THEN Blank ELSE m.value)
      counted == m.kind = "search" /\ list.kind = "files" /\ list.preview
  IN
  /\ m.kind \in {"init", "search"}
  /\ counted => list.tag < MaxSearches
  /\ status' = IF list.kind = "none" THEN status
               ELSE [status EXCEPT !.list = IF counted THEN [list EXCEPT !.tag = @ + 1] ELSE list]
  /\ Exchange({m}, IF counted THEN {Message("tick", list.tag + 1)} ELSE {})
  /\ UNCHANGED <<revsetVars, historyVars>>

\* Only the tick of the last search previews.
TickArrives(m) ==
  LET list == status.list IN
  /\ m.kind = "tick"
  /\ IF list.kind = "files" /\ list.preview /\ m.value = list.tag
     THEN UpdateRevSet(updateRevSet(list)) ELSE UNCHANGED revsets
  /\ Exchange({m}, {})
  /\ UNCHANGED <<status, currentRevset, decided, historyVars>>

RevsetArrives ==
  /\ revsets /= <<>>
  /\ currentRevset' = Head(revsets)
  /\ revsets' = Tail(revsets)
  /\ UNCHANGED <<status, statusMsgs, decided, historyVars>>

\* What the revset will be once the messages under way have arrived.
RevsetToCome == IF revsets = <<>> THEN currentRevset ELSE Last(revsets)

\* The program has run; when it failed the prompt comes back with its line,
\* also over the input that is open.
ExecCompletes(m, failed) ==
  /\ m.kind = "exec"
  /\ IF failed
     THEN /\ status' = [status EXCEPT !.focus = "input", !.mode = "exec", !.value = m.value,
                          !.list = NewInput(Entries("exec"))]
          /\ loadEditingSuggestions("exec")
          /\ Exchange({m}, {Message("init", 0), Message("search", m.value)})
          /\ decided' = IF status.focus = "file" THEN RevsetToCome ELSE decided
     ELSE Exchange({m}, {}) /\ UNCHANGED <<status, histories, decided>>
  /\ UNCHANGED <<revsets, currentRevset, files, kept>>

\* A frame shows the mode of the innermost scope, unless an input is focused.
setModeFromScopes ==
  /\ status.focus = "none"
  /\ status' = [status EXCEPT !.mode = "revisions"]
  /\ UNCHANGED <<statusMsgs, revsetVars, historyVars>>

-----------------------------------------------------------------------------
\* Sessions

NewSession ==
  /\ status' = NewStatus
  /\ statusMsgs' = {}
  /\ revsets' = <<>>
  /\ currentRevset' = 0
  /\ decided' = 0
  /\ histories' = NewHistories

NewLines(m) == {line \in ToSet(histories[m].append) : line /= Blank}

\* The program ends and is started again.
Exit ==
  /\ \A m \in HistoryModes : Len(flushed(m)) <= MaxLines
  /\ files' = [m \in HistoryModes |-> flushed(m)]
  /\ kept' = kept \cup UNION {{m} \X NewLines(m) : m \in HistoryModes}
  /\ NewSession

\* The program is killed and started again.
Crash == NewSession /\ UNCHANGED <<files, kept>>

\* Another instance ends and saves a line.
OtherExits(m, line) ==
  /\ Len(files[m]) < MaxLines
  /\ files' = [files EXCEPT ![m] = Append(@, line)]
  /\ kept' = kept \cup {<<m, line>>}
  /\ UNCHANGED <<status, statusMsgs, revsetVars, histories>>

Settled == revsets = <<>> /\ \A m \in statusMsgs : m.kind /= "files"

StatusKeys ==
  \/ StartExec \/ StartQuickSearch \/ FileSearchToggle
  \/ StatusCancel \/ StatusApply \/ \E text \in TypedTexts \cup {Blank} : StatusType(text)
  \/ \E delta \in {-1, 1} : FileSearchNavigate(delta) \/ SuggestNavigate(delta)
  \/ FileSearchTogglePreview \/ FileSearchEdit \/ SuggestCycle

StatusNext ==
  \/ Settled /\ StatusKeys
  \/ \E m \in statusMsgs :
       FilesArrive(m) \/ SearchArrives(m) \/ TickArrives(m) \/ \E failed \in BOOLEAN : ExecCompletes(m, failed)
  \/ RevsetArrives
  \/ setModeFromScopes
  \/ Exit \/ Crash
  \/ \E m \in HistoryModes, line \in OtherLines : OtherExits(m, line)

StatusSpec == StatusInit /\ [][StatusNext]_statusVars

-----------------------------------------------------------------------------
\* The list over the input, the kind of focus and the mode belong together,
\* also when a failed program or a file list opens an input over another one
\* (Update, HandleIntent).  StartQuickSearch keeps the list it finds.
ListBelongsToInput ==
  /\ status.focus = "none"  => status.list.kind = "none"
  /\ status.focus = "quick" => status.list.kind = "none" /\ status.mode = "search"
  /\ status.focus = "file"  => status.list.kind = "files" /\ status.mode = "rev file"
  /\ status.focus = "input" => status.list.kind = "history" /\ status.mode = "exec"

\* Once a file search is over, the revset is what the user decided on before
\* or with it, whatever it previewed and however late the ticks of its
\* previews come (Cancel, FileSearchCancel, debouncePreview).  A failed
\* editor, which ends the search without leaving it, keeps the preview.
PreviewIsUndone ==
  status.list.kind /= "files" => RevsetToCome = decided

\* No line is offered twice, although the file may hold it more than once
\* and a session adds to what it has read (Entries, Append, dedup).
LinesAreDistinct ==
  \A m \in HistoryModes : IsInjective(Entries(m))

\* The lines of every session that ended normally are in the file, whatever
\* other instances saved in between (flush).  A line is kept with its mode.
LinesAreKept == \A line \in kept : line[2] \in ToSet(files[line[1]])

\* The status line keeps its input, list and mode together, undoes what a file search previewed, and
\* neither repeats nor loses lines of its histories (status.go Update, history.go).
StatusIsSound == ListBelongsToInput /\ PreviewIsUndone /\ LinesAreDistinct /\ LinesAreKept
=============================================================================
