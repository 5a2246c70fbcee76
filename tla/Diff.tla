-------------------------------- MODULE Diff --------------------------------
(***************************************************************************)
(* The diff view (ui/diff/diff.go): the text of a jj command, the files of *)
(* its summary, which a second command lists in the background, and the    *)
(* text of one file after the other, each loaded by a command of its own.  *)
(* A line is its width; the wrapped view caches, for a width, how many     *)
(* rows each line takes.  A new diff may be shown in the view at any time; *)
(* the answer to a file load does not tell which diff asked for it.        *)
(***************************************************************************)
EXTENDS ListView

CONSTANTS
  DiffArgs,        \* arguments of the command whose output is shown
  DiffFiles,       \* for each of them, the files of its summary
  LinesOf(_, _),   \* the widths of the lines of the diff of a file, or of all of them
  DiffWidths,      \* widths and heights the view may have
  DiffHeights,
  MaxDiffLoads     \* bound on the file loads under way

NoDiffArgs == 0    \* a text that is no output of a command
AllFiles == 0      \* the empty file name

ASSUME DiffAssumption ==
  /\ NoDiffArgs \notin DiffArgs
  /\ \A a \in DiffArgs : AllFiles \notin Range(DiffFiles[a])
  /\ DiffWidths \subseteq Nat \ {0} /\ DiffHeights \subseteq Nat

VARIABLES
  diff,       \* the model; history: mixed, the text is the late answer to an earlier diff
  diffIndex,  \* the index of the wrapped view: the width it is of and the rows of each line
  diffMsgs    \* answers under way; history: late, a file load of a diff shown earlier

diffVars == <<diff, diffIndex, diffMsgs>>

NoIndex == [width |-> 0, heights |-> <<>>]

\* The lines of a text, from the top; the mode stays, in a new view.
SetDiffContent(d, args, file) ==
  /\ diff' = [d EXCEPT !.text = [args |-> args, file |-> file], !.lines = LinesOf(args, file),
                       !.scrollY = 0, !.scrollX = 0]
  /\ diffIndex' = NoIndex

MaxLineWidth == IF diff.lines = <<>> THEN 0 ELSE CHOOSE w \in Range(diff.lines) : \A v \in Range(diff.lines) : v <= w

recomputeIndex(width) ==
  [width |-> width,
   heights |-> [i \in 1 .. Len(diff.lines) |-> AtLeast(1, (diff.lines[i] + width - 1) \div width)]]

ensureIndex(width) ==
  IF width <= 0 \/ (width = diffIndex.width /\ Len(diffIndex.heights) = Len(diff.lines))
    THEN diffIndex ELSE recomputeIndex(width)

\* The rows of the whole text in the mode of the view.
rowsIn(index) == IF diff.wrapped THEN TotalLines(index.heights) ELSE Len(diff.lines)

\* The line a row of the text belongs to, and the rows of that line above it.
firstLine(index, scrollY) ==
  LET n == Len(index.heights)
      starts == {i \in 0 .. n - 1 : i = 0 \/ ItemStart(index.heights, i) <= scrollY}
      line == CHOOSE i \in starts : \A j \in starts : j <= i
  IN  IF n = 0 THEN [line |-> 0, skip |-> 0]
      ELSE [line |-> line, skip |-> scrollY - ItemStart(index.heights, line)]

\* The rows drawn by the wrapped view, from the first line on, skipping rows of that line only.
wrappedRows(index, scrollY, height) ==
  LET first == firstLine(index, scrollY)
      rows(i) == [r \in 1 .. index.heights[i] |-> <<i, r>>]
      all == FlattenSeq([k \in 1 .. Len(diff.lines) - first.line |-> rows(first.line + k)])
  IN  SubSeq(all, first.skip + 1, AtMost(first.skip + height, Len(all)))

defaultRows(scrollY, height) ==
  [k \in 1 .. AtMost(height, AtLeast(Len(diff.lines) - scrollY, 0)) |-> <<scrollY + k, 1>>]

clampScroll(scrollY, total, height) == AtLeast(0, AtMost(scrollY, AtLeast(0, total - height)))

\* The rows a frame draws, each as a line and a row of it.
drawnRows(index, scrollY, height) ==
  IF diff.wrapped THEN wrappedRows(index, scrollY, height) ELSE defaultRows(scrollY, height)

NewDiff ==
  [open |-> FALSE, args |-> NoDiffArgs, files |-> <<>>, loaded |-> FALSE, failed |-> FALSE,
   file |-> AllFiles, text |-> [args |-> NoDiffArgs, file |-> AllFiles], mixed |-> FALSE,
   lines |-> LinesOf(NoDiffArgs, AllFiles), scrollY |-> 0, scrollX |-> 0,
   width |-> 0, height |-> 0, wrapped |-> FALSE]

DiffInit == diff = NewDiff /\ diffIndex = NoIndex /\ diffMsgs = {}

\* Init: the files of the diff are asked for in the background.
SummaryAsked(args) == IF args = NoDiffArgs THEN {} ELSE {[kind |-> "summary", args |-> args, file |-> AllFiles, late |-> FALSE]}

\* The file loads under way are those of an earlier diff from now on.
LoadsLate == {[msg EXCEPT !.late = @ \/ msg.kind = "file"] : msg \in diffMsgs}

DiffShow(args) ==
  /\ diffMsgs' = LoadsLate \cup SummaryAsked(args)
  /\ SetDiffContent([diff EXCEPT !.open = TRUE, !.args = args, !.files = <<>>, !.loaded = FALSE, !.failed = FALSE,
                             !.file = AllFiles, !.mixed = FALSE], args, AllFiles)

\* Mutant of SummaryLoaded: whatever diff the summary is of.
SummaryLoadedUnchecked ==
  \E msg \in {msg \in diffMsgs : msg.kind = "summary"}, ok \in BOOLEAN :
    /\ diffMsgs' = diffMsgs \ {msg}
    /\ diff' = IF ~diff.open THEN diff
               ELSE [diff EXCEPT !.files = IF ok THEN DiffFiles[msg.args] ELSE <<>>, !.loaded = ok, !.failed = ~ok]
    /\ UNCHANGED diffIndex

\* summaryLoadedMsg: the summary of another diff is given up.
SummaryLoaded ==
  \E msg \in {msg \in diffMsgs : msg.kind = "summary"}, ok \in BOOLEAN :
    /\ diffMsgs' = diffMsgs \ {msg}
    /\ diff' = IF msg.args # diff.args \/ ~diff.open THEN diff
               ELSE [diff EXCEPT !.files = IF ok THEN DiffFiles[msg.args] ELSE <<>>, !.loaded = ok, !.failed = ~ok]
    /\ UNCHANGED diffIndex

loadFile(file) ==
  /\ Cardinality({msg \in diffMsgs : msg.kind = "file"}) < MaxDiffLoads
  /\ diffMsgs' = diffMsgs \cup {[kind |-> "file", args |-> diff.args, file |-> file, late |-> FALSE]}
  /\ UNCHANGED <<diff, diffIndex>>

\* Files can be chosen once the summary has been read.
FilesKnown == diff.open /\ diff.args # NoDiffArgs /\ diff.loaded /\ diff.files # <<>>

\* The next or the previous file, around the ends; from all files the first or the last.
DiffFileNavigate(delta) ==
  LET n == Len(diff.files)
      at == {i \in 0 .. n - 1 : diff.files[i + 1] = diff.file}
      from == CHOOSE i \in at : TRUE
  IN  /\ FilesKnown
      /\ loadFile(diff.files[1 + (IF at = {} THEN (IF delta < 0 THEN n - 1 ELSE 0) ELSE (from + delta + n) % n)])

\* TargetSelectedMsg of the picker that openTargetPicker opens: a file or all of them.  The picker may
\* be that of a diff shown earlier: only the kind of its payload is looked at.
DiffTargetSelected ==
  /\ diff.open /\ diff.args # NoDiffArgs
  /\ \E file \in UNION {Range(DiffFiles[args]) : args \in DiffArgs} \cup {AllFiles} : loadFile(file)

\* fileLoadedMsg, which names a file and no diff; when jj fails nothing but a message is shown.
FileLoaded ==
  \E msg \in {msg \in diffMsgs : msg.kind = "file"} :
    /\ diffMsgs' = diffMsgs \ {msg}
    /\ \/ diff.open /\ SetDiffContent([diff EXCEPT !.file = msg.file, !.mixed = msg.late], msg.args, msg.file)
       \/ UNCHANGED <<diff, diffIndex>>
  
\* The wheel and the keys move the row at the top without a look at the text: the frame does.
DiffScroll(delta) ==
  /\ diff.open /\ diff.scrollY = clampScroll(diff.scrollY, rowsIn(diffIndex), diff.height)  \* bound: one step a frame
  /\ diff' = [diff EXCEPT !.scrollY = @ + delta]
  /\ UNCHANGED <<diffIndex, diffMsgs>>

DiffMoveTop ==
  /\ diff.open /\ diff' = [diff EXCEPT !.scrollY = 0]
  /\ UNCHANGED <<diffIndex, diffMsgs>>

DiffMoveBottom ==
  /\ diff.open
  /\ diffIndex' = IF diff.wrapped THEN ensureIndex(diff.width) ELSE diffIndex
  /\ diff' = [diff EXCEPT !.scrollY = AtLeast(0, rowsIn(diffIndex') - diff.height)]
  /\ UNCHANGED diffMsgs

DiffToggleWrap ==
  /\ diff.open /\ diff' = [diff EXCEPT !.wrapped = ~@, !.scrollX = 0] /\ diffIndex' = NoIndex
  /\ UNCHANGED diffMsgs

DiffScrollHorizontal(delta) ==
  /\ diff.open
  /\ diff' = IF diff.wrapped THEN diff
             ELSE [diff EXCEPT !.scrollX = AtLeast(0, AtMost(@ + delta, AtLeast(0, MaxLineWidth - diff.width)))]
  /\ UNCHANGED <<diffIndex, diffMsgs>>

DiffDrawn ==
  \E width \in DiffWidths, height \in DiffHeights :
    /\ diff.open
    /\ diffIndex' = IF diff.wrapped THEN ensureIndex(width) ELSE diffIndex
    /\ diff' = [diff EXCEPT !.width = width, !.height = height,
                            !.scrollY = clampScroll(@, rowsIn(diffIndex'), height)]
    /\ UNCHANGED diffMsgs

DiffClose ==
  /\ diff.open /\ diff' = NewDiff /\ diffIndex' = NoIndex
  /\ diffMsgs' = LoadsLate

DiffNext ==
  \/ \E args \in DiffArgs \cup {NoDiffArgs} : DiffShow(args)
  \/ SummaryLoaded \/ FileLoaded \/ DiffTargetSelected
  \/ \E delta \in {-1, 1} : DiffFileNavigate(delta) \/ DiffScrollHorizontal(delta)
  \/ \E delta \in {-1, 1, -diff.height, diff.height, -(diff.height \div 2), diff.height \div 2} : DiffScroll(delta)
  \/ DiffMoveTop \/ DiffMoveBottom \/ DiffToggleWrap \/ DiffDrawn \/ DiffClose

-----------------------------------------------------------------------------
\* The files offered are those of the diff whose command the loads repeat: a summary that comes after
\* another diff has been shown is not taken for its own.
FilesAreOfDiff == diff.files # <<>> => diff.args # NoDiffArgs /\ diff.files = DiffFiles[diff.args]

\* The text is that of the current file of the diff whose command the loads repeat, the file that next
\* and previous count from, through diffs shown again, failed loads and loads that answer in another
\* order: except for a load of a diff shown earlier, whose late answer replaces the text of the diff
\* shown now until the next file is loaded (fileLoadedMsg has no arguments to compare).
TextIsOfDiff == diff.open /\ ~diff.mixed => diff.text = [args |-> diff.args, file |-> diff.file]

\* Every file of the diff can be reached by asking for the next file again and again: each press asks
\* for the file after the one shown, the first after the last, and the same backwards.
NavigationGoesRound ==
  [][\A delta \in {-1, 1} :
       DiffFileNavigate(delta) =>
         \A msg \in diffMsgs' \ diffMsgs :
           \E i, j \in 1 .. Len(diff.files) :
             /\ diff.files[j] = msg.file
             /\ \/ diff.file = diff.files[i] /\ (j = i + delta \/ (delta = 1 /\ i = Len(diff.files) /\ j = 1)
                                                \/ (delta = -1 /\ i = 1 /\ j = Len(diff.files)))
                \/ diff.file \notin Range(diff.files) /\ j = IF delta = 1 THEN 1 ELSE Len(diff.files)]_diffVars

\* The rows of the text at a width: a line that is too long goes on in the rows below it.
RowsOf(width) ==
  FlattenSeq([i \in 1 .. Len(diff.lines) |->
    [r \in 1 .. (IF diff.wrapped /\ diff.lines[i] > width THEN (diff.lines[i] + width - 1) \div width ELSE 1) |-> <<i, r>>]])

\* Every frame shows a window of the text as it is at the width of the frame, filled to its last row
\* when there are rows enough: after a resize, a toggle, a shorter text or a key past either end, and
\* from the cached index of the wrapped view as from the text itself.
DiffFrameIsWindow ==
  [][DiffDrawn =>
       LET rows == RowsOf(diff'.width)
           drawn == drawnRows(diffIndex', diff'.scrollY, diff'.height)
       IN  /\ drawn = SubSeq(rows, diff'.scrollY + 1, AtMost(diff'.scrollY + diff'.height, Len(rows)))
           /\ Len(drawn) = AtMost(diff'.height, Len(rows))]_diffVars

\* The list of files belongs to the diff through late summaries, and so do text and file save for late
\* answers to file loads; every file can be reached, and a frame is a window of the text at its width
\* (diff.go Update, ViewRect).
DiffIsSound == [](FilesAreOfDiff /\ TextIsOfDiff) /\ NavigationGoesRound /\ DiffFrameIsWindow
=============================================================================
