------------------------------- MODULE OpLog -------------------------------
(***************************************************************************)
(* The operation log (ui/oplog): the rows read from the output of jj, a    *)
(* cursor, a quick search and the list renderer.  The rows come once for   *)
(* each opening, in a message; a frame is drawn between any two messages   *)
(* or not, and a click names the item the last frame drew under it.        *)
(***************************************************************************)
EXTENDS ListView

CONSTANTS
  Outputs,      \* outputs of jj op log: sequences of lines [id, words]
  Queries,      \* texts a quick search may ask for
  ViewHeights   \* heights the view may have

NoId == 0       \* the id of a line without one
NoQuery == "none"
NoOutput == << >>

ASSUME OpLogAssumption == NoQuery \notin Queries /\ ViewHeights \subseteq Nat

VARIABLES
  ol,       \* the view
  olView,   \* the list renderer: its start line, and the first and last item drawn
  olFrame,  \* the last frame: its height and spans
  olOutput, \* the output of jj, once it has been read
  olRan     \* the command a key has asked for

opLogVars == <<ol, olView, olFrame, olOutput, olRan>>

\* A line with an id starts a row; what comes before the first is given up.
parseRows(lines) ==
  LET read(acc, line) ==
        IF line.id = NoId THEN [acc EXCEPT !.row.lines = Append(@, line)]
        ELSE [rows |-> IF acc.row.id = NoId THEN acc.rows ELSE Append(acc.rows, acc.row),
              row |-> [id |-> line.id, lines |-> <<line>>]]
      end == FoldLeft(read, [rows |-> <<>>, row |-> [id |-> NoId, lines |-> <<>>]], lines)
  IN  Append(end.rows, end.row)

heights == [i \in 1 .. Len(ol.rows) |-> Len(ol.rows[i].lines)]

matchesQuery(row, query) == \E i \in 1 .. Len(row.lines) : query \in row.lines[i].words

HitsOf(query) ==
  IF query = NoQuery THEN {} ELSE {i \in 0 .. Len(ol.rows) - 1 : matchesQuery(ol.rows[i + 1], query)}

SetCursor(view, i) ==
  IF i \in 0 .. Len(ol.rows) - 1 THEN [view EXCEPT !.cursor = i, !.ensure = TRUE] ELSE view

NewOpLog == [open |-> TRUE, loaded |-> FALSE, rows |-> <<>>, cursor |-> 0, ensure |-> FALSE, query |-> NoQuery]

OpLogInit ==
  /\ ol = NewOpLog
  /\ olView = [start |-> 0, first |-> -1, last |-> -1]
  /\ olFrame = [height |-> 0, spans |-> <<>>] /\ olOutput = NoOutput /\ olRan = <<>>

\* updateOpLogMsg, the answer to the load of Init.
OpLogArrives ==
  /\ ol.open /\ ~ol.loaded
  /\ olOutput' \in Outputs
  /\ ol' = [ol EXCEPT !.loaded = TRUE, !.rows = parseRows(olOutput')]
  /\ UNCHANGED <<olView, olFrame, olRan>>

OpLogQuickSearch ==
  /\ ol.open
  /\ \E q \in Queries \cup {NoQuery} :
       ol' = SetCursor([ol EXCEPT !.query = q],
                       CircularSearch(Len(ol.rows), HitsOf(q), 0, ol.cursor, FALSE))
  /\ UNCHANGED <<olView, olFrame, olOutput, olRan>>

OpLogQuickSearchCycle(reverse) ==
  /\ ol.open
  /\ ol' = SetCursor(ol, CircularSearch(Len(ol.rows), HitsOf(ol.query),
                                        ol.cursor + (IF reverse THEN -1 ELSE 1), ol.cursor, reverse))
  /\ UNCHANGED <<olView, olFrame, olOutput, olRan>>

OpLogQuickSearchClear ==
  /\ ol.open /\ ol.query # NoQuery
  /\ ol' = [ol EXCEPT !.query = NoQuery]
  /\ UNCHANGED <<olView, olFrame, olOutput, olRan>>

\* A page is what the last frame drew, less a row.
OpLogNavigate(delta, page) ==
  LET span == AtLeast(olView.last - olView.first - 1, 1)
      to == ol.cursor + (IF page THEN delta * span ELSE delta)
  IN  /\ ol.open
      /\ ol' = IF ol.rows = <<>> THEN ol ELSE SetCursor(ol, AtMost(AtLeast(to, 0), Len(ol.rows) - 1))
      /\ UNCHANGED <<olView, olFrame, olOutput, olRan>>

\* The click of a line of the last frame.
OpLogClicked ==
  /\ ol.open
  /\ \E s \in Range(olFrame.spans) : ol' = SetCursor(ol, s.item)
  /\ UNCHANGED <<olView, olFrame, olOutput, olRan>>

\* The wheel leaves the start line out of range until the next frame.
OpLogScroll(delta) ==
  /\ ol.open /\ olFrame.spans # <<>>
  /\ olView.start + delta \in -1 .. TotalLines(heights) + 1      \* bound: wheel steps between two frames
  /\ ol' = [ol EXCEPT !.ensure = FALSE]
  /\ olView' = [olView EXCEPT !.start = @ + delta]
  /\ UNCHANGED <<olFrame, olOutput, olRan>>

\* ViewRect: nothing but a word while the rows are on their way.
OpLogDrawn ==
  \E height \in ViewHeights :
    LET clamped == ClampStartLine(olView.start, height, TotalLines(heights))
        start == IF ol.ensure THEN ensureCursorVisible(clamped, height, heights, ol.cursor) ELSE clamped
        spans == layoutAll(start, height, heights)
    IN  /\ ol.open /\ ol.loaded
        /\ olView' = [start |-> start,
                      first |-> IF spans = <<>> THEN -1 ELSE Head(spans).item,
                      last |-> IF spans = <<>> THEN -1 ELSE Last(spans).item]
        /\ olFrame' = [height |-> height, spans |-> spans]
        /\ ol' = [ol EXCEPT !.ensure = FALSE]
        /\ UNCHANGED <<olOutput, olRan>>

\* restore, revert and the diff of the operation under the cursor; restore and revert close the view.
OpLogRun(kind) ==
  /\ ol.open /\ ol.rows # <<>> /\ olRan = <<>>
  /\ olRan' = <<kind, ol.rows[ol.cursor + 1].id>>
  /\ ol' = [ol EXCEPT !.open = kind = "diff"]
  /\ UNCHANGED <<olView, olFrame, olOutput>>

OpLogClose ==
  /\ ol.open /\ ol' = [ol EXCEPT !.open = FALSE]
  /\ UNCHANGED <<olView, olFrame, olOutput, olRan>>

OpLogNext ==
  \/ OpLogArrives \/ OpLogQuickSearch \/ OpLogQuickSearchClear \/ OpLogClicked \/ OpLogDrawn \/ OpLogClose
  \/ \E reverse \in BOOLEAN : OpLogQuickSearchCycle(reverse)
  \/ \E delta \in {-1, 1}, page \in BOOLEAN : OpLogNavigate(delta, page)
  \/ \E delta \in {-1, 1} : OpLogScroll(delta)
  \/ \E kind \in {"diff", "restore", "revert"} : OpLogRun(kind)

-----------------------------------------------------------------------------
\* The output line by line, as rows and lines of rows: what parseRows must give back.
FirstId(lines) == {i \in 1 .. Len(lines) : lines[i].id # NoId}
Kept(lines) ==
  IF FirstId(lines) = {} THEN lines
  ELSE SubSeq(lines, CHOOSE i \in FirstId(lines) : \A j \in FirstId(lines) : i <= j, Len(lines))

\* The rows are the output: no line of it from the first id on is lost, doubled or moved to another
\* operation, the last operation included (parseRows closes a row only when the next one starts).
RowsAreTheOutput ==
  ol.loaded =>
    /\ FlattenSeq([i \in 1 .. Len(ol.rows) |-> ol.rows[i].lines]) = Kept(olOutput)
    /\ \A i \in 1 .. Len(ol.rows) : ol.rows[i].lines # <<>> => ol.rows[i].lines[1].id = ol.rows[i].id

\* The lines of the list in order, each with its row: what a frame is a window of.
ListLines == FlattenSeq([i \in 1 .. Len(ol.rows) |-> [l \in 1 .. Len(ol.rows[i].lines) |-> <<i - 1, l - 1>>]])

\* A frame is a window of the list without gaps or overlaps, whatever the wheel and the cursor did to
\* the start line since the last one: it is full when the list has lines enough, so a click on any
\* line of it names the operation drawn there.
FrameIsWindow ==
  [][OpLogDrawn =>
       LET height == olFrame'.height
           shown == Shown(olFrame'.spans, height)
           window == SubSeq(ListLines, olView'.start + 1, AtMost(olView'.start + height, Len(ListLines)))
       IN  /\ Len(window) = AtMost(height, Len(ListLines))
           /\ \A y \in 0 .. height - 1 : shown[y] = IF y < Len(window) THEN {window[y + 1]} ELSE {}]_opLogVars

\* After the cursor has moved, by a key, a search or a click, the next frame shows the operation
\* under it in full if it fits, so that restore and revert never act on an operation out of sight.
CursorIsDrawn ==
  [][OpLogDrawn /\ ol.ensure /\ ol.rows # <<>> =>
       LET own == heights[ol.cursor + 1]
           shown == Shown(olFrame'.spans, olFrame'.height)
       IN  own <= olFrame'.height => \A l \in 0 .. own - 1 : \E y \in DOMAIN shown : shown[y] = {<<ol.cursor, l>>}]_opLogVars

\* A search ends at a match whenever the log has one, in either direction and past both ends, and a
\* cycle leaves the match it stands on when there is another.
SearchFindsMatch ==
  [][\A q \in Queries :
       /\ OpLogQuickSearch /\ ol'.query = q /\ HitsOf(q) # {} => ol'.cursor \in HitsOf(q)
       /\ \A reverse \in BOOLEAN :
            OpLogQuickSearchCycle(reverse) /\ ol.query = q /\ HitsOf(q) \ {ol.cursor} # {}
              => ol'.cursor \in HitsOf(q) \ {ol.cursor}]_opLogVars

\* The rows are the output of jj, a frame is a window of them with the cursor in it, and a search ends
\* at a match if there is one (oplog_parser.go, list.go Render, search.go).
OpLogIsSound == []RowsAreTheOutput /\ FrameIsWindow /\ CursorIsDrawn /\ SearchFindsMatch
=============================================================================
