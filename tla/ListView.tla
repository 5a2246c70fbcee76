------------------------------ MODULE ListView ------------------------------
(***************************************************************************)
(* The list renderer shared by the lists of the program (ui/render/list.go)*)
(* and the circular search (ui/common/search.go).  A list is the sequence  *)
(* of the heights of its items; items and lines count from 0 as in the     *)
(* code, so item i of heights h has h[i + 1] lines.                        *)
(***************************************************************************)
EXTENDS Integers, Sequences, SequencesExt

AtLeast(a, b) == IF a > b THEN a ELSE b
AtMost(a, b) == IF a < b THEN a ELSE b

\* The line of the list at which item i starts, and the length of the list.
ItemStart(heights, i) == FoldLeft(+, 0, SubSeq(heights, 1, i))
TotalLines(heights) == ItemStart(heights, Len(heights))

\* Mutant of ClampStartLine: the height of the view is left out.
ClampToTotal(startLine, viewHeight, totalLines) == AtMost(AtLeast(startLine, 0), AtLeast(totalLines, 0))

ClampStartLine(startLine, viewHeight, totalLines) ==
  AtMost(AtLeast(startLine, 0), AtLeast(totalLines - viewHeight, 0))

\* The start line that brings the item under the cursor into the view.
ensureCursorVisible(startLine, viewHeight, heights, cursor) ==
  LET start == ItemStart(heights, cursor)
      end == start + heights[cursor + 1]
  IN  IF cursor \notin 0 .. Len(heights) - 1 \/ viewHeight <= 0 THEN startLine
      ELSE IF start < AtLeast(startLine, 0) THEN start
      ELSE IF end > AtLeast(startLine, 0) + viewHeight THEN AtLeast(end - viewHeight, 0)
      ELSE startLine

\* A span: the part of an item that is visible, and the line of the view it is drawn at.
Span(i, y, offset, count) == [item |-> i, y |-> y, offset |-> offset, count |-> count]

layoutAll(startLine, viewHeight, heights) ==
  LET end == startLine + viewHeight
      add(spans, i) ==
        LET from == ItemStart(heights, i)
            to == from + heights[i + 1]
            top == AtLeast(from, startLine)
            visible == AtMost(to, end) - top
        IN  IF to > startLine /\ from < end /\ visible > 0
              THEN Append(spans, Span(i, top - startLine, top - from, visible))
              ELSE spans
  IN  IF viewHeight <= 0 THEN <<>>
      ELSE FoldLeft(add, <<>>, [i \in 1 .. Len(heights) |-> i - 1])

\* What the lines of the view show of the spans: item and line of the item.
Shown(spans, viewHeight) ==
  [y \in 0 .. viewHeight - 1 |->
     {<<s.item, s.offset + y - s.y>> : s \in {s \in Range(spans) : y \in s.y .. s.y + s.count - 1}}]

\* The search among n items of which those in hits match; cursor when none does.
CircularSearch(n, hits, startIndex, cursor, backward) ==
  LET at(i) == IF backward THEN (startIndex - i + n) % n ELSE (startIndex + i) % n
      found == {i \in 0 .. n - 1 : at(i) \in hits}
  IN  IF found = {} THEN cursor ELSE at(CHOOSE i \in found : \A j \in found : i <= j)
=============================================================================
