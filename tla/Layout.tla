------------------------------- MODULE Layout -------------------------------
(***************************************************************************)
(* The frame of the program: how a window is divided into boxes            *)
(* (ui/layout/box.go), the pane beside the primary view with a separator   *)
(* that the mouse drags (ui/split), and the regions of a frame that        *)
(* mouse events are looked up in (ui/render).  A press on the separator    *)
(* becomes a message; motion and release are handled at once, and all of   *)
(* them work with the box and the direction of the last frame.             *)
(***************************************************************************)
EXTENDS Integers, Sequences, FiniteSets, SequencesExt

CONSTANTS
  Windows,     \* sizes of the window, <<width, height>>
  Pointers,    \* positions of the mouse, <<x, y>>
  Percents,    \* percent of the pane the configuration may ask for
  Increment,   \* percent that one key adds or takes
  MaxStale     \* bound on the changes of the layout between two frames

MinPercent == 10
MaxPercent == 95

ASSUME LayoutAssumption == Increment \in Nat /\ MaxStale \in Nat /\ Windows \subseteq Nat \X Nat

VARIABLES
  screen,    \* the window, the focus of the status line, the pane and the dialog over it
  pane,      \* the SplitState: percent num / den, and where the pane is
  renderer,  \* the SplitRenderer: box and direction of the last frame
  dragging,
  lframe,    \* the boxes and the mouse regions of the last frame
  ldrags,    \* presses on the separator on their way to the container
  stale      \* changes since the last frame

layoutVars == <<screen, pane, renderer, dragging, lframe, ldrags, stale>>

\* A box is two intervals, from .. to - 1.
LBox(x0, y0, x1, y1) == [x |-> <<x0, x1>>, y |-> <<y0, y1>>]
NoBox == LBox(0, 0, 0, 0)
Size(interval) == interval[2] - interval[1]
In(pos, box) ==
  /\ box.x[1] <= pos[1] /\ pos[1] < box.x[2]
  /\ box.y[1] <= pos[2] /\ pos[2] < box.y[2]

-----------------------------------------------------------------------------
\* Boxes

Fixed(n) == [kind |-> "fixed", n |-> n]
Percent(n) == [kind |-> "percent", n |-> n]
Fill(n) == [kind |-> "fill", n |-> n]

atLeast(low, n) == IF n < low THEN low ELSE n
atMost(high, n) == IF n > high THEN high ELSE n

\* The size of a spec that is no fill, of total cells.
calc(spec, total) ==
  IF spec.n < 0 THEN 0
  ELSE IF spec.kind = "fixed" THEN (IF spec.n > total THEN total ELSE spec.n)
  ELSE IF spec.n > 100 THEN total ELSE (total * spec.n) \div 100

SumOf(s) == FoldLeft(LAMBDA a, b : a + b, 0, s)

\* What a fill gets of the remaining cells; the last fill gets what is rounded off, too.
fillShares(specs, weight, remaining) ==
  LET share == [i \in DOMAIN specs |-> IF specs[i].kind = "fill" /\ weight > 0 THEN (remaining * specs[i].n) \div weight ELSE 0]
      last == {i \in DOMAIN specs : specs[i].kind = "fill" /\ \A j \in i + 1 .. Len(specs) : specs[j].kind # "fill"}
  IN  [i \in DOMAIN specs |-> share[i] + IF i \in last /\ weight > 0 THEN remaining - SumOf(share) ELSE 0]

\* Fixed and percent specs come first, the fills share the rest.
splitSizes(total, specs) ==
  LET fixed == [i \in DOMAIN specs |-> IF specs[i].kind = "fill" THEN 0 ELSE calc(specs[i], total)]
      weights == [i \in DOMAIN specs |-> IF specs[i].kind = "fill" THEN specs[i].n ELSE 0]
      shares == fillShares(specs, SumOf(weights), atLeast(0, total - SumOf(fixed)))
  IN  [i \in DOMAIN specs |-> IF specs[i].kind = "fill" THEN shares[i] ELSE fixed[i]]

\* An interval cut into pieces of the given sizes, until nothing is left.
cutInto(interval, sizes) ==
  LET cut(k) == atMost(interval[2], interval[1] + SumOf(SubSeq(sizes, 1, k)))
  IN  [i \in DOMAIN sizes |-> <<cut(i - 1), cut(i)>>]

\* One piece for each spec; V and H cut a box along one axis.
Pieces(interval, specs) ==
  IF Size(interval) <= 0 THEN [i \in DOMAIN specs |-> <<interval[1], interval[1]>>]
  ELSE cutInto(interval, splitSizes(Size(interval), specs))

\* A box without rows is cut into boxes without cells.
V(box, specs) ==
  [i \in 1 .. Len(specs) |-> [x |-> IF Size(box.y) <= 0 THEN <<box.x[1], box.x[1]>> ELSE box.x,
                              y |-> Pieces(box.y, specs)[i]]]
\* The rest and the bottom h rows.
CutBottom(box, h) ==
  LET at == IF h <= 0 THEN box.y[2] ELSE IF h >= Size(box.y) THEN box.y[1] ELSE box.y[2] - h
  IN  <<[box EXCEPT !.y = <<box.y[1], at>>], [box EXCEPT !.y = <<at, box.y[2]>>]>>

Center(box, w, h) ==
  LET mid(i, s) == LET size == IF s > Size(i) THEN Size(i) ELSE s
                       from == i[1] + (Size(i) - size) \div 2
                   IN  <<from, from + size>>
  IN  [x |-> mid(box.x, w), y |-> mid(box.y, h)]

-----------------------------------------------------------------------------
\* The split

\* Mutant of clamp: the pane may take the whole box or nothing of it.
clampWide(p) == IF p.num < 0 THEN [p EXCEPT !.num = 0] ELSE IF p.num > 120 * p.den THEN [p EXCEPT !.num = 120 * p.den] ELSE p

clamp(p) ==
  IF p.num < MinPercent * p.den THEN [p EXCEPT !.num = MinPercent, !.den = 1]
  ELSE IF p.num > MaxPercent * p.den THEN [p EXCEPT !.num = MaxPercent, !.den = 1]
  ELSE p

\* SplitState.DragTo: the percent of the box beyond the mouse.
paneDraggedTo(p, box, vertical, pos) ==
  LET along == IF vertical THEN box.y ELSE box.x
      at == IF vertical THEN pos[2] ELSE pos[1]
  IN  IF Size(along) <= 0 THEN p ELSE clamp([p EXCEPT !.num = (along[2] - at) * 100, !.den = Size(along)])

\* The two pieces and between them the separator, in a box cut along one axis.
boxesOf(box, vertical, pieces, thickness) ==
  LET on(i) == IF vertical THEN [box EXCEPT !.y = i] ELSE [box EXCEPT !.x = i]
  IN  [primary |-> on(pieces[1]),
       separator |-> on(<<pieces[1][2], pieces[1][2] + thickness>>),
       secondary |-> on(<<pieces[2][1] + thickness, pieces[2][2] + thickness>>)]

\* The primary view, a separator of one cell where there is room for it, and the pane.  The percent
\* of the primary view loses its fraction.
renderBoth(box, p, vertical) ==
  LET along == IF vertical THEN box.y ELSE box.x
      thickness == IF Size(along) <= 1 THEN 0 ELSE 1
      specs == <<Percent((100 * p.den - p.num) \div p.den), Fill(1)>>
  IN  boxesOf(box, vertical, Pieces(<<along[1], along[2] - thickness>>, specs), thickness)

-----------------------------------------------------------------------------
\* The frame

Region(name, box, kinds, z) == [name |-> name, box |-> box, kinds |-> kinds, z |-> z]

\* The highest region under the mouse; of two as high, the first one registered.
findInteraction(regions, pos, kind) ==
  LET found == {i \in 1 .. Len(regions) : kind \in regions[i].kinds /\ In(pos, regions[i].box)}
      above(i, j) == regions[i].z > regions[j].z \/ (regions[i].z = regions[j].z /\ i <= j)
  IN  IF found = {} THEN "none" ELSE regions[CHOOSE i \in found : \A j \in found : above(i, j)].name

footerHeight(box) == IF Size(box.y) < 2 \/ ~screen.input THEN (IF Size(box.y) < 1 THEN 0 ELSE 1) ELSE 2

\* splitFooter: the content and the lines at the bottom, for the input and the status.
splitFooter(box) ==
  LET height == footerHeight(box)
      parts == CutBottom(box, height)
      rows == V(parts[2], <<Fixed(1), Fixed(1)>>)
  IN  [content |-> parts[1],
       input |-> IF ~screen.input THEN NoBox ELSE IF height = 1 THEN parts[2] ELSE rows[1],
       status |-> IF ~screen.input THEN parts[2] ELSE IF height = 1 THEN NoBox ELSE rows[2]]

\* The pane is beside the revision list and the operation log; a diff has the content to itself.
splitShown == screen.pane /\ screen.over # "diff"

\* The mouse regions in the order they are registered: the primary view, the pane, the separator and,
\* over them, the backdrop and the box of a dialog.
RegionsOf(split, box) ==
  <<Region("primary", split.primary, {"click", "scroll"}, 0)>>
    \o (IF splitShown THEN <<Region("secondary", split.secondary, {"click", "scroll"}, 0),
                              Region("separator", split.separator, {"drag"}, 0)>> ELSE <<>>)
    \o (IF screen.dialog THEN <<Region("backdrop", box, {"click", "scroll"}, 99),
                                Region("dialog", Center(box, 3, 1), {"click"}, 101)>> ELSE <<>>)

LayoutInit ==
  /\ \E s \in Windows : screen = [w |-> s[1], h |-> s[2], input |-> FALSE, pane |-> FALSE, dialog |-> FALSE,
                                  over |-> "list"]
  /\ \E p \in Percents, auto \in BOOLEAN :
       pane = clamp([num |-> p, den |-> 1, atBottom |-> FALSE, auto |-> auto])
  /\ renderer = [box |-> NoBox, vertical |-> FALSE, has |-> FALSE]
  /\ dragging = FALSE /\ ldrags = {} /\ stale = 0
  /\ lframe = [boxes |-> {}, regions |-> <<>>, window |-> NoBox]

\* The content, with the pane beside it if it is shown.
splitOf(content, bottom) ==
  IF splitShown THEN renderBoth(content, pane, bottom)
  ELSE [primary |-> content, separator |-> NoBox, secondary |-> NoBox]

FrameOf(box, footer, revsetRow, split) ==
  [boxes |-> {split.primary, split.separator, split.secondary, footer.input, footer.status} \cup revsetRow,
   regions |-> RegionsOf(split, box), window |-> box]

\* View: the revset line is part of the frame of the revision list only.
Drawn ==
  LET box == LBox(0, 0, screen.w, screen.h)
      footer == splitFooter(box)
      rows == V(footer.content, <<Fixed(1), Fill(1)>>)
      content == IF screen.over = "list" THEN rows[2] ELSE footer.content
      bottom == IF pane.auto /\ screen.over # "diff" THEN screen.h >= screen.w \div 2 ELSE pane.atBottom
  IN  /\ screen.w > 0 /\ screen.h > 0
      /\ pane' = [pane EXCEPT !.atBottom = bottom]
      /\ renderer' = IF splitShown THEN [box |-> content, vertical |-> bottom, has |-> TRUE] ELSE renderer
      /\ lframe' = FrameOf(box, footer, IF screen.over = "list" THEN {rows[1]} ELSE {}, splitOf(content, bottom))
      /\ stale' = 0
      /\ UNCHANGED <<screen, dragging, ldrags>>

Stales == stale < MaxStale /\ stale' = stale + 1

\* The window is resized, the status line asks for a text, a dialog, the operation log or a
\* diff opens or closes.
ScreenChanges ==
  /\ Stales
  /\ \/ \E s \in Windows : screen' = [screen EXCEPT !.w = s[1], !.h = s[2]]
     \/ \E f \in {"input", "dialog"} : screen' = [screen EXCEPT ![f] = ~@]
     \/ \E top \in {"list", "oplog", "diff"} \ {screen.over} : screen' = [screen EXCEPT !.over = top]
  /\ UNCHANGED <<pane, renderer, dragging, lframe, ldrags>>

\* PreviewToggle, and the pane of the bookmarks likewise.
TogglePane ==
  /\ Stales
  /\ screen' = [screen EXCEPT !.pane = ~@]
  /\ UNCHANGED <<pane, renderer, dragging, lframe, ldrags>>

\* PreviewToggleBottom shows the pane and moves it, away from its automatic place.
TogglePosition ==
  /\ Stales
  /\ screen' = [screen EXCEPT !.pane = TRUE]
  /\ pane' = [pane EXCEPT !.auto = FALSE, !.atBottom = ~@]
  /\ UNCHANGED <<renderer, dragging, lframe, ldrags>>

\* PreviewExpand and PreviewShrink, also of a pane that is hidden.
Resize(sign) ==
  /\ Stales
  /\ pane' = clamp([pane EXCEPT !.num = @ + sign * Increment * pane.den])
  /\ UNCHANGED <<screen, renderer, dragging, lframe, ldrags>>

\* What a click of the left button is for: a region to drag comes first, then one to click.
pressed(pos) ==
  LET drag == findInteraction(lframe.regions, pos, "drag")
  IN  IF drag # "none" THEN drag ELSE findInteraction(lframe.regions, pos, "click")

\* What the wheel is for.
wheeled(pos) == findInteraction(lframe.regions, pos, "scroll")

\* A press on the separator; the message of any other press is for the view it names.
Press(pos) ==
  /\ pressed(pos) = "separator" /\ ldrags = {} /\ ldrags' = {pos}      \* bound: one press on its way
  /\ UNCHANGED <<screen, pane, renderer, dragging, lframe, stale>>

\* SplitDragMsg: the press reaches the container.
StartDrag(pos) ==
  /\ pos \in ldrags /\ ldrags' = ldrags \ {pos}
  /\ dragging' = TRUE
  /\ pane' = IF renderer.has THEN paneDraggedTo(pane, renderer.box, renderer.vertical, pos) ELSE pane
  /\ UNCHANGED <<screen, renderer, lframe, stale>>

DragTo(pos) ==
  /\ dragging
  /\ pane' = IF renderer.has THEN paneDraggedTo(pane, renderer.box, renderer.vertical, pos) ELSE pane
  /\ UNCHANGED <<screen, renderer, dragging, lframe, ldrags, stale>>

EndDrag ==
  /\ dragging' = FALSE
  /\ UNCHANGED <<screen, pane, renderer, lframe, ldrags, stale>>

LayoutNext ==
  \/ Drawn \/ ScreenChanges \/ TogglePane \/ TogglePosition \/ EndDrag
  \/ \E sign \in {-1, 1} : Resize(sign)
  \/ \E pos \in Pointers : Press(pos) \/ StartDrag(pos) \/ DragTo(pos)

-----------------------------------------------------------------------------
\* The boxes of a frame cover the window and no two of them overlap, whatever the size and the
\* percent of the pane: no cell is left to the last frame, and no view is drawn over another.
BoxesTileWindow ==
  \A pos \in {<<x, y>> : x \in lframe.window.x[1] .. lframe.window.x[2] - 1,
                         y \in lframe.window.y[1] .. lframe.window.y[2] - 1} :
    Cardinality({b \in lframe.boxes : In(pos, b)}) = 1

\* A pane that is shown is visible whatever keys, drags and resizes went before: it has a cell of every
\* box that has two, though the mouse may have been dragged past the edge of the last frame.
PaneIsVisible ==
  renderer.has =>
    LET split == renderBoth(renderer.box, pane, renderer.vertical)
        size(box) == Size(IF renderer.vertical THEN box.y ELSE box.x)
    IN  size(renderer.box) >= 2 => size(split.secondary) >= 1

\* The separator comes to the pointer that drags it: the next frame draws it at most two cells before
\* the pointer and never after it, unless the pane has its least or its greatest percent there.
SeparatorIsAtPointer ==
  [][\A pos \in Pointers :
       (DragTo(pos) \/ StartDrag(pos)) /\ renderer.has /\ pane'.num > MinPercent * pane'.den
                                       /\ pane'.num < MaxPercent * pane'.den =>
         LET v == renderer.vertical
             along == IF v THEN renderer.box.y ELSE renderer.box.x
             sep == renderBoth(renderer.box, pane', v).separator
             from == IF v THEN sep.y[1] ELSE sep.x[1]
             at == IF v THEN pos[2] ELSE pos[1]
         IN  Size(along) >= 2 => from <= at /\ at - from <= 2 + Size(along) \div 100]_layoutVars

\* A dialog keeps clicks and the wheel from the views behind its backdrop.
ClicksStopAtBackdrop ==
  (\E i \in DOMAIN lframe.regions : lframe.regions[i].name = "backdrop") =>
    \A pos \in Pointers : {pressed(pos), wheeled(pos)} \cap {"primary", "secondary"} = {}

\* In every frame the boxes tile the window, a pane is visible and follows the pointer that
\* drags it, and a dialog keeps clicks from what is behind it (box.go, split, interaction.go).
LayoutIsSound == [](BoxesTileWindow /\ PaneIsVisible /\ ClicksStopAtBackdrop) /\ SeparatorIsAtPointer
=============================================================================
