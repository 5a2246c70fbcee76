----------------------------- MODULE Annotation -----------------------------
(***************************************************************************)
(* The review view (ui/annotation): the diff or the files of a revision,   *)
(* comments on ranges of lines, and the loads of revisions, of files and   *)
(* of the parents and children to go to.  A load of a revision and the     *)
(* question for parents carry a request number; the load of a file carries *)
(* the revision and the path only, so two of one file may be under way.    *)
(*                                                                         *)
(* A line of a diff is <<old, new>>, its line numbers before and after the *)
(* change; 0 is none and <<0, 0>> a header that cannot be commented on.    *)
(* Line numbers and indices count from 1.  Scrolling is left out.          *)
(***************************************************************************)
EXTENDS Integers, Sequences, FiniteSets, FiniteSetsExt, Bags, Confirmation

CONSTANTS
  ARevisions,   \* the revisions, numbers from 1
  Diffs,        \* Diffs[r]: what the diff of r may be, a set of sequences of files
  MaxComments,  \* bound on the comments made
  MaxRequests,  \* bound on the requests sent
  MaxAnswers    \* a key is taken while less than this many messages are under way

\* A file as the view has it: see FileItem.
APaths == {f.path : f \in UNION {Range(d) : d \in UNION {Diffs[r] : r \in ARevisions}}}
AFile ==
  [path : APaths, deleted : BOOLEAN, lines : Seq(Nat \X Nat), content : Nat \ {0},
   loaded : {"no", "yes", "error"}, held : Nat]

\* patchFiles lists a path once, and splitFileLines makes one line of nothing.
ASSUME AnnotationAssumption ==
  /\ IsFiniteSet(ARevisions) /\ 0 \notin ARevisions /\ DOMAIN Diffs = ARevisions
  /\ \A r \in ARevisions : \A d \in Diffs[r] :
       d \in Seq(AFile) /\ \A i, j \in DOMAIN d : d[i].path = d[j].path => i = j
  /\ {MaxComments, MaxRequests, MaxAnswers} \subseteq Nat

VARIABLES
  ann,        \* the view
  aMsgs,      \* messages and commands under way, a bag
  aPicker     \* the items of the target picker over it: a record, or NoPicker

annotationViewVars == <<ann, aMsgs, aPicker>>

\* A file of a diff: lines as above, content is the number of lines of the whole file when
\* it is read, held the number of lines that the view has of it: a failed load keeps them.
FileItem(path, deleted, lines, content) ==
  [path |-> path, deleted |-> deleted, lines |-> lines, content |-> content, loaded |-> "no", held |-> 0]

NoPicker == [payload |-> "none", items |-> {}]

NewAnnotationView(rev) ==
  [rev |-> rev, loadingRev |-> 0, files |-> <<>>, file |-> 1, pres |-> "diff", loading |-> TRUE,
   items |-> {}, made |-> 0, dirty |-> FALSE, question |-> FALSE, cursor |-> 1, anchor |-> 0,
   editing |-> FALSE, focus |-> 0, loadReq |-> 1, targetsReq |-> 0, nextReq |-> 1]

AMsg(type) == [type |-> type, rev |-> 0, req |-> 0, arg |-> 0, pick |-> NoPicker, full |-> FALSE]

(***************************************************************************)
(* The document.                                                           *)
(***************************************************************************)
HasFile(a) == a.file \in DOMAIN a.files
File(a) == a.files[a.file]

SourceLen(a) ==
  IF ~HasFile(a) THEN 0
  ELSE IF a.pres = "file" THEN File(a).held ELSE Len(File(a).lines)

Commentable(a, i) ==
  i \in 1 .. SourceLen(a) /\ (a.pres = "diff" => File(a).lines[i] # <<0, 0>>)

\* The numbers of some lines as a range; <<0, 0>> is none.
Extent(numbers) == IF numbers \ {0} = {} THEN <<0, 0>> ELSE <<Min(numbers \ {0}), Max(numbers \ {0})>>

AnnotationLocation(a, from, to) ==
  IF to > SourceLen(a) THEN [old |-> <<0, 0>>, new |-> <<0, 0>>]
  ELSE IF a.pres = "file"
    THEN IF File(a).deleted THEN [old |-> <<from, to>>, new |-> <<0, 0>>]
         ELSE [old |-> <<0, 0>>, new |-> <<from, to>>]
  ELSE LET lines == {File(a).lines[i] : i \in from .. to}
       IN  [old |-> Extent({l[1] : l \in lines}), new |-> Extent({l[2] : l \in lines})]

lineInRange(line, range) == line > 0 /\ range[1] > 0 /\ range[1] <= line /\ line <= range[2]

AnnotationLines(a, n) == IF File(a).deleted THEN n.old ELSE n.new
IsHere(a, n) == HasFile(a) /\ n.rev = a.rev /\ n.path = File(a).path

AnnotationContains(a, i, n) ==
  /\ IsHere(a, n) /\ i \in 1 .. SourceLen(a)
  /\ IF a.pres = "file" THEN lineInRange(i, AnnotationLines(a, n))
     ELSE lineInRange(File(a).lines[i][2], n.new) \/ lineInRange(File(a).lines[i][1], n.old)

\* The lines where a comment is shown: at most one matters, the first.
Anchor(a, n) ==
  IF ~IsHere(a, n) THEN {}
  ELSE IF a.pres = "file" THEN {AnnotationLines(a, n)[2]} \cap 1 .. SourceLen(a)
  ELSE {i \in DOMAIN File(a).lines :
          LET line == File(a).lines[i]
          IN  IF n.new[2] > 0 THEN n.new[2] = line[2] ELSE n.old[2] > 0 /\ n.old[2] = line[1]}

(***************************************************************************)
(* Positions and comments.                                                 *)
(***************************************************************************)
\* The search begins at the next line and ends where there is none, which is at once
\* for a cursor that is left far behind the end.
nextCommentable(a, from, direction) ==
  LET ahead == {i \in 1 .. SourceLen(a) :
                  Commentable(a, i) /\ (IF direction > 0 THEN i > from ELSE i < from /\ from <= SourceLen(a) + 1)}
  IN  IF ahead # {} THEN (IF direction > 0 THEN Min(ahead) ELSE Max(ahead))
      ELSE Max({1, Min({from, SourceLen(a)})})

resetPosition(a) ==
  LET b == [a EXCEPT !.cursor = 1, !.anchor = 0, !.editing = FALSE]
  IN  IF SourceLen(b) > 0 /\ ~Commentable(b, 1) THEN [b EXCEPT !.cursor = nextCommentable(b, 0, 1)] ELSE b

\* The store: a comment keeps its id, ids are never used again.
Find(a, id) == {n \in a.items : n.id = id}
storeAdd(a, n) == [a EXCEPT !.items = @ \cup {[n EXCEPT !.id = a.made + 1]}, !.made = @ + 1, !.dirty = TRUE]
storeUpdateComment(a, id) == [a EXCEPT !.dirty = @ \/ Find(a, id) # {}]      \* the text is left out
storeRemove(a, id) == [a EXCEPT !.items = @ \ Find(a, id), !.dirty = @ \/ Find(a, id) # {}]
storeClear(a) == [a EXCEPT !.items = {}, !.dirty = @ \/ a.items # {}]

\* Where a comment is copied to be about: ranges of old and of new lines; none is written as line 0.
Locations(n) == {side \in {<<"old", n.old>>, <<"new", n.new>>} : side[2] # <<0, 0>>}

Focused(a) == {n \in Find(a, a.focus) : AnnotationContains(a, a.cursor, n)}
clearFocus(a) == [a EXCEPT !.focus = 0]

\* A cursor that moved away from the focused comment gives up the focus.
Refocus(a) == IF Focused(a) = {} THEN clearFocus(a) ELSE a

annotationAtCursor(a) ==
  IF Focused(a) # {} THEN Focused(a) ELSE {n \in a.items : AnnotationContains(a, a.cursor, n)}

moveCursor(a, direction, selecting) ==
  IF SourceLen(a) = 0 THEN a
  ELSE LET to == nextCommentable(a, a.cursor, direction)
           b == [a EXCEPT !.cursor = to,
                          !.anchor = IF ~selecting THEN 0
                                     ELSE IF to # a.cursor /\ @ = 0 THEN a.cursor ELSE @]
       IN  IF to # a.cursor THEN Refocus(b) ELSE b

moveBoundary(a, last) ==
  IF SourceLen(a) = 0 THEN a
  ELSE Refocus([a EXCEPT !.anchor = 0,
                         !.cursor = IF last THEN nextCommentable(a, SourceLen(a) + 1, -1) ELSE nextCommentable(a, 0, 1)])

newAnnotation(a) ==
  LET at == IF a.anchor = 0 THEN a.cursor ELSE a.anchor
      where == AnnotationLocation(a, Min({at, a.cursor}), Max({at, a.cursor}))
  IN  [id |-> 0, rev |-> a.rev, path |-> File(a).path, old |-> where.old, new |-> where.new]

\* An empty comment is not kept; the focused comment gets the text instead of a new one.
saveEditor(a, empty) ==
  LET b == [a EXCEPT !.editing = FALSE, !.anchor = 0]
  IN  IF empty THEN b
      ELSE IF a.focus # 0 THEN storeUpdateComment(b, a.focus) ELSE storeAdd(b, newAnnotation(a))

(***************************************************************************)
(* Commands: the view afterwards and what is sent.                         *)
(***************************************************************************)
AOut(a, send) == [a |-> a, send |-> send]

LoadFile(a) ==
  IF HasFile(a) /\ File(a).loaded = "no"
    THEN {[AMsg("file") EXCEPT !.rev = a.rev, !.arg = File(a).path]} ELSE {}
loadCurrentFile(a) == AOut(a, IF a.pres = "file" THEN LoadFile(a) ELSE {})

OpenPicker(a, payload, items) ==
  AOut(a, IF items = {} THEN {} ELSE {[AMsg("open") EXCEPT !.pick = [payload |-> payload, items |-> items]]})

loadRevision(a, rev) ==
  AOut([a EXCEPT !.targetsReq = 0, !.nextReq = @ + 1, !.loadReq = a.nextReq + 1, !.loadingRev = rev],
       {[AMsg("revision") EXCEPT !.rev = rev, !.req = a.nextReq + 1, !.full = a.pres = "file"]})

selectRevision(a, rev) ==
  IF rev \in {a.rev, a.loadingRev} \/ a.editing THEN AOut(a, {}) ELSE loadRevision(a, rev)

navigateRevision(a) ==
  IF a.editing \/ a.loadingRev # 0 THEN AOut(a, {})
  ELSE AOut([a EXCEPT !.nextReq = @ + 1, !.targetsReq = a.nextReq + 1],
            {[AMsg("targets") EXCEPT !.rev = a.rev, !.req = a.nextReq + 1]})

\* jumpToFocusedAnnotation when the file is the right one.
jumpHere(a, n) ==
  IF Anchor(a, n) # {} THEN [a EXCEPT !.cursor = Min(Anchor(a, n)), !.anchor = 0] ELSE clearFocus(a)

\* A comment that the diff does not show is looked for in the whole file.
jumpToFocusedAnnotation(a) ==
  LET notes == {n \in Find(a, a.focus) : n.rev = a.rev}
      n == CHOOSE n \in notes : TRUE
      files == {i \in DOMAIN a.files : a.files[i].path = n.path}
      b == [a EXCEPT !.file = CHOOSE i \in files : TRUE]
      c == resetPosition([b EXCEPT !.pres = "file"])
  IN  CASE notes = {} -> AOut(clearFocus(a), {})
        [] notes # {} /\ files = {} -> AOut(clearFocus(a), {})
        [] OTHER -> IF b.pres = "file" \/ Anchor(b, n) # {} THEN AOut(jumpHere(b, n), {})
                    ELSE IF File(c).loaded = "yes" THEN AOut(jumpHere(c, n), {})
                    ELSE AOut(IF LoadFile(c) # {} THEN c ELSE clearFocus(c), LoadFile(c))

navigateFile(a, delta) ==
  IF a.files = <<>> THEN AOut(a, {})
  ELSE loadCurrentFile(resetPosition(clearFocus(
         [a EXCEPT !.file = ((@ - 1 + delta) % Len(a.files)) + 1])))

selectFile(a, path) ==
  LET found == {i \in DOMAIN a.files : a.files[i].path = path}
  IN  IF found = {} THEN AOut(a, {})
      ELSE loadCurrentFile(resetPosition(clearFocus([a EXCEPT !.file = CHOOSE i \in found : TRUE])))

togglePresentation(a) ==
  LET b == [a EXCEPT !.pres = IF @ = "diff" THEN "file" ELSE "diff"]
  IN  loadCurrentFile(resetPosition(clearFocus(b)))

\* Add edits the one comment here, begins one, or lets the user pick.
annotationAdd(a) ==
  LET here == annotationAtCursor(a)
  IN  CASE Cardinality(here) = 1 -> AOut([a EXCEPT !.focus = (CHOOSE n \in here : TRUE).id, !.editing = TRUE], {})
        [] here = {} -> AOut(IF Commentable(a, a.cursor) THEN [clearFocus(a) EXCEPT !.editing = TRUE] ELSE a, {})
        [] OTHER -> OpenPicker(a, "comment", {n.id : n \in here})

annotationDelete(a) ==
  LET here == annotationAtCursor(a)
  IN  IF Cardinality(here) = 1
        THEN AOut(storeRemove(clearFocus(a), (CHOOSE n \in here : TRUE).id), {})
        ELSE OpenPicker(a, "comment", {n.id : n \in here})

ViewKeys(a) ==
  {AOut(moveCursor(a, direction, selecting), {}) : direction \in {-1, 1}, selecting \in BOOLEAN}
  \cup {AOut(moveBoundary(a, last), {}) : last \in BOOLEAN}
  \cup {navigateFile(a, delta) : delta \in {-1, 1}}
  \cup {OpenPicker(a, "file", IF a.loading THEN {} ELSE {a.files[i].path : i \in DOMAIN a.files}),
        OpenPicker(a, "comment", {n.id : n \in a.items}),
        navigateRevision(a), togglePresentation(a), annotationAdd(a), annotationDelete(a),
        AOut(storeClear(clearFocus(a)), {}),
        AOut(IF a.items = {} THEN a ELSE [a EXCEPT !.dirty = FALSE], {}),
        AOut(a, {AMsg("close")})}

EditorKeys(a) ==
  {AOut(saveEditor(a, empty), {}) : empty \in BOOLEAN}
  \cup {AOut([a EXCEPT !.editing = FALSE, !.anchor = 0], {})}

Within(k) == k.a.made <= MaxComments /\ k.a.nextReq <= MaxRequests
Busy == BagCardinality(aMsgs) >= MaxAnswers

\* The picker and the question take the keys.
AnnotationViewKey ==
  /\ aPicker = NoPicker /\ ~ann.question /\ ~Busy
  /\ \E k \in IF ann.editing THEN EditorKeys(ann) ELSE ViewKeys(ann) :
       Within(k) /\ ann' = k.a /\ aMsgs' = aMsgs (+) SetToBag(k.send)
  /\ UNCHANGED aPicker

LineClicked ==
  /\ ~ann.question /\ ~ann.editing
  /\ \E i \in 1 .. SourceLen(ann) :
       Commentable(ann, i) /\ ann' = Refocus([ann EXCEPT !.cursor = i, !.anchor = 0])
  /\ UNCHANGED <<aMsgs, aPicker>>

(***************************************************************************)
(* Messages.                                                               *)
(***************************************************************************)

\* RequestClose: comments that were not copied are asked about.
RequestClose(a) == AOut(IF a.items # {} /\ a.dirty THEN [a EXCEPT !.question = TRUE] ELSE a, {})

AnnotationQuestionKey ==
  /\ ann.question /\ ann' = [ann EXCEPT !.question = FALSE]
  /\ UNCHANGED <<aMsgs, aPicker>>

\* An answer that finds the editor open is dropped, and another can be asked for.
revisionBlocked(a) == [a EXCEPT !.loadReq = 0, !.loadingRev = 0, !.loading = FALSE]

\* Mutant of editorBlocks: a revision that was asked for is shown whatever is being written.
editorNeverBlocks(a) == FALSE

editorBlocks(a) == a.loadingRev # 0 /\ a.editing

revisionLoaded(a, m, err, files) ==
  LET pending == a.loadingRev # 0
      b == [a EXCEPT !.loadReq = 0, !.loadingRev = 0, !.loading = FALSE]
      c == resetPosition([b EXCEPT !.rev = m.rev, !.files = files, !.file = 1])
  IN  CASE m.req # a.loadReq \/ m.rev # (IF pending THEN a.loadingRev ELSE a.rev)
           \/ ~(pending \/ a.loading) -> AOut(a, {})
        [] OTHER ->
             CASE editorBlocks(a) -> AOut(revisionBlocked(a), {})
               [] ~editorBlocks(a) /\ err -> AOut(IF pending THEN clearFocus(b) ELSE [b EXCEPT !.files = <<>>], {})
               [] OTHER -> IF c.focus # 0 THEN jumpToFocusedAnnotation(c) ELSE loadCurrentFile(c)

\* How many lines the whole file has: the change may be rewritten between two loads.
Contents(rev, path) == {f.content : f \in {f \in UNION {Range(d) : d \in Diffs[rev]} : f.path = path}}

ReadFile(f, lines) == [f EXCEPT !.loaded = "yes", !.held = lines]
UnreadFile(f) == [f EXCEPT !.loaded = "error"]

\* What a load finds: with the whole file shown, the first file is read with it.
Loaded(m) ==
  UNION {IF ~m.full \/ d = <<>> THEN {d}
         ELSE {[d EXCEPT ![1] = f] : f \in {UnreadFile(d[1])} \cup {ReadFile(d[1], l) : l \in Contents(m.rev, d[1].path)}} :
         d \in Diffs[m.rev]}

revisionTargetsLoaded(a, m, targets) ==
  IF m.req # a.targetsReq \/ m.rev # a.rev THEN AOut(a, {})
  ELSE LET b == [a EXCEPT !.targetsReq = 0]
       IN  CASE targets = {} -> AOut(b, {})
             [] Cardinality(targets) = 1 -> selectRevision(clearFocus(b), CHOOSE r \in targets : TRUE)
             [] OTHER -> OpenPicker(b, "revision", targets)

\* lines is what was read, 0 if the file could not be.
fileLoaded(a, m, lines) ==
  LET found == {i \in DOMAIN a.files : a.files[i].path = m.arg}
      b == [a EXCEPT !.files = [i \in DOMAIN a.files |->
              IF i \notin found THEN a.files[i]
              ELSE IF lines = 0 THEN UnreadFile(a.files[i]) ELSE ReadFile(a.files[i], lines)]]
  IN  CASE m.rev # a.rev \/ found = {} -> AOut(a, {})
        [] OTHER -> IF a.pres = "file" /\ (\E n \in Find(a, a.focus) : n.path = m.arg)
                      THEN jumpToFocusedAnnotation(b) ELSE AOut(b, {})

selectCommentPickerTarget(a, id) ==
  LET found == Find(a, id)
      n == CHOOSE n \in found : TRUE
      b == [a EXCEPT !.pres = "diff", !.focus = id]
  IN  CASE found = {} -> AOut(a, {})
        [] OTHER -> IF n.rev # a.rev /\ a.editing THEN AOut(a, {})
                    ELSE IF n.rev = a.rev /\ ~a.loading THEN jumpToFocusedAnnotation(b)
                    ELSE selectRevision(b, n.rev)

selectRevisionPickerTarget(a, rev) ==
  IF rev # a.rev /\ a.editing THEN AOut(a, {}) ELSE selectRevision(clearFocus(a), rev)

targetPicked(a, m) ==
  CASE m.pick.payload = "file" -> selectFile(a, m.arg)
    [] m.pick.payload = "comment" -> selectCommentPickerTarget(a, m.arg)
    [] m.pick.payload = "revision" -> selectRevisionPickerTarget(a, m.arg)

Handled(m) ==
  CASE m.type = "revision" -> {revisionLoaded(ann, m, FALSE, files) : files \in Loaded(m)} \cup {revisionLoaded(ann, m, TRUE, <<>>)}
    [] m.type = "targets" -> {revisionTargetsLoaded(ann, m, targets) : targets \in SUBSET (ARevisions \ {m.rev})}
    [] m.type = "file" -> {fileLoaded(ann, m, lines) : lines \in {0} \cup Contents(m.rev, m.arg)}
    [] m.type = "picked" -> {targetPicked(ann, m)}
    [] m.type = "close" -> {RequestClose(ann)}
    [] m.type = "open" -> {AOut(ann, {})}

\* A picker that answers is closed by its answer.
AnnotationDeliver ==
  \E m \in BagToSet(aMsgs) :
    /\ \E k \in Handled(m) : Within(k) /\ ann' = k.a /\ aMsgs' = (aMsgs (-) SetToBag({m})) (+) SetToBag(k.send)
    /\ aPicker' = CASE m.type = "open" -> m.pick
                    [] m.type = "picked" -> NoPicker
                    [] OTHER -> aPicker

\* Enter in the picker, possibly twice before the answer is handled, or Escape.
PickerAccepts ==
  /\ aPicker # NoPicker /\ ~Busy
  /\ \E i \in aPicker.items :
       aMsgs' = aMsgs (+) SetToBag({[AMsg("picked") EXCEPT !.arg = i, !.pick = [aPicker EXCEPT !.items = {}]]})
  /\ UNCHANGED <<ann, aPicker>>

PickerCloses == aPicker # NoPicker /\ aPicker' = NoPicker /\ UNCHANGED <<ann, aMsgs>>

AnnotationInit ==
  /\ \E r \in ARevisions :
       /\ ann = NewAnnotationView(r)
       /\ aMsgs = SetToBag({[AMsg("revision") EXCEPT !.rev = r, !.req = 1]})
  /\ aPicker = NoPicker

AnnotationNext ==
  \/ AnnotationViewKey \/ LineClicked \/ AnnotationQuestionKey \/ AnnotationDeliver
  \/ PickerAccepts \/ PickerCloses

AnnotationSpec == AnnotationInit /\ [][AnnotationNext]_annotationViewVars

(***************************************************************************)
(* Properties.                                                             *)
(***************************************************************************)

\* The numbers of a range of lines, <<0, 0>> for none.
IsRange(r) == r = <<0, 0>> \/ (0 < r[1] /\ r[1] <= r[2])

\* What is edited has a file that it can be saved to (saveEditor reads its path), and the
\* comments have ids of their own and ranges in order, from line 1 on.
AnnotationTypeOK ==
  /\ ann.cursor > 0 /\ ann.anchor >= 0
  /\ ann.editing => HasFile(ann)
  /\ \A n \in ann.items : n.id \in 1 .. ann.made /\ Find(ann, n.id) = {n} /\ IsRange(n.old) /\ IsRange(n.new)

\* A comment has the focus only while it is under the cursor, or while the revision or
\* the file it is in is being loaded: Add and Delete never act on a comment elsewhere.
\* The editor writes to the comment under the cursor.
FocusIsShown ==
  ann.focus # 0 =>
    \/ ann.loadingRev # 0 /\ ~ann.editing
    \/ /\ ann.pres = "file" /\ ~ann.editing
       /\ \E m \in BagToSet(aMsgs), n \in Find(ann, ann.focus) :
            IsHere(ann, n) /\ m.type = "file" /\ m.rev = ann.rev /\ m.arg = n.path
    \/ Focused(ann) # {}

\* Until the answer to the last request is there, that answer is under way: the view
\* never waits for a revision that nobody loads (no other could be asked for then).
LoadIsUnderWay ==
  ann.loading \/ ann.loadingRev # 0 =>
    \E m \in BagToSet(aMsgs) : /\ m.type = "revision" /\ m.req = ann.loadReq
                               /\ m.rev = IF ann.loadingRev # 0 THEN ann.loadingRev ELSE ann.rev

\* While a comment is being written, loads that arrive neither close the editor nor take it to
\* another file, nor move the lines that a new comment is about (the file's own answer takes the
\* cursor to the comment being rewritten): only the answer of a picker confirmed twice does.
CommentStaysInPlace ==
  [][ /\ ann.editing /\ aMsgs' # aMsgs
      /\ \A m \in BagToSet(aMsgs) :
           m.type = "picked" => m \in BagToSet(aMsgs') /\ aMsgs[m] <= aMsgs'[m]
      => /\ ann'.editing /\ ann'.rev = ann.rev /\ ann'.file = ann.file
         /\ ann.focus = 0 => ann'.cursor = ann.cursor /\ ann'.anchor = ann.anchor ]_annotationViewVars

\* A comment that is added is found again at each line that was marked for it, so that Add
\* rewrites it and Delete removes it; unless the mark goes beyond the lines shown, and it is at none.
CommentIsFound ==
  [][ \A n \in ann'.items \ ann.items :
        LET marked == {i \in 1 .. SourceLen(ann) : Commentable(ann, i) /\
                         \/ i = ann.cursor
                         \/ ann.anchor # 0 /\ Min({ann.anchor, ann.cursor}) <= i /\ i <= Max({ann.anchor, ann.cursor})}
        IN  IF Max({ann.anchor, ann.cursor}) <= SourceLen(ann)
              THEN \A i \in marked : AnnotationContains(ann', i, n)
              ELSE Locations(n) = {} ]_annotationViewVars

\* Whatever is loaded, moved or answered late: the focus is on a comment that is shown, a load that
\* is waited for is under way, a comment stays at the lines it is written about and is found there
\* (model.go Update).
AnnotationIsSound ==
  /\ [](AnnotationTypeOK /\ FocusIsShown /\ LoadIsUnderWay)
  /\ CommentStaysInPlace /\ CommentIsFound
=============================================================================
