------------------------------- MODULE Patch -------------------------------
(***************************************************************************)
(* Reading `jj diff --git` for the review view (ui/annotation/patch.go):   *)
(* the diff is written line by line, as git writes it, and parsed as it    *)
(* comes.  Inside a hunk a removed line whose text begins with "-- " looks *)
(* like the marker of the old path, and an added one like that of the new. *)
(*                                                                         *)
(* A path is a number, 0 is none (/dev/null).  The text of a changed line  *)
(* is its set of words; a removed line is paired with the added line that  *)
(* shares most words with it, to highlight what differs.                   *)
(***************************************************************************)
EXTENDS Integers, Sequences, FiniteSets, SequencesExt

CONSTANTS
  Paths,             \* paths of files, numbers from 1
  Words,             \* words of changed lines
  MaxPatchLines,     \* bound on the lines of a diff
  maxRelatedPairingLines   \* blocks with more lines on a side are not paired

ASSUME PatchAssumption ==
  /\ 0 \notin Paths /\ IsFiniteSet(Words) /\ {MaxPatchLines, maxRelatedPairingLines} \subseteq Nat

VARIABLES
  written,   \* the lines written so far
  parse      \* the parser: its files, its line counters and whether it is in a hunk

patchVars == <<written, parse>>

\* A line: its kind, the path or the text it carries, the start of a hunk, and whether
\* it reads like a marker.
Raw(kind) == [kind |-> kind, path |-> 0, words |-> {}, old |-> 0, new |-> 0, marker |-> FALSE]
ChangedLine(l) == [Raw(l.kind) EXCEPT !.words = l.words, !.marker = l.marker]

PatchLine(raw, old, new) == [kind |-> raw.kind, words |-> raw.words, old |-> old, new |-> new]
NewFile(path) == [old |-> path, new |-> path, lines |-> <<>>]
Commentables == {"context", "removed", "added"}

(***************************************************************************)
(* The parser.                                                             *)
(***************************************************************************)
SetCurrent(p, file) == [p EXCEPT !.files[Len(p.files)] = file]
Current(p) == p.files[Len(p.files)]
AddLine(p, raw, old, new) ==
  SetCurrent(p, [Current(p) EXCEPT !.lines = Append(@, PatchLine(raw, old, new))])

LooksOld(raw) == raw.kind = "old path" \/ (raw.kind = "removed" /\ raw.marker)
LooksNew(raw) == raw.kind = "new path" \/ (raw.kind = "added" /\ raw.marker)

\* Header lines; rename lines set a path and show nothing, others may be shown.
parseHeader(p, raw) ==
  LET file == Current(p)
  IN  CASE LooksOld(raw) -> SetCurrent(p, [file EXCEPT !.old = raw.path])
        [] LooksNew(raw) -> SetCurrent(p, [file EXCEPT !.new = raw.path])
        [] raw.kind = "new file" -> AddLine(SetCurrent(p, [file EXCEPT !.old = 0]), raw, 0, 0)
        [] raw.kind = "deleted file" -> AddLine(SetCurrent(p, [file EXCEPT !.new = 0]), raw, 0, 0)
        [] raw.kind = "rename from" -> SetCurrent(p, [file EXCEPT !.old = raw.path])
        [] raw.kind = "rename to" -> SetCurrent(p, [file EXCEPT !.new = raw.path])
        [] raw.kind = "mode" -> AddLine(p, raw, 0, 0)
        [] OTHER -> p    \* the index line is not shown

parseHunkLine(p, raw) ==
  CASE raw.kind = "context" -> [AddLine(p, raw, p.oldLine, p.newLine) EXCEPT !.oldLine = @ + 1, !.newLine = @ + 1]
    [] raw.kind = "removed" -> [AddLine(p, raw, p.oldLine, 0) EXCEPT !.oldLine = @ + 1]
    [] raw.kind = "added" -> [AddLine(p, raw, 0, p.newLine) EXCEPT !.newLine = @ + 1]
    [] raw.kind = "no newline" -> AddLine(p, raw, 0, 0)
    [] OTHER -> [AddLine(p, raw, 0, 0) EXCEPT !.inHunk = FALSE]

\* Mutant of parseLine: a line that reads like a marker is one, inside a hunk too.
parseLineMarkersFirst(p, raw) ==
  CASE raw.kind = "diff" -> [p EXCEPT !.files = Append(@, NewFile(raw.path)), !.inHunk = FALSE]
    [] raw.kind # "diff" /\ p.files = <<>> -> p
    [] raw.kind = "hunk" /\ p.files # <<>> -> [AddLine(p, raw, 0, 0) EXCEPT !.oldLine = raw.old, !.newLine = raw.new, !.inHunk = TRUE]
    [] OTHER -> IF p.inHunk /\ ~LooksOld(raw) /\ ~LooksNew(raw) THEN parseHunkLine(p, raw) ELSE parseHeader(p, raw)

\* What comes before the first file is skipped.
parseLine(p, raw) ==
  CASE raw.kind = "diff" -> [p EXCEPT !.files = Append(@, NewFile(raw.path)), !.inHunk = FALSE]
    [] raw.kind # "diff" /\ p.files = <<>> -> p
    [] raw.kind = "hunk" /\ p.files # <<>> -> [AddLine(p, raw, 0, 0) EXCEPT !.oldLine = raw.old, !.newLine = raw.new, !.inHunk = TRUE]
    [] OTHER -> IF p.inHunk THEN parseHunkLine(p, raw) ELSE parseHeader(p, raw)

(***************************************************************************)
(* Pairs of changed lines.                                                 *)
(***************************************************************************)
sharedLineWords(lines, i, j) == Cardinality(lines[i].words \cap lines[j].words)

\* i is a removed line and j an added one of the run of added lines that follows.
InOneBlock(lines, i, j) ==
  /\ i < j /\ lines[i].kind = "removed" /\ lines[j].kind = "added"
  /\ \E k \in i .. j - 1 : /\ \A l \in i .. k : lines[l].kind = "removed"
                           /\ \A l \in k + 1 .. j : lines[l].kind = "added"

\* The only line of the candidates that shares most words with line i.
BestMatch(lines, i, candidates) ==
  {j \in candidates : /\ sharedLineWords(lines, i, j) > 0
                      /\ \A k \in candidates \ {j} : sharedLineWords(lines, i, k) < sharedLineWords(lines, i, j)}

relatedLinePairs(lines, removed, added) ==
  IF Cardinality(removed) > maxRelatedPairingLines \/ Cardinality(added) > maxRelatedPairingLines THEN {}
  ELSE {pair \in removed \X added : /\ pair[2] \in BestMatch(lines, pair[1], added)
                                    /\ pair[1] \in BestMatch(lines, pair[2], removed)}

pairChangedBlocks(lines) ==
  UNION {relatedLinePairs(lines, {k \in DOMAIN lines : InOneBlock(lines, k, b[2])},
                                 {k \in DOMAIN lines : InOneBlock(lines, b[1], k)})
         : b \in {b \in (DOMAIN lines) \X (DOMAIN lines) : InOneBlock(lines, b[1], b[2])}}

\* The lines shown: those of a renamed file begin with both paths.
Shown(file) ==
  IF file.old # 0 /\ file.new # 0 /\ file.old # file.new
    THEN <<PatchLine(Raw("rename"), 0, 0)>> \o file.lines ELSE file.lines

(***************************************************************************)
(* A diff as git writes it.                                                *)
(***************************************************************************)
LastKind == IF written = <<>> THEN "start" ELSE Last(written).kind
Headers == {"diff", "mode", "new file", "deleted file", "rename from", "rename to", "index"}
InHunk == LastKind \in {"hunk", "no newline"} \cup Commentables
LastDiff == CHOOSE i \in DOMAIN written : written[i].kind = "diff" /\ \A j \in i + 1 .. Len(written) : written[j].kind # "diff"
Wrote(kind) == \E j \in LastDiff .. Len(written) : written[j].kind = kind

\* What may come next; paths in headers are those of the file, or none.  A file that is renamed, that
\* is empty or of which only the mode changes has no hunk.
NextLines ==
  {[Raw("diff") EXCEPT !.path = p] : p \in IF LastKind \in {"start"} \cup (Headers \ {"diff", "rename from"}) \/ InHunk THEN Paths ELSE {}}
  \cup (IF LastKind = "diff" THEN {Raw("new file"), Raw("deleted file"), Raw("mode")} ELSE {})
  \cup (IF LastKind = "diff" THEN {[Raw("rename from") EXCEPT !.path = Last(written).path]} ELSE {})
  \cup (IF LastKind = "rename from" THEN {[Raw("rename to") EXCEPT !.path = p] : p \in Paths} ELSE {})
  \cup (IF LastKind \in Headers \ {"rename from", "index"} THEN {Raw("index")} ELSE {})
  \cup (IF LastKind = "index" THEN {[Raw("old path") EXCEPT !.path = IF Wrote("new file") THEN 0 ELSE written[LastDiff].path]} ELSE {})
  \cup (IF LastKind = "old path"
          THEN {[Raw("new path") EXCEPT !.path =
                   IF Wrote("deleted file") THEN 0
                   ELSE IF Wrote("rename to") THEN parse.files[Len(parse.files)].new ELSE written[LastDiff].path]} ELSE {})
  \cup (IF LastKind = "new path" \/ InHunk THEN {[Raw("hunk") EXCEPT !.old = 1, !.new = 2]} ELSE {})
  \cup (IF InHunk THEN {Raw("context"), Raw("no newline")} ELSE {})
  \cup (IF InHunk THEN {ChangedLine(l) : l \in [kind : {"removed", "added"}, words : SUBSET Words, marker : BOOLEAN]} ELSE {})

WriteLine ==
  /\ Len(written) < MaxPatchLines
  /\ \E raw \in NextLines : written' = Append(written, raw) /\ parse' = parseLine(parse, raw)

PatchInit ==
  /\ written = <<>>
  /\ parse = [files |-> <<>>, oldLine |-> 0, newLine |-> 0, inHunk |-> FALSE]

PatchNext == WriteLine

PatchSpec == PatchInit /\ [][PatchNext]_patchVars

(***************************************************************************)
(* Properties.                                                             *)
(***************************************************************************)

\* Counted from the hunk header above it, with the lines of the written diff: every
\* changed line reaches the list, with its numbers before and after the change.
LineNumbersAreExact ==
  LET last == Len(written)
      hunk == CHOOSE h \in DOMAIN written : written[h].kind = "hunk" /\ \A j \in h + 1 .. last : written[j].kind # "hunk"
      counted(kinds) == Cardinality({j \in hunk + 1 .. last - 1 : written[j].kind \in kinds})
      line == Last(Current(parse).lines)
  IN  LastKind \in Commentables =>
        /\ line.kind = LastKind
        /\ line.old = IF LastKind = "added" THEN 0 ELSE written[hunk].old + counted({"context", "removed"})
        /\ line.new = IF LastKind = "removed" THEN 0 ELSE written[hunk].new + counted({"context", "added"})

\* A line is paired with one line at most, and never across blocks: the words
\* highlighted in a line and in its partner are differences between the two.
PairsAreMatching ==
  written # <<>> =>
    \A p, q \in pairChangedBlocks(Shown(Current(parse))) :
      /\ (p[1] = q[1]) <=> (p[2] = q[2])
      /\ InOneBlock(Shown(Current(parse)), p[1], p[2])

\* A diff that is parsed line by line keeps every changed line with its numbers, and pairs changed
\* lines one to one within a block (patch.go parseGitDiff, pairChangedBlocks).
PatchIsExact == LineNumbersAreExact /\ PairsAreMatching
=============================================================================
