----------------------------- MODULE Bookmarks -----------------------------
(***************************************************************************)
(* Bookmarks as jj lists them (jj/bookmark_parser.go), the commands that   *)
(* make sense for one, and the distances by which they are sorted.         *)
(* Names, remotes and commits are distinct numbers above 0.                *)
(***************************************************************************)
EXTENDS Integers, Sequences, FiniteSets, SequencesExt

LocalRemote == 0
GitRemote == -1
Origin == 1000
NoCommit == 0

\* A line of `jj bookmark list`.
Line(name, remote, present, tracked, commit) ==
  [name |-> name, remote |-> remote, present |-> present, tracked |-> tracked, commit |-> commit]

\* A side of a bookmark: its local target or that on a remote; sides is <<>> or <<the local side>>.
Side(line) == [remote |-> line.remote, present |-> line.present, tracked |-> line.tracked, commit |-> line.commit]

addLine(b, line) ==
  CASE line.remote = LocalRemote -> [b EXCEPT !.sides = <<Side(line)>>]
    [] line.remote = Origin -> [b EXCEPT !.remotes = <<Side(line)>> \o @]
    [] OTHER -> [b EXCEPT !.remotes = Append(@, Side(line))]

\* Bookmarks in the order of their first line; the remotes that mirror git are skipped.
ParseBookmarkListOutput(lines) ==
  LET Add(list, line) ==
        IF line.remote = GitRemote THEN list
        ELSE IF \E i \in DOMAIN list : list[i].name = line.name
          THEN [i \in DOMAIN list |-> IF list[i].name = line.name THEN addLine(list[i], line) ELSE list[i]]
          ELSE Append(list, addLine([name |-> line.name, sides |-> <<>>, remotes |-> <<>>], line))
  IN  FoldLeft(Add, <<>>, lines)

HasLocal(b) == b.sides # <<>>
IsPresent(b) == HasLocal(b) /\ b.sides[1].present
IsDeletable(b) == IsPresent(b)
IsTrackable(b) == IsPresent(b) /\ b.remotes = <<>>
LocalCommit(b) == IF HasLocal(b) THEN b.sides[1].commit ELSE NoCommit

\* Commands, as sets with at most one element.
BookmarkDeleteCommand(b) == IF IsDeletable(b) THEN {<<"delete", b.name, LocalRemote>>} ELSE {}
BookmarkForgetCommand(b) == {<<"forget", b.name, LocalRemote>>}
BookmarkTrackLocalCommand(b, default) ==
  {<<"track", b.name, r>> : r \in {r \in default : IsPresent(b)}}
BookmarkTrackRemoteCommand(b, side) == IF side.tracked THEN {} ELSE {<<"track", b.name, side.remote>>}
BookmarkUntrackRemoteCommand(b, side) == IF side.tracked THEN {<<"untrack", b.name, side.remote>>} ELSE {}

\* The default remote comes first.
ParseRemoteListOutput(remotes, default) ==
  SelectSeq(remotes, LAMBDA r : r = default) \o SelectSeq(remotes, LAMBDA r : r # default)

(***************************************************************************)
(* Distances from the current revision along the list of revisions:        *)
(* first what is at or below it, then what is above, nearest first, then   *)
(* what is not in the list (math.MinInt32 in the code, FarAway here).      *)
(***************************************************************************)
FarAway == -1000

\* Where a commit is in the list; without the current revision nothing is near.
bookmarkDistance(context, commit) ==
  LET at == {i \in DOMAIN context.visible : context.visible[i] = commit}
      current == {i \in DOMAIN context.visible : context.visible[i] = context.current}
      pos == IF current = {} THEN 0 ELSE CHOOSE i \in current : \A j \in current : i <= j
  IN  IF at = {} \/ context.current = NoCommit THEN FarAway
      ELSE (CHOOSE i \in at : \A j \in at : j <= i) - pos

\* Negative: a before b.
compareDistance(a, b) == IF a >= 0 /\ b >= 0 THEN a - b ELSE b - a
=============================================================================
