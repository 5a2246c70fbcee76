--------------------------- MODULE RevisionsProofs ---------------------------
(***************************************************************************)
(* That the revision list is sound however refreshes, late answers and     *)
(* keys interleave, that it shows the latest load, and that it keeps the   *)
(* selection while it grows, for any logs, batch size and number of        *)
(* refreshes.  The first inductive invariant adds the types of what is     *)
(* under way, and that the streamer of every message and every request has *)
(* been opened; the second says how far the latest load has come.          *)
(***************************************************************************)
EXTENDS Revisions, SequenceTheorems, WellFoundedInduction, TLAPS

Stream == [log : Seq(Commits), pos : Nat, open : BOOLEAN]

\* What is under way when the streamers D have been opened.
MsgOk(m, D) ==
  /\ m.type = "refresh" => m.sel \in Names /\ m.keep \in BOOLEAN
  /\ m.type = "updateRevisions" => m.rows \in Seq(Commits)
  /\ m.type = "append" => m.rows \in Seq(Commits) /\ m.more \in BOOLEAN
  /\ m.type = "streamingReady" => m.streamer \in {0} \cup D
CmdOk(c, D) ==
  /\ c.type \in {"request", "loadStreaming", "load"}
  /\ c.type = "request" => c.streamer \in D
  /\ c.type \in {"loadStreaming", "load"} => c.tag # 0

MsgsOk(bag, D) == IsABag(bag) /\ \A m \in DOMAIN bag : MsgOk(m, D)
CmdsOk(bag, D) == IsABag(bag) /\ \A c \in DOMAIN bag : CmdOk(c, D)

Announced(bag, s) == \E m \in DOMAIN bag : m.type = "streamingReady" /\ m.streamer = s

ListPart ==
  /\ rows \in Seq(Commits) /\ offScreenRows \in Seq(Commits)
  /\ cursor \in Nat /\ CursorInRange
LoadPart ==
  /\ repo \in DOMAIN Logs
  /\ tag \in 0 .. MaxTag /\ pending \in [tag : 0 .. MaxTag, sel : Names, keep : BOOLEAN]
  /\ streamer \in {0} \cup DOMAIN streams
StreamPart == streams \in [DOMAIN streams -> Stream] /\ 0 \notin DOMAIN streams
BagPart == CmdsOk(cmds, DOMAIN streams) /\ MsgsOk(msgs, DOMAIN streams)

RevisionsInv == ListPart /\ LoadPart /\ StreamPart /\ BagPart /\ NoStreamerLeaks /\ InFlightIsHonest

-----------------------------------------------------------------------------
(* Bags of commands and messages.                                            *)

\* Adding to a bag gives a bag with one more member.
LEMMA WithBag ==
  ASSUME NEW B, IsABag(B), NEW x
  PROVE  IsABag(With(B, x)) /\ DOMAIN With(B, x) = DOMAIN B \cup {x}
<1> DEFINE S == SetToBag({x})
           P == With(B, x)
<1>1. DOMAIN S = {x} /\ S[x] = 1
  BY DEF SetToBag
<1>2. P = B (+) S
  BY DEF With
<1>3. DOMAIN P = DOMAIN B \cup {x}
  BY <1>1, <1>2 DEF (+)
<1>4. ASSUME NEW t \in DOMAIN B \cup {x}
      PROVE  P[t] = (IF t \in DOMAIN B THEN B[t] ELSE 0) + (IF t \in {x} THEN S[t] ELSE 0)
  BY <1>1, <1>2, <1>4 DEF (+)
<1>5. P = [t \in DOMAIN B \cup {x} |-> P[t]]
  BY <1>1, <1>2, <1>3 DEF (+)
<1>6. ASSUME NEW t \in DOMAIN B PROVE B[t] \in Nat /\ B[t] > 0
  BY <1>6 DEF IsABag
<1> HIDE DEF P, S
<1>7. ASSUME NEW t \in DOMAIN B \cup {x} PROVE P[t] \in Nat /\ P[t] > 0
  BY <1>1, <1>4, <1>6, <1>7
<1>8. IsABag(P)
  BY <1>3, <1>5, <1>7 DEF IsABag
<1> QED BY <1>3, <1>8 DEF P

\* Taking from a bag gives a bag without new members, and with all the others.
LEMMA WithoutBag ==
  ASSUME NEW B, IsABag(B), NEW x \in DOMAIN B
  PROVE  /\ IsABag(Without(B, x)) /\ DOMAIN Without(B, x) \subseteq DOMAIN B
         /\ DOMAIN B \ {x} \subseteq DOMAIN Without(B, x)
<1> DEFINE C == [t \in DOMAIN B |-> IF t \in DOMAIN SetToBag({x}) THEN B[t] - SetToBag({x})[t] ELSE B[t]]
           D == {d \in DOMAIN C : C[d] > 0}
           R == Without(B, x)
<1>1. DOMAIN SetToBag({x}) = {x} /\ SetToBag({x})[x] = 1
  BY DEF SetToBag
<1>2. R = [t \in D |-> C[t]]
  BY DEF (-), Without
<1>3. ASSUME NEW t \in DOMAIN B
      PROVE  /\ B[t] \in Nat /\ B[t] > 0
             /\ C[t] = IF t = x THEN B[t] - 1 ELSE B[t]
  BY <1>1, <1>3 DEF IsABag
<1>4. D = {d \in DOMAIN B : C[d] > 0}
  OBVIOUS
<1> HIDE DEF C, D, R
<1>5. D \subseteq DOMAIN B /\ \A t \in D : C[t] \in Nat /\ C[t] > 0
  BY <1>3, <1>4
<1>6. DOMAIN B \ {x} \subseteq D
  BY <1>3, <1>4
<1>7. IsABag(R)
  BY <1>2, <1>5 DEF IsABag
<1> QED BY <1>2, <1>5, <1>6, <1>7 DEF R

\* A bag of messages, or of commands, as more streamers are opened.
LEMMA MsgsGrow ==
  ASSUME NEW B, NEW D, NEW E, D \subseteq E, MsgsOk(B, D)
  PROVE  /\ MsgsOk(B, E)
         /\ \A m : MsgOk(m, E) => MsgsOk(With(B, m), E) /\ DOMAIN With(B, m) = DOMAIN B \cup {m}
         /\ \A m \in DOMAIN B : /\ MsgsOk(Without(B, m), E)
                                /\ DOMAIN B \ {m} \subseteq DOMAIN Without(B, m)
<1>1. MsgsOk(B, E)
  BY DEF MsgsOk, MsgOk
<1>2. ASSUME NEW m, MsgOk(m, E) PROVE MsgsOk(With(B, m), E) /\ DOMAIN With(B, m) = DOMAIN B \cup {m}
  BY <1>1, <1>2, WithBag DEF MsgsOk
<1>3. ASSUME NEW m \in DOMAIN B
      PROVE  MsgsOk(Without(B, m), E) /\ DOMAIN B \ {m} \subseteq DOMAIN Without(B, m)
  BY <1>1, <1>3, WithoutBag DEF MsgsOk
<1> QED BY <1>1, <1>2, <1>3

\* The messages under way stay sound when one is sent or taken.
LEMMA MsgsStay ==
  ASSUME NEW B, NEW D, MsgsOk(B, D)
  PROVE  /\ \A m : MsgOk(m, D) => MsgsOk(With(B, m), D) /\ DOMAIN With(B, m) = DOMAIN B \cup {m}
         /\ \A m \in DOMAIN B : /\ MsgsOk(Without(B, m), D)
                                /\ DOMAIN B \ {m} \subseteq DOMAIN Without(B, m)
<1>1. D \subseteq D
  OBVIOUS
<1> QED BY <1>1, MsgsGrow, Zenon

\* The commands under way stay sound when one is added or taken and streamers are
\* opened.
LEMMA CmdsGrow ==
  ASSUME NEW B, NEW D, NEW E, D \subseteq E, CmdsOk(B, D)
  PROVE  /\ CmdsOk(B, E)
         /\ \A c : CmdOk(c, E) => CmdsOk(With(B, c), E) /\ DOMAIN With(B, c) = DOMAIN B \cup {c}
         /\ \A c \in DOMAIN B : /\ CmdsOk(Without(B, c), E)
                                /\ DOMAIN B \ {c} \subseteq DOMAIN Without(B, c)
<1>1. CmdsOk(B, E)
  BY DEF CmdsOk, CmdOk
<1>2. ASSUME NEW c, CmdOk(c, E) PROVE CmdsOk(With(B, c), E) /\ DOMAIN With(B, c) = DOMAIN B \cup {c}
  BY <1>1, <1>2, WithBag DEF CmdsOk
<1>3. ASSUME NEW c \in DOMAIN B
      PROVE  CmdsOk(Without(B, c), E) /\ DOMAIN B \ {c} \subseteq DOMAIN Without(B, c)
  BY <1>1, <1>3, WithoutBag DEF CmdsOk
<1> QED BY <1>1, <1>2, <1>3

-----------------------------------------------------------------------------
(* Positions in the list.                                                    *)

\* A set of numbers that is not empty has a least one.
LEMMA LeastOf ==
  ASSUME NEW T, T \subseteq Nat, T # {}
  PROVE  \E x \in T : \A y \in T : x <= y
<1> DEFINE R == {ss \in Nat \X Nat : ss[1] < ss[2]}
<1>1. IsWellFoundedOn(R, Nat)
  BY NatLessThanWellFounded DEF OpToRel
<1>2. PICK x \in T : \A y \in T : ~ (<<y, x>> \in R)
  BY <1>1, WFMin
<1>3. ASSUME NEW y \in T PROVE x <= y
  <2>1. x \in Nat /\ y \in Nat
    OBVIOUS
  <2>2. y < x => <<y, x>> \in R
    BY <2>1
  <2> HIDE DEF R
  <2>3. ~(y < x)
    BY <1>2, <2>2
  <2> QED BY <2>1, <2>3
<1> QED BY <1>3

\* A search ends at a row or nowhere.
LEMMA SearchInRows ==
  ASSUME NEW rs, rs \in Seq(Commits), NEW rev
  PROVE  selectRevisionExact(rs, rev) \in {-1} \cup 0 .. Len(rs) - 1
<1> DEFINE named == {i \in 0 .. Len(rs) - 1 :
                       IF rev = "@" THEN rs[i + 1].wc
                       ELSE rev # "" /\ rev \in {rs[i + 1].change, rs[i + 1].raw, rs[i + 1].id}}
<1>1. selectRevisionExact(rs, rev) = IF named = {} THEN -1 ELSE CHOOSE i \in named : \A j \in named : i <= j
  BY DEF selectRevisionExact
<1>2. named \subseteq 0 .. Len(rs) - 1
  BY Zenon
<1> HIDE DEF named
<1>3. named \subseteq Nat
  <2>1. Len(rs) \in Nat
    OBVIOUS
  <2> QED BY <1>2, <2>1
<1>4. CASE named # {}
  <2>1. \E i \in named : \A j \in named : i <= j
    BY <1>3, <1>4, LeastOf
  <2>2. (CHOOSE i \in named : \A j \in named : i <= j) \in named
    BY <2>1
  <2> QED BY <1>1, <1>2, <1>4, <2>2
<1> QED BY <1>1, <1>4

\* The first of three candidates.
LEMMA FirstOfThree ==
  ASSUME NEW a, NEW b, NEW c
  PROVE  FirstFound(<<a, b, c>>) = IF a # -1 THEN a ELSE IF b # -1 THEN b ELSE c
<1> DEFINE s == <<a, b, c>>
           found == {k \in DOMAIN s : s[k] # -1}
           at == CHOOSE k \in found : \A l \in found : k <= l
<1>1. FirstFound(s) = IF found = {} THEN -1 ELSE s[at]
  BY DEF FirstFound
<1>2. DOMAIN s = {1, 2, 3} /\ s[1] = a /\ s[2] = b /\ s[3] = c
  OBVIOUS
<1> HIDE DEF s
<1>3. found = {k \in {1, 2, 3} : s[k] # -1}
  BY <1>2
<1>4. CASE a # -1
  <2>1. 1 \in found /\ \A l \in found : 1 <= l
    BY <1>2, <1>3, <1>4
  <2>2. at \in found /\ at <= 1
    BY <2>1
  <2>3. at = 1
    BY <1>3, <2>2
  <2> QED BY <1>1, <1>2, <1>4, <2>1, <2>3 DEF s
<1>5. CASE a = -1 /\ b # -1
  <2>1. 2 \in found /\ \A l \in found : 2 <= l
    BY <1>2, <1>3, <1>5
  <2>2. at \in found /\ at <= 2
    BY <2>1
  <2>3. at = 2
    BY <1>2, <1>3, <1>5, <2>2
  <2> QED BY <1>1, <1>2, <1>5, <2>1, <2>3 DEF s
<1>6. CASE a = -1 /\ b = -1 /\ c # -1
  <2>1. found = {3}
    BY <1>2, <1>3, <1>6
  <2>2. at = 3
    BY <2>1
  <2> QED BY <1>1, <1>2, <1>6, <2>1, <2>2 DEF s
<1>7. CASE a = -1 /\ b = -1 /\ c = -1
  <2>1. found = {}
    BY <1>2, <1>3, <1>7
  <2> QED BY <1>1, <1>7, <2>1 DEF s
<1> QED BY <1>4, <1>5, <1>6, <1>7

\* The cursor that a whole new list gets.
LEMMA GraphRowsInRows ==
  ASSUME NEW rs, rs \in Seq(Commits), NEW sel
  PROVE  GraphRowsCursor(rs, sel) \in Nat /\ (rs # <<>> => InRows(GraphRowsCursor(rs, sel), rs))
<1> DEFINE cur == IF sel = "" THEN SelectedRevision.change ELSE sel
           a == selectRevisionExact(rs, cur)
           b == selectRevisionExact(rs, "@")
<1>1. GraphRowsCursor(rs, sel) = IF rs = <<>> THEN 0 ELSE FirstFound(<<a, b, 0>>)
  BY DEF GraphRowsCursor
<1>2. a \in {-1} \cup 0 .. Len(rs) - 1 /\ b \in {-1} \cup 0 .. Len(rs) - 1
  BY SearchInRows
<1> HIDE DEF a, b, cur
<1>3. FirstFound(<<a, b, 0>>) = IF a # -1 THEN a ELSE IF b # -1 THEN b ELSE 0
  BY FirstOfThree
<1>4. CASE rs = <<>>
  BY <1>1, <1>4
<1>5. CASE rs # <<>>
  <2>1. Len(rs) \in Nat /\ Len(rs) > 0
    BY <1>5
  <2> QED BY <1>1, <1>2, <1>3, <1>5, <2>1 DEF InRows
<1> QED BY <1>4, <1>5

\* The cursor after the rows collected so far have become the list.
LEMMA ShowRowsKeeps ==
  ASSUME ListPart, NEW t, NEW collected \in Seq(Commits), ShowRows(t, collected)
  PROVE  rows' = collected /\ cursor' \in Nat /\ CursorInRange'
<1> DEFINE inRange == IF collected # <<>> /\ ~InRows(cursor, collected) THEN 0 ELSE -1
           a == selectRevisionExact(collected, ReloadOf(t).sel)
           b == selectRevisionExact(collected, SelectedRevision.change)
           target == FirstFound(<<a, b, inRange>>)
<1>1. rows' = collected /\ cursor' = IF target = -1 THEN cursor ELSE target
  BY DEF ShowRows
<1>2. a \in {-1} \cup 0 .. Len(collected) - 1 /\ b \in {-1} \cup 0 .. Len(collected) - 1
  BY SearchInRows
<1>3. target = IF a # -1 THEN a ELSE IF b # -1 THEN b ELSE inRange
  BY FirstOfThree
<1> HIDE DEF a, b, target
<1>4. cursor \in Nat
  BY DEF ListPart
<1>5. CASE collected = <<>>
  <2>1. Len(collected) = 0 /\ inRange = -1
    BY <1>5
  <2>2. cursor' = cursor
    BY <1>1, <1>2, <1>3, <2>1
  <2> QED BY <1>1, <1>4, <1>5, <2>2 DEF CursorInRange
<1>6. CASE collected # <<>>
  <2>1. Len(collected) \in Nat /\ Len(collected) > 0
    BY <1>6
  <2>2. cursor' \in Nat /\ InRows(cursor', collected)
    BY <1>1, <1>2, <1>3, <1>4, <1>6, <2>1 DEF InRows
  <2> QED BY <1>1, <2>2 DEF CursorInRange, InRows
<1> QED BY <1>5, <1>6

\* A key moves the cursor to a row.
LEMMA SetCursorKeeps ==
  ASSUME ListPart, NEW i, SetCursor(i), rows' = rows, offScreenRows' = offScreenRows
  PROVE  ListPart'
<1>1. rows \in Seq(Commits) /\ offScreenRows \in Seq(Commits) /\ cursor \in Nat /\ CursorInRange
  BY DEF ListPart
<1>2. cursor' = IF InRows(i, rows) THEN i ELSE cursor
  BY DEF SetCursor
<1>3. cursor' \in Nat /\ CursorInRange'
  BY <1>1, <1>2 DEF InRows, CursorInRange
<1> QED BY <1>1, <1>3 DEF ListPart

\* The selected row has a name, be there a row or not.
LEMMA SelectionTyped ==
  ASSUME ListPart
  PROVE  SelectedRevision.change \in Names /\ SelectedRevision.id \in Names
<1>1. rows \in Seq(Commits) /\ cursor \in Nat
  BY DEF ListPart
<1>2. SelectedRevision \in Commits
  <2>1. CASE InRows(cursor, rows)
    <3>1. cursor + 1 \in 1 .. Len(rows)
      BY <1>1, <2>1 DEF InRows
    <3>2. rows[cursor + 1] \in Commits
      BY <1>1, <3>1
    <3> QED BY <2>1, <3>2 DEF SelectedRevision
  <2>2. CASE ~InRows(cursor, rows)
    <3>1. NoCommit \in Commits
      BY NamesAssumption DEF NoCommit, Commits
    <3> QED BY <2>2, <3>1 DEF SelectedRevision
  <2> QED BY <2>1, <2>2
<1> QED BY <1>2 DEF Commits

-----------------------------------------------------------------------------
(* Requests, streamers.                                                      *)

\* While the flag is up a request or its answer is under way.
Honest(flag, cs, ms) ==
  flag => \/ \E c \in DOMAIN cs : c.type = "request"
          \/ \E m \in DOMAIN ms : m.type = "append"

\* requestMoreRows adds nothing but a request to an opened streamer, and sets the
\* flag only with one.
LEMMA RequestKeeps ==
  ASSUME NEW D, CmdsOk(cmds, D), NEW s, s \in {0} \cup D, NEW t, NEW more, NEW flag, NEW bag,
         requestMoreRows(s, t, more, flag, bag)
  PROVE  /\ CmdsOk(cmds', D) /\ DOMAIN cmds \subseteq DOMAIN cmds'
         /\ requestInFlight' => flag \/ \E c \in DOMAIN cmds' : c.type = "request"
<1>1. CASE flag \/ s = 0 \/ ~more \/ t # tag
  <2>1. requestInFlight' = flag /\ cmds' = cmds
    BY <1>1 DEF requestMoreRows
  <2> QED BY <2>1
<1>2. CASE ~(flag \/ s = 0 \/ ~more \/ t # tag)
  <2> DEFINE r == [type |-> "request", streamer |-> s, tag |-> t]
  <2>1. cmds' = With(cmds, r)
    BY <1>2 DEF requestMoreRows
  <2>2. r.type = "request" /\ CmdOk(r, D)
    BY <1>2 DEF CmdOk
  <2> HIDE DEF r
  <2>3. CmdsOk(cmds', D) /\ DOMAIN cmds' = DOMAIN cmds \cup {r}
    BY <2>1, <2>2, CmdsGrow
  <2> QED BY <2>2, <2>3
<1> QED BY <1>1, <1>2

\* Closing a streamer closes that one only.
LEMMA ClosingKeeps ==
  ASSUME StreamPart, NEW s, s \in {0} \cup DOMAIN streams
  PROVE  /\ Closing(s) \in [DOMAIN streams -> Stream]
         /\ \A u \in DOMAIN streams : Closing(s)[u].open => streams[u].open /\ u # s
<1>1. streams \in [DOMAIN streams -> Stream] /\ 0 \notin DOMAIN streams
  BY DEF StreamPart
<1>2. CASE s = 0
  BY <1>1, <1>2 DEF Closing
<1>3. CASE s # 0
  <2>1. Closing(s) = [streams EXCEPT ![s].open = FALSE] /\ s \in DOMAIN streams
    BY <1>3 DEF Closing
  <2>2. [streams[s] EXCEPT !.open = FALSE] \in Stream /\ [streams[s] EXCEPT !.open = FALSE].open = FALSE
    BY <1>1, <2>1 DEF Stream
  <2>3. /\ Closing(s)[s] = [streams[s] EXCEPT !.open = FALSE]
        /\ \A u \in DOMAIN streams : u # s => Closing(s)[u] = streams[u]
    BY <1>1, <2>1
  <2>4. Closing(s) \in [DOMAIN streams -> Stream]
    BY <1>1, <2>1, <2>2
  <2> QED BY <2>2, <2>3, <2>4
<1> QED BY <1>2, <1>3

\* NoStreamerLeaks in terms of the messages that announce a streamer.
LEMMA LeaksIs ==
  NoStreamerLeaks <=> \A s \in DOMAIN streams : streams[s].open => s = streamer \/ Announced(msgs, s)
BY DEF NoStreamerLeaks, Announced, Pending, BagToSet

\* InFlightIsHonest in terms of the bags.
LEMMA HonestIs == InFlightIsHonest <=> Honest(requestInFlight, cmds, msgs)
BY DEF InFlightIsHonest, Honest, Pending, BagToSet

-----------------------------------------------------------------------------
(* Commands.                                                                 *)

\* The invariant with the definitions of its parts that every step needs.
LEMMA Unpack ==
  ASSUME RevisionsInv
  PROVE  /\ ListPart /\ LoadPart /\ StreamPart
         /\ CmdsOk(cmds, DOMAIN streams) /\ MsgsOk(msgs, DOMAIN streams)
         /\ \A s \in DOMAIN streams : streams[s].open => s = streamer \/ Announced(msgs, s)
         /\ Honest(requestInFlight, cmds, msgs)
BY LeaksIs, HonestIs DEF RevisionsInv, BagPart

\* The same, for the next state: what an action has to show.
LEMMA Pack ==
  ASSUME ListPart', LoadPart', StreamPart',
         CmdsOk(cmds', DOMAIN streams'), MsgsOk(msgs', DOMAIN streams'),
         \A s \in DOMAIN streams' : streams'[s].open => s = streamer' \/ Announced(msgs', s),
         Honest(requestInFlight', cmds', msgs')
  PROVE  RevisionsInv'
<1>1. BagPart'
  BY DEF BagPart
<1>2. NoStreamerLeaks'
  BY DEF NoStreamerLeaks, Announced, Pending, BagToSet
<1>3. InFlightIsHonest'
  BY DEF InFlightIsHonest, Honest, Pending, BagToSet
<1> QED BY <1>1, <1>2, <1>3 DEF RevisionsInv

\* Nothing happens to the list.
LEMMA SameList ==
  ASSUME ListPart, UNCHANGED listVars
  PROVE  ListPart'
BY DEF ListPart, listVars, CursorInRange

\* The log of the repository is a sequence of commits.
LEMMA LogTyped ==
  ASSUME LoadPart
  PROVE  Logs[repo] \in Seq(Commits)
BY LogsAssumption DEF LoadPart

\* A streamer is named after its load.
LEMMA OpenStream ==
  ASSUME StreamPart, LoadPart, NEW t, t # 0, NEW open \in BOOLEAN, streams' = Opening(t, open)
  PROVE  /\ StreamPart' /\ DOMAIN streams' = DOMAIN streams \cup {t}
         /\ \A u \in DOMAIN streams : streams'[u] = streams[u]
         /\ t \notin DOMAIN streams => streams'[t].open = open
<1> DEFINE r == [log |-> Logs[repo], pos |-> 0, open |-> open]
<1>1. streams \in [DOMAIN streams -> Stream] /\ 0 \notin DOMAIN streams
  BY DEF StreamPart
<1>2. r \in Stream /\ r.open = open
  BY LogTyped DEF Stream
<1>3. streams' = [x \in DOMAIN streams \cup {t} |-> IF x \in DOMAIN streams THEN streams[x] ELSE r]
  BY DEF Opening
<1> HIDE DEF r
<1>4. DOMAIN streams' = DOMAIN streams \cup {t}
  BY <1>3
<1>5. streams' \in [DOMAIN streams' -> Stream]
  BY <1>1, <1>2, <1>3, <1>4
<1> QED BY <1>1, <1>2, <1>3, <1>4, <1>5 DEF StreamPart

\* Opening a streamer in its goroutine keeps the invariant (loadStreaming).
LEMMA LoadStreamingKeeps ==
  ASSUME RevisionsInv, NEW c \in DOMAIN cmds, LoadStreaming(c)
  PROVE  RevisionsInv'
<1> DEFINE D == DOMAIN streams
<1>1. /\ ListPart /\ LoadPart /\ StreamPart /\ CmdsOk(cmds, D) /\ MsgsOk(msgs, D)
      /\ \A s \in D : streams[s].open => s = streamer \/ Announced(msgs, s)
      /\ Honest(requestInFlight, cmds, msgs)
  BY Unpack
<1>2. /\ c.type = "loadStreaming" /\ cmds' = Without(cmds, c) /\ repo' = repo /\ UNCHANGED listVars
      /\ tag' = tag /\ pending' = pending /\ streamer' = streamer /\ requestInFlight' = requestInFlight
  BY DEF LoadStreaming, repoVars, loadVars
<1>3. ListPart'
  BY <1>1, <1>2, SameList
<1>4. c.tag # 0
  BY <1>1, <1>2 DEF CmdsOk, CmdOk
<1>5. ASSUME NEW E, D \subseteq E
      PROVE  CmdsOk(cmds', E) /\ DOMAIN cmds \ {c} \subseteq DOMAIN cmds'
  BY <1>1, <1>2, <1>5, CmdsGrow
<1>6. ASSUME DOMAIN msgs \subseteq DOMAIN msgs' PROVE Honest(requestInFlight', cmds', msgs')
  BY <1>1, <1>2, <1>5, <1>6 DEF Honest
<1>7. CASE streams' = streams /\ msgs' = msgs
  <2>1. LoadPart' /\ StreamPart'
    BY <1>1, <1>2, <1>7 DEF LoadPart, StreamPart
  <2> QED BY <1>1, <1>2, <1>3, <1>5, <1>6, <1>7, <2>1, Pack
<1>8. CASE /\ streams' = streams
           /\ msgs' = With(msgs, [type |-> "streamingReady", streamer |-> 0, tag |-> c.tag])
  <2>1. LoadPart' /\ StreamPart'
    BY <1>1, <1>2, <1>8 DEF LoadPart, StreamPart
  <2> DEFINE m == [type |-> "streamingReady", streamer |-> 0, tag |-> c.tag]
  <2>2. MsgOk(m, D) /\ msgs' = With(msgs, m)
    BY <1>8 DEF MsgOk
  <2> HIDE DEF m
  <2>3. MsgsOk(msgs', D) /\ DOMAIN msgs' = DOMAIN msgs \cup {m}
    <3>1. MsgsOk(msgs, D)
      BY <1>1
    <3> HIDE DEF D
    <3> QED BY <2>2, <3>1, MsgsStay, Zenon
  <2>4. \A s \in D : streams[s].open => s = streamer \/ Announced(msgs', s)
    BY <1>1, <2>3 DEF Announced
  <2> QED BY <1>2, <1>3, <1>5, <1>6, <1>8, <2>1, <2>3, <2>4, Pack
<1>9. CASE /\ streams' = Opening(c.tag, TRUE)
           /\ msgs' = With(msgs, [type |-> "streamingReady", streamer |-> c.tag, tag |-> c.tag])
  <2> DEFINE m == [type |-> "streamingReady", streamer |-> c.tag, tag |-> c.tag]
  <2>2. /\ StreamPart' /\ DOMAIN streams' = D \cup {c.tag}
        /\ \A u \in D : streams'[u] = streams[u]
    BY <1>1, <1>4, <1>9, OpenStream
  <2>3. m.type = "streamingReady" /\ m.streamer = c.tag /\ MsgOk(m, DOMAIN streams')
    BY <2>2 DEF MsgOk
  <2>4. msgs' = With(msgs, m)
    BY <1>9
  <2> HIDE DEF m
  <2>5. MsgsOk(msgs', DOMAIN streams') /\ DOMAIN msgs' = DOMAIN msgs \cup {m}
    BY <1>1, <2>2, <2>3, <2>4, MsgsGrow
  <2>6. LoadPart'
    BY <1>1, <1>2, <2>2 DEF LoadPart
  <2>7. \A s \in DOMAIN streams' : streams'[s].open => s = streamer' \/ Announced(msgs', s)
    BY <1>1, <1>2, <2>2, <2>3, <2>5 DEF Announced
  <2> QED BY <1>3, <1>5, <1>6, <2>2, <2>5, <2>6, <2>7, Pack
<1> QED BY <1>7, <1>8, <1>9 DEF LoadStreaming

\* Loading the whole log in its goroutine keeps the invariant (load).
LEMMA LoadKeeps ==
  ASSUME RevisionsInv, NEW c \in DOMAIN cmds, Load(c)
  PROVE  RevisionsInv'
<1> DEFINE D == DOMAIN streams
<1>1. /\ ListPart /\ LoadPart /\ StreamPart /\ CmdsOk(cmds, D) /\ MsgsOk(msgs, D)
      /\ \A s \in D : streams[s].open => s = streamer \/ Announced(msgs, s)
      /\ Honest(requestInFlight, cmds, msgs)
  BY Unpack
<1>2. /\ c.type = "load" /\ cmds' = Without(cmds, c) /\ repo' = repo /\ UNCHANGED listVars
      /\ tag' = tag /\ pending' = pending /\ streamer' = streamer /\ requestInFlight' = requestInFlight
  BY DEF Load, repoVars, loadVars
<1>3. ListPart'
  BY <1>1, <1>2, SameList
<1>4. c.tag # 0
  BY <1>1, <1>2 DEF CmdsOk, CmdOk
<1>5. ASSUME NEW E, D \subseteq E
      PROVE  CmdsOk(cmds', E) /\ DOMAIN cmds \ {c} \subseteq DOMAIN cmds'
  BY <1>1, <1>2, <1>5, CmdsGrow
<1>6. ASSUME DOMAIN msgs \subseteq DOMAIN msgs' PROVE Honest(requestInFlight', cmds', msgs')
  BY <1>1, <1>2, <1>5, <1>6 DEF Honest
<1>7. CASE streams' = streams /\ msgs' = With(msgs, [type |-> "failed"])
  <2>1. LoadPart' /\ StreamPart'
    BY <1>1, <1>2, <1>7 DEF LoadPart, StreamPart
  <2> DEFINE m == [type |-> "failed"]
  <2>2. MsgOk(m, D) /\ msgs' = With(msgs, m)
    BY <1>7 DEF MsgOk
  <2> HIDE DEF m
  <2>3. MsgsOk(msgs', D) /\ DOMAIN msgs' = DOMAIN msgs \cup {m}
    <3>1. MsgsOk(msgs, D)
      BY <1>1
    <3> HIDE DEF D
    <3> QED BY <2>2, <3>1, MsgsStay, Zenon
  <2>4. \A s \in D : streams[s].open => s = streamer \/ Announced(msgs', s)
    BY <1>1, <2>3 DEF Announced
  <2> QED BY <1>2, <1>3, <1>5, <1>6, <1>7, <2>1, <2>3, <2>4, Pack
<1>8. CASE /\ streams' = Opening(c.tag, FALSE)
           /\ msgs' = With(msgs, [type |-> "updateRevisions", rows |-> Logs[repo], tag |-> c.tag])
  <2> DEFINE m == [type |-> "updateRevisions", rows |-> Logs[repo], tag |-> c.tag]
  <2>2. /\ StreamPart' /\ DOMAIN streams' = D \cup {c.tag}
        /\ \A u \in D : streams'[u] = streams[u]
        /\ c.tag \notin D => streams'[c.tag].open = FALSE
    BY <1>1, <1>4, <1>8, OpenStream
  <2>3. MsgOk(m, DOMAIN streams')
    BY <1>1, LogTyped DEF MsgOk
  <2>4. msgs' = With(msgs, m)
    BY <1>8
  <2> HIDE DEF m
  <2>5. MsgsOk(msgs', DOMAIN streams') /\ DOMAIN msgs' = DOMAIN msgs \cup {m}
    BY <1>1, <2>2, <2>3, <2>4, MsgsGrow
  <2>6. LoadPart'
    BY <1>1, <1>2, <2>2 DEF LoadPart
  <2>7. \A s \in DOMAIN streams' : streams'[s].open => s = streamer' \/ Announced(msgs', s)
    BY <1>1, <1>2, <2>2, <2>5 DEF Announced
  <2> QED BY <1>3, <1>5, <1>6, <2>2, <2>5, <2>6, <2>7, Pack
<1> QED BY <1>7, <1>8 DEF Load

\* A batch, whole or cut short, is made of rows.
LEMMA BatchTyped ==
  ASSUME NEW s \in Stream,
         NEW b \in {NextBatch(s)} \cup
                   (IF s.open THEN {} ELSE {[rows |-> SubSeq(Rest(s), 1, n), more |-> FALSE] : n \in 0 .. Len(Rest(s))})
  PROVE  b.rows \in Seq(Commits) /\ b.more \in BOOLEAN
<1>1. s.log \in Seq(Commits) /\ s.pos \in Nat
  BY DEF Stream
<1>2. Rest(s) \in Seq(Commits)
  BY <1>1 DEF Rest
<1>3. CASE b = NextBatch(s)
  <2>1. CASE Len(Rest(s)) > BatchSize + 2
    <3>1. b = [rows |-> SubSeq(Rest(s), 1, BatchSize + 1), more |-> TRUE]
      BY <1>3, <2>1 DEF NextBatch
    <3>2. SubSeq(Rest(s), 1, BatchSize + 1) \in Seq(Commits)
      BY <1>2, <2>1, BoundsAssumption
    <3> QED BY <3>1, <3>2
  <2>2. CASE ~(Len(Rest(s)) > BatchSize + 2)
    <3>1. b = [rows |-> Rest(s), more |-> FALSE]
      BY <1>3, <2>2 DEF NextBatch
    <3> QED BY <1>2, <3>1
  <2> QED BY <2>1, <2>2
<1>4. ASSUME NEW n \in 0 .. Len(Rest(s)), b = [rows |-> SubSeq(Rest(s), 1, n), more |-> FALSE]
      PROVE  b.rows \in Seq(Commits) /\ b.more \in BOOLEAN
  <2>1. SubSeq(Rest(s), 1, n) \in Seq(Commits)
    BY <1>2
  <2> QED BY <1>4, <2>1
<1> QED BY <1>3, <1>4

\* A request that the streamer answers keeps the invariant (RequestMore).
LEMMA RequestMoreKeeps ==
  ASSUME RevisionsInv, NEW c \in DOMAIN cmds, RequestMore(c)
  PROVE  RevisionsInv'
<1> DEFINE D == DOMAIN streams
           s == streams[c.streamer]
<1>1. /\ ListPart /\ LoadPart /\ StreamPart /\ CmdsOk(cmds, D) /\ MsgsOk(msgs, D)
      /\ \A u \in D : streams[u].open => u = streamer \/ Announced(msgs, u)
  BY Unpack
<1>2. /\ c.type = "request" /\ cmds' = Without(cmds, c) /\ repo' = repo /\ UNCHANGED listVars
      /\ tag' = tag /\ pending' = pending /\ streamer' = streamer
  BY DEF RequestMore, repoVars, loadVars
<1>3. ListPart'
  BY <1>1, <1>2, SameList
<1>4. c.streamer \in D /\ streams \in [D -> Stream] /\ 0 \notin D
  BY <1>1, <1>2 DEF CmdsOk, CmdOk, StreamPart
<1>5. s \in Stream
  BY <1>4
<1>6. PICK b \in {NextBatch(s)} \cup
                 (IF s.open THEN {} ELSE {[rows |-> SubSeq(Rest(s), 1, n), more |-> FALSE] : n \in 0 .. Len(Rest(s))}) :
        /\ streams' = [streams EXCEPT ![c.streamer].pos = @ + Len(b.rows)]
        /\ msgs' = With(msgs, [type |-> "append", streamer |-> c.streamer, tag |-> c.tag,
                               rows |-> b.rows, more |-> b.more])
  BY DEF RequestMore
<1>7. b.rows \in Seq(Commits) /\ b.more \in BOOLEAN
  BY <1>5, <1>6, BatchTyped
<1> DEFINE m == [type |-> "append", streamer |-> c.streamer, tag |-> c.tag, rows |-> b.rows, more |-> b.more]
<1>8. MsgOk(m, D) /\ m.type = "append" /\ msgs' = With(msgs, m)
  BY <1>6, <1>7 DEF MsgOk
<1> HIDE DEF m
<1>9. MsgsOk(msgs', D) /\ DOMAIN msgs' = DOMAIN msgs \cup {m}
  <2>1. MsgsOk(msgs, D)
    BY <1>1
  <2> HIDE DEF D
  <2> QED BY <1>8, <2>1, MsgsStay, Zenon
<1>10. CmdsOk(cmds', D)
  <2>1. CmdsOk(cmds, D) /\ D \subseteq D
    BY <1>1
  <2> HIDE DEF D
  <2> QED BY <1>2, <2>1, CmdsGrow, Zenon
<1>11. /\ DOMAIN streams' = D /\ streams' \in [D -> Stream]
       /\ \A u \in D : streams'[u].open = streams[u].open
  <2>1. [s EXCEPT !.pos = @ + Len(b.rows)] \in Stream /\ [s EXCEPT !.pos = @ + Len(b.rows)].open = s.open
    BY <1>5, <1>7 DEF Stream
  <2>2. streams' = [streams EXCEPT ![c.streamer] = [s EXCEPT !.pos = @ + Len(b.rows)]]
    BY <1>6
  <2> QED BY <1>4, <2>1, <2>2
<1>12. LoadPart' /\ StreamPart'
  BY <1>1, <1>2, <1>4, <1>11 DEF LoadPart, StreamPart
<1>13. \A u \in DOMAIN streams' : streams'[u].open => u = streamer' \/ Announced(msgs', u)
  BY <1>1, <1>2, <1>9, <1>11 DEF Announced
<1>14. Honest(requestInFlight', cmds', msgs')
  BY <1>8, <1>9 DEF Honest
<1> QED BY <1>3, <1>9, <1>10, <1>11, <1>12, <1>13, <1>14, Pack

-----------------------------------------------------------------------------
(* Messages.                                                                 *)

\* A message that has been handled is gone, or a copy of it is left; the others stay.
LEMMA Handled ==
  ASSUME NEW D, MsgsOk(msgs, D), NEW m \in DOMAIN msgs, msgs' = Without(msgs, m)
  PROVE  /\ MsgsOk(msgs', D) /\ DOMAIN msgs \ {m} \subseteq DOMAIN msgs'
         /\ m.type # "streamingReady" => \A s : Announced(msgs, s) => Announced(msgs', s)
<1>1. MsgsOk(msgs', D) /\ DOMAIN msgs \ {m} \subseteq DOMAIN msgs'
  BY MsgsStay, Zenon
<1> QED BY <1>1 DEF Announced

\* A refresh, however it was asked for, keeps the invariant (refresh).
LEMMA RefreshKeeps ==
  ASSUME RevisionsInv, NEW sel \in Names, NEW keep \in BOOLEAN, refresh(sel, keep),
         MsgsOk(msgs', DOMAIN streams), \A s : Announced(msgs, s) => Announced(msgs', s),
         \A m \in DOMAIN msgs : m.type = "append" => m \in DOMAIN msgs'
  PROVE  RevisionsInv'
<1> DEFINE D == DOMAIN streams
           c == [type |-> IF batching THEN "loadStreaming" ELSE "load", tag |-> tag + 1]
<1>1. /\ ListPart /\ LoadPart /\ StreamPart /\ CmdsOk(cmds, D)
      /\ \A u \in D : streams[u].open => u = streamer \/ Announced(msgs, u)
      /\ Honest(requestInFlight, cmds, msgs)
  BY Unpack
<1>2. /\ tag < MaxTag /\ tag' = tag + 1 /\ pending' = [tag |-> tag + 1, sel |-> sel, keep |-> keep]
      /\ cmds' = With(cmds, c) /\ repo' = repo /\ UNCHANGED listVars /\ streamer' = streamer
      /\ requestInFlight' = requestInFlight /\ streams' = streams
  BY DEF refresh, repoVars, listVars
<1>3. tag \in 0 .. MaxTag /\ MaxTag \in Nat
  BY <1>1, BoundsAssumption DEF LoadPart
<1>4. CmdOk(c, D)
  <2>1. c.tag # 0 /\ c.type # "request"
    BY <1>3
  <2> QED BY <2>1 DEF CmdOk
<1> HIDE DEF c
<1>5. CmdsOk(cmds', D) /\ DOMAIN cmds' = DOMAIN cmds \cup {c}
  <2>1. CmdsOk(cmds, D) /\ D \subseteq D
    BY <1>1
  <2> HIDE DEF D
  <2> QED BY <1>2, <1>4, <2>1, CmdsGrow, Zenon
<1>6. tag' \in 0 .. MaxTag /\ pending' \in [tag : 0 .. MaxTag, sel : Names, keep : BOOLEAN]
  BY <1>2, <1>3
<1>7. LoadPart' /\ StreamPart'
  BY <1>1, <1>2, <1>6 DEF LoadPart, StreamPart
<1>8. ListPart'
  BY <1>1, <1>2, SameList
<1>9. Honest(requestInFlight', cmds', msgs')
  BY <1>1, <1>2, <1>5 DEF Honest
<1>10. \A u \in DOMAIN streams' : streams'[u].open => u = streamer' \/ Announced(msgs', u)
  BY <1>1, <1>2
<1> QED BY <1>2, <1>5, <1>7, <1>8, <1>9, <1>10, Pack

\* The refresh message keeps the invariant.
LEMMA RefreshMsgKeeps ==
  ASSUME RevisionsInv, NEW m \in DOMAIN msgs, RefreshMsg(m)
  PROVE  RevisionsInv'
<1> DEFINE D == DOMAIN streams
<1>1. MsgsOk(msgs, D)
  BY Unpack
<1>2. m.type = "refresh" /\ refresh(m.sel, m.keep) /\ msgs' = Without(msgs, m)
  BY DEF RefreshMsg
<1>3. m.sel \in Names /\ m.keep \in BOOLEAN
  BY <1>1, <1>2 DEF MsgsOk, MsgOk
<1>4. /\ MsgsOk(msgs', D) /\ DOMAIN msgs \ {m} \subseteq DOMAIN msgs'
      /\ \A s : Announced(msgs, s) => Announced(msgs', s)
  BY <1>1, <1>2, Handled
<1> QED BY <1>2, <1>3, <1>4, RefreshKeeps

\* The refresh of a key keeps the invariant.
LEMMA RefreshIntentKeeps ==
  ASSUME RevisionsInv, NEW sel \in Targets, NEW keep \in BOOLEAN, RefreshIntent(sel, keep)
  PROVE  RevisionsInv'
<1>1. MsgsOk(msgs, DOMAIN streams) /\ sel \in Names /\ refresh(sel, keep) /\ msgs' = msgs
  BY Unpack, NamesAssumption DEF RefreshIntent
<1> QED BY <1>1, RefreshKeeps

\* The refresh of the timer keeps the invariant.
LEMMA AutoRefreshKeeps ==
  ASSUME RevisionsInv, AutoRefresh
  PROVE  RevisionsInv'
<1> DEFINE D == DOMAIN streams
           m == Refreshing("", TRUE)
<1>1. /\ ListPart /\ LoadPart /\ StreamPart /\ CmdsOk(cmds, D) /\ MsgsOk(msgs, D)
      /\ \A u \in D : streams[u].open => u = streamer \/ Announced(msgs, u)
      /\ Honest(requestInFlight, cmds, msgs)
  BY Unpack
<1>2. /\ msgs' = With(msgs, m) /\ repo' = repo /\ UNCHANGED listVars /\ tag' = tag /\ pending' = pending
      /\ streamer' = streamer /\ requestInFlight' = requestInFlight /\ streams' = streams /\ cmds' = cmds
  BY DEF AutoRefresh, loadVars
<1>3. MsgOk(m, D)
  BY NamesAssumption DEF MsgOk, Refreshing
<1> HIDE DEF m
<1>4. MsgsOk(msgs', D) /\ DOMAIN msgs' = DOMAIN msgs \cup {m}
  <2>1. MsgsOk(msgs, D)
    BY <1>1
  <2> HIDE DEF D
  <2> QED BY <1>2, <1>3, <2>1, MsgsStay, Zenon
<1>5. ListPart' /\ LoadPart' /\ StreamPart'
  BY <1>1, <1>2, SameList DEF LoadPart, StreamPart
<1>6. Honest(requestInFlight', cmds', msgs')
  BY <1>1, <1>2, <1>4 DEF Honest
<1>7. \A u \in DOMAIN streams' : streams'[u].open => u = streamer' \/ Announced(msgs', u)
  BY <1>1, <1>2, <1>4 DEF Announced
<1> QED BY <1>1, <1>2, <1>4, <1>5, <1>6, <1>7, Pack

\* The reload of a load, while it lasts.
LEMMA ReloadTyped ==
  ASSUME LoadPart, NEW t
  PROVE  /\ ReloadOf(t) \in [tag : 0 .. MaxTag, sel : Names, keep : BOOLEAN]
         /\ UseReload(t) => pending' \in [tag : 0 .. MaxTag, sel : Names, keep : BOOLEAN]
<1>1. NoReload \in [tag : 0 .. MaxTag, sel : Names, keep : BOOLEAN]
  <2>1. "" \in Names /\ 0 \in 0 .. MaxTag
    <3>1. "" \in Names
      BY NamesAssumption, Zenon
    <3>2. MaxTag \in Nat
      BY BoundsAssumption, Zenon
    <3>3. 0 \in 0 .. MaxTag
      BY <3>2
    <3> QED BY <3>1, <3>3, Zenon
  <2> QED BY <2>1 DEF NoReload
<1>2. pending \in [tag : 0 .. MaxTag, sel : Names, keep : BOOLEAN]
  BY DEF LoadPart
<1> QED BY <1>1, <1>2 DEF ReloadOf, UseReload

\* The failure of a load keeps the invariant (UpdateRevisionsFailedMsg).
LEMMA FailedKeeps ==
  ASSUME RevisionsInv, NEW m \in DOMAIN msgs, UpdateRevisionsFailed(m)
  PROVE  RevisionsInv'
<1> DEFINE D == DOMAIN streams
<1>1. /\ ListPart /\ LoadPart /\ StreamPart /\ CmdsOk(cmds, D) /\ MsgsOk(msgs, D)
      /\ \A u \in D : streams[u].open => u = streamer \/ Announced(msgs, u)
      /\ Honest(requestInFlight, cmds, msgs)
  BY Unpack
<1>2. /\ m.type = "failed" /\ msgs' = Without(msgs, m) /\ repo' = repo /\ UNCHANGED listVars
      /\ tag' = tag /\ pending' = pending /\ streamer' = streamer
      /\ requestInFlight' = requestInFlight /\ streams' = streams /\ cmds' = cmds
  BY DEF UpdateRevisionsFailed, repoVars
<1>3. /\ MsgsOk(msgs', D) /\ DOMAIN msgs \ {m} \subseteq DOMAIN msgs'
      /\ \A s : Announced(msgs, s) => Announced(msgs', s)
  BY <1>1, <1>2, Handled
<1>4. ListPart' /\ LoadPart' /\ StreamPart'
  BY <1>1, <1>2, SameList DEF LoadPart, StreamPart
<1>5. Honest(requestInFlight', cmds', msgs')
  BY <1>1, <1>2, <1>3 DEF Honest
<1> QED BY <1>1, <1>2, <1>3, <1>4, <1>5, Pack

\* A log that was loaded in one piece keeps the invariant (updateRevisionsMsg).
LEMMA UpdateRevisionsKeeps ==
  ASSUME RevisionsInv, NEW m \in DOMAIN msgs, UpdateRevisions(m)
  PROVE  RevisionsInv'
<1> DEFINE D == DOMAIN streams
<1>1. /\ ListPart /\ LoadPart /\ StreamPart /\ CmdsOk(cmds, D) /\ MsgsOk(msgs, D)
      /\ \A u \in D : streams[u].open => u = streamer \/ Announced(msgs, u)
      /\ Honest(requestInFlight, cmds, msgs)
  BY Unpack
<1>2. /\ m.type = "updateRevisions" /\ msgs' = Without(msgs, m) /\ repo' = repo
      /\ tag' = tag /\ offScreenRows' = offScreenRows /\ streamer' = streamer
      /\ requestInFlight' = requestInFlight /\ streams' = streams /\ cmds' = cmds
  BY DEF UpdateRevisions, repoVars
<1>3. /\ MsgsOk(msgs', D) /\ DOMAIN msgs \ {m} \subseteq DOMAIN msgs'
      /\ \A s : Announced(msgs, s) => Announced(msgs', s)
  BY <1>1, <1>2, Handled
<1>4. m.rows \in Seq(Commits)
  BY <1>1, <1>2 DEF MsgsOk, MsgOk
<1>5. Honest(requestInFlight', cmds', msgs')
  BY <1>1, <1>2, <1>3 DEF Honest
<1>6. ListPart' /\ pending' \in [tag : 0 .. MaxTag, sel : Names, keep : BOOLEAN]
  <2>1. CASE m.tag # tag
    <3>1. rows' = rows /\ cursor' = cursor /\ pending' = pending
      BY <2>1 DEF UpdateRevisions
    <3>2. ListPart'
      BY <1>1, <1>2, <3>1, SameList DEF listVars
    <3> QED BY <1>1, <3>1, <3>2 DEF LoadPart
  <2>2. CASE m.tag = tag
    <3> DEFINE at == GraphRowsCursor(m.rows, ReloadOf(m.tag).sel)
    <3>1. UseReload(m.tag) /\ rows' = m.rows /\ cursor' = at
      BY <2>2 DEF UpdateRevisions
    <3>2. at \in Nat /\ (m.rows # <<>> => InRows(at, m.rows))
      BY <1>4, GraphRowsInRows
    <3> HIDE DEF at
    <3>3. ListPart'
      BY <1>1, <1>2, <1>4, <3>1, <3>2 DEF ListPart, CursorInRange, InRows
    <3> QED BY <1>1, <3>1, <3>3, ReloadTyped
  <2> QED BY <2>1, <2>2
<1>7. LoadPart' /\ StreamPart'
  BY <1>1, <1>2, <1>6 DEF LoadPart, StreamPart
<1> QED BY <1>1, <1>2, <1>3, <1>5, <1>6, <1>7, Pack

\* A late streamer is closed; the one that the list reads is not touched unless it is that one.
LEMMA StreamingStaleKeeps ==
  ASSUME RevisionsInv, NEW m \in DOMAIN msgs, StreamingReady(m), StreamingReadyStale(m), msgs' = Without(msgs, m)
  PROVE  RevisionsInv'
<1> DEFINE D == DOMAIN streams
<1>1. /\ ListPart /\ LoadPart /\ StreamPart /\ CmdsOk(cmds, D) /\ MsgsOk(msgs, D)
      /\ \A u \in D : streams[u].open => u = streamer \/ Announced(msgs, u)
      /\ Honest(requestInFlight, cmds, msgs)
  BY Unpack
<1>2. /\ m.type = "streamingReady" /\ repo' = repo /\ rows' = rows /\ cursor' = cursor
      /\ offScreenRows' = offScreenRows /\ streams' = Closing(m.streamer) /\ cmds' = cmds
      /\ tag' = tag /\ pending' = pending /\ streamer' = streamer /\ requestInFlight' = requestInFlight
  BY DEF StreamingReady, StreamingReadyStale, repoVars, loadVars
<1>3. m.streamer \in {0} \cup D
  BY <1>1, <1>2 DEF MsgsOk, MsgOk
<1>4. /\ streams' \in [D -> Stream] /\ DOMAIN streams' = D
      /\ \A u \in D : streams'[u].open => streams[u].open /\ u # m.streamer
  <2>1. /\ streams' \in [D -> Stream]
        /\ \A u \in D : streams'[u].open => streams[u].open /\ u # m.streamer
    BY <1>1, <1>2, <1>3, ClosingKeeps
  <2> QED BY <2>1
<1>5. MsgsOk(msgs', D) /\ DOMAIN msgs \ {m} \subseteq DOMAIN msgs'
  BY <1>1, Handled
<1>6. ListPart' /\ LoadPart' /\ StreamPart'
  <2>1. ListPart'
    BY <1>1, <1>2, SameList DEF listVars
  <2> QED BY <1>1, <1>2, <1>4, <2>1 DEF LoadPart, StreamPart
<1>7. Honest(requestInFlight', cmds', msgs')
  BY <1>1, <1>2, <1>5 DEF Honest
<1>8. \A u \in D : streams'[u].open => u = streamer' \/ Announced(msgs', u)
  BY <1>1, <1>2, <1>4, <1>5 DEF Announced
<1> QED BY <1>1, <1>2, <1>4, <1>5, <1>6, <1>7, <1>8, Pack

\* A streamer that could not be opened keeps the invariant (streamingReadyMsg).
LEMMA StreamingFailedKeeps ==
  ASSUME RevisionsInv, NEW m \in DOMAIN msgs, StreamingReady(m), StreamingReadyFailed(m),
         msgs' = With(Without(msgs, m), [type |-> "failed"])
  PROVE  RevisionsInv'
<1> DEFINE D == DOMAIN streams
           f == [type |-> "failed"]
<1>1. /\ ListPart /\ LoadPart /\ StreamPart /\ CmdsOk(cmds, D) /\ MsgsOk(msgs, D)
      /\ \A u \in D : streams[u].open => u = streamer \/ Announced(msgs, u)
  BY Unpack
<1>2. /\ m.type = "streamingReady" /\ repo' = repo /\ rows' = rows /\ cursor' = cursor
      /\ offScreenRows' = offScreenRows /\ m.streamer = 0 /\ streams' = Closing(streamer)
      /\ cmds' = cmds /\ tag' = tag /\ pending' = pending /\ streamer' = 0 /\ requestInFlight' = FALSE
  BY DEF StreamingReady, StreamingReadyFailed, repoVars
<1>3. /\ streams' \in [D -> Stream] /\ DOMAIN streams' = D
      /\ \A u \in D : streams'[u].open => streams[u].open /\ u # streamer
  <2>1. streamer \in {0} \cup D
    BY <1>1 DEF LoadPart
  <2>2. /\ streams' \in [D -> Stream]
        /\ \A u \in D : streams'[u].open => streams[u].open /\ u # streamer
    BY <1>1, <1>2, <2>1, ClosingKeeps
  <2> QED BY <2>2
<1>4. MsgOk(f, D)
  BY DEF MsgOk
<1> HIDE DEF f
<1>5. MsgsOk(msgs', D) /\ DOMAIN msgs \ {m} \subseteq DOMAIN msgs'
  <2> DEFINE B == Without(msgs, m)
  <2>1. MsgsOk(B, D) /\ DOMAIN msgs \ {m} \subseteq DOMAIN B
    BY <1>1, MsgsStay, Zenon
  <2>2. msgs' = With(B, f)
    BY DEF f
  <2> HIDE DEF B, D
  <2>3. MsgsOk(msgs', D) /\ DOMAIN msgs' = DOMAIN B \cup {f}
    <3>1. MsgsOk(With(B, f), D) /\ DOMAIN With(B, f) = DOMAIN B \cup {f}
      BY <1>4, <2>1, MsgsStay
    <3> QED BY <2>2, <3>1
  <2> QED BY <2>1, <2>3
<1>6. ListPart' /\ LoadPart' /\ StreamPart'
  <2>1. ListPart'
    BY <1>1, <1>2, SameList DEF listVars
  <2> QED BY <1>1, <1>2, <1>3, <2>1 DEF LoadPart, StreamPart
<1>7. Honest(requestInFlight', cmds', msgs')
  BY <1>2 DEF Honest
<1>8. \A u \in D : streams'[u].open => u = streamer' \/ Announced(msgs', u)
  <2>1. ASSUME NEW u \in D, streams'[u].open PROVE Announced(msgs', u)
    <3>1. Announced(msgs, u) /\ u # 0
      BY <1>1, <1>3, <2>1 DEF StreamPart
    <3> QED BY <1>2, <1>5, <3>1 DEF Announced
  <2> QED BY <2>1
<1> QED BY <1>1, <1>2, <1>3, <1>5, <1>6, <1>7, <1>8, Pack

\* The reload keeps its type when it captures what is highlighted.
LEMMA CaptureTyped ==
  ASSUME ListPart, LoadPart, NEW m, CaptureSelection(m)
  PROVE  pending' \in [tag : 0 .. MaxTag, sel : Names, keep : BOOLEAN]
<1>1. pending \in [tag : 0 .. MaxTag, sel : Names, keep : BOOLEAN]
  BY DEF LoadPart
<1>2. Highlighted \subseteq Names
  BY SelectionTyped, NamesAssumption DEF Highlighted
<1>3. CASE pending.tag = m.tag /\ pending.sel = ""
  <2>1. PICK h \in Highlighted : pending' = [pending EXCEPT !.sel = h]
    BY <1>3 DEF CaptureSelection
  <2>2. h \in Names
    BY <1>2
  <2> QED BY <1>1, <2>1, <2>2
<1>4. CASE ~(pending.tag = m.tag /\ pending.sel = "")
  BY <1>1, <1>4 DEF CaptureSelection
<1> QED BY <1>3, <1>4

\* The streamer of the latest load keeps the invariant (streamingReadyMsg).
LEMMA StreamingOpenedKeeps ==
  ASSUME RevisionsInv, NEW m \in DOMAIN msgs, StreamingReady(m), StreamingReadyOpened(m), msgs' = Without(msgs, m)
  PROVE  RevisionsInv'
<1> DEFINE D == DOMAIN streams
<1>1. /\ ListPart /\ LoadPart /\ StreamPart /\ CmdsOk(cmds, D) /\ MsgsOk(msgs, D)
      /\ \A u \in D : streams[u].open => u = streamer \/ Announced(msgs, u)
  BY Unpack
<1>2. /\ m.type = "streamingReady" /\ repo' = repo /\ rows' = rows /\ cursor' = cursor
      /\ offScreenRows' = <<>> /\ m.streamer # 0 /\ streams' = Closing(streamer)
      /\ tag' = tag /\ streamer' = m.streamer /\ CaptureSelection(m)
      /\ requestMoreRows(m.streamer, m.tag, TRUE, FALSE, msgs)
  BY DEF StreamingReady, StreamingReadyOpened, repoVars
<1>3. m.streamer \in D
  BY <1>1, <1>2 DEF MsgsOk, MsgOk
<1>4. /\ streams' \in [D -> Stream] /\ DOMAIN streams' = D
      /\ \A u \in D : streams'[u].open => streams[u].open /\ u # streamer
  <2>1. streamer \in {0} \cup D
    BY <1>1 DEF LoadPart
  <2>2. /\ streams' \in [D -> Stream]
        /\ \A u \in D : streams'[u].open => streams[u].open /\ u # streamer
    BY <1>1, <1>2, <2>1, ClosingKeeps
  <2> QED BY <2>2
<1>5. MsgsOk(msgs', D) /\ DOMAIN msgs \ {m} \subseteq DOMAIN msgs'
  BY <1>1, Handled
<1>6. CmdsOk(cmds', D) /\ (requestInFlight' => \E c \in DOMAIN cmds' : c.type = "request")
  <2>1. m.streamer \in {0} \cup D /\ CmdsOk(cmds, D)
    BY <1>1, <1>3
  <2> HIDE DEF D
  <2> QED BY <1>2, <2>1, RequestKeeps
<1>7. ListPart' /\ LoadPart' /\ StreamPart'
  <2>1. ListPart'
    BY <1>1, <1>2 DEF ListPart, CursorInRange
  <2>2. pending' \in [tag : 0 .. MaxTag, sel : Names, keep : BOOLEAN]
    BY <1>1, <1>2, CaptureTyped
  <2> QED BY <1>1, <1>2, <1>3, <1>4, <2>1, <2>2 DEF LoadPart, StreamPart
<1>8. Honest(requestInFlight', cmds', msgs')
  BY <1>6 DEF Honest
<1>9. \A u \in D : streams'[u].open => u = streamer' \/ Announced(msgs', u)
  BY <1>1, <1>2, <1>4, <1>5 DEF Announced
<1> QED BY <1>4, <1>5, <1>6, <1>7, <1>8, <1>9, Pack

\* The announcement of a streamer keeps the invariant, late, failed or in time.
LEMMA StreamingReadyKeeps ==
  ASSUME RevisionsInv, NEW m \in DOMAIN msgs, StreamingReady(m)
  PROVE  RevisionsInv'
BY StreamingStaleKeeps, StreamingFailedKeeps, StreamingOpenedKeeps DEF StreamingReady

\* A batch keeps the invariant, late or in time (appendRowsBatchMsg).
LEMMA AppendKeeps ==
  ASSUME RevisionsInv, NEW m \in DOMAIN msgs, AppendRowsBatch(m)
  PROVE  RevisionsInv'
<1> DEFINE D == DOMAIN streams
           collected == offScreenRows \o m.rows
<1>1. /\ ListPart /\ LoadPart /\ StreamPart /\ CmdsOk(cmds, D) /\ MsgsOk(msgs, D)
      /\ \A u \in D : streams[u].open => u = streamer \/ Announced(msgs, u)
  BY Unpack
<1>2. /\ m.type = "append" /\ msgs' = Without(msgs, m) /\ repo' = repo /\ tag' = tag /\ streamer' = streamer
  BY DEF AppendRowsBatch, repoVars
<1>3. /\ MsgsOk(msgs', D) /\ \A s : Announced(msgs, s) => Announced(msgs', s)
  BY <1>1, <1>2, Handled
<1>4. /\ m.rows \in Seq(Commits) /\ streamer \in {0} \cup D /\ offScreenRows \in Seq(Commits)
      /\ pending \in [tag : 0 .. MaxTag, sel : Names, keep : BOOLEAN]
  BY <1>1, <1>2 DEF MsgsOk, MsgOk, LoadPart, ListPart
<1>5. collected \in Seq(Commits)
  BY <1>4
<1> HIDE DEF collected
\* What is left to show of each outcome.
<1>6. ASSUME ListPart', pending' \in [tag : 0 .. MaxTag, sel : Names, keep : BOOLEAN],
             streams' \in [D -> Stream], \A u \in D : streams'[u].open => streams[u].open,
             CmdsOk(cmds', D), requestInFlight' => \E c \in DOMAIN cmds' : c.type = "request"
      PROVE  RevisionsInv'
  <2>1. DOMAIN streams' = D
    BY <1>6
  <2>2. LoadPart' /\ StreamPart'
    BY <1>1, <1>2, <1>6, <2>1 DEF LoadPart, StreamPart
  <2>3. Honest(requestInFlight', cmds', msgs')
    BY <1>6 DEF Honest
  <2>4. \A u \in D : streams'[u].open => u = streamer' \/ Announced(msgs', u)
    BY <1>1, <1>2, <1>3, <1>6
  <2> QED BY <1>3, <1>6, <2>1, <2>2, <2>3, <2>4, Pack
<1>7. CASE AppendRowsStale(m)
  <2>1. /\ requestInFlight' = FALSE /\ rows' = rows /\ offScreenRows' = offScreenRows
        /\ cursor' = cursor /\ pending' = pending /\ streams' = streams /\ cmds' = cmds
    BY <1>7 DEF AppendRowsStale
  <2>2. ListPart'
    BY <1>1, <2>1, SameList DEF listVars
  <2>3. streams' \in [D -> Stream]
    BY <1>1, <2>1 DEF StreamPart
  <2> QED BY <1>1, <1>4, <1>6, <2>1, <2>2, <2>3
<1>8. ASSUME m.tag = tag, offScreenRows' = collected, ShowRows(m.tag, collected),
             streams' \in [D -> Stream], \A u \in D : streams'[u].open => streams[u].open
      PROVE  RevisionsInv'
  <2>1. rows' = collected /\ cursor' \in Nat /\ CursorInRange'
    BY <1>1, <1>5, <1>8, ShowRowsKeeps
  <2>2. ListPart'
    BY <1>5, <1>8, <2>1 DEF ListPart
  <2>3. UseReload(m.tag) /\ requestInFlight' = FALSE /\ cmds' = cmds
    BY <1>8 DEF ShowRows
  <2>4. pending' \in [tag : 0 .. MaxTag, sel : Names, keep : BOOLEAN]
    BY <1>1, <2>3, ReloadTyped
  <2> QED BY <1>1, <1>6, <1>8, <2>2, <2>3, <2>4
<1>9. ASSUME offScreenRows' = collected, CollectRows(m, collected), streams' = streams
      PROVE  RevisionsInv'
  <2>1. /\ requestMoreRows(streamer, m.tag, TRUE, FALSE, Without(msgs, m))
        /\ rows' = rows /\ cursor' = cursor /\ pending' = pending
    BY <1>9 DEF CollectRows
  <2>2. CmdsOk(cmds', D) /\ (requestInFlight' => \E c \in DOMAIN cmds' : c.type = "request")
    <3>1. CmdsOk(cmds, D)
      BY <1>1
    <3> HIDE DEF D
    <3> QED BY <1>4, <2>1, <3>1, RequestKeeps
  <2>3. ListPart'
    BY <1>1, <1>5, <1>9, <2>1 DEF ListPart, CursorInRange
  <2>4. streams' \in [D -> Stream]
    BY <1>1, <1>9 DEF StreamPart
  <2> QED BY <1>4, <1>6, <1>9, <2>1, <2>2, <2>3, <2>4
<1>10. CASE AppendRowsCurrent(m)
  <2>1. /\ m.tag = tag /\ offScreenRows' = collected
        /\ \/ CollectRows(m, collected) /\ streams' = streams
           \/ ShowRows(m.tag, collected) /\ streams' = streams
           \/ ShowRows(m.tag, collected) /\ streams' = Closing(streamer)
    BY <1>10 DEF AppendRowsCurrent, collected
  <2>2. streams \in [D -> Stream]
    BY <1>1 DEF StreamPart
  <2>3. CASE CollectRows(m, collected) /\ streams' = streams
    BY <1>9, <2>1, <2>3
  <2>4. CASE ShowRows(m.tag, collected) /\ streams' = streams
    BY <1>8, <2>1, <2>2, <2>4
  <2>5. CASE ShowRows(m.tag, collected) /\ streams' = Closing(streamer)
    <3>1. streams' \in [D -> Stream] /\ \A u \in D : streams'[u].open => streams[u].open
      BY <1>1, <1>4, <2>5, ClosingKeeps
    <3> QED BY <1>8, <2>1, <2>5, <3>1
  <2> QED BY <2>1, <2>3, <2>4, <2>5
<1> QED BY <1>7, <1>10 DEF AppendRowsBatch

-----------------------------------------------------------------------------
(* The user.                                                                 *)

\* What a key does that moves the cursor and may ask for more rows.
LEMMA KeyKeeps ==
  ASSUME RevisionsInv, UnchangedByUser, ListPart',
         AskForMore \/ UNCHANGED <<requestInFlight, cmds, exposed>>
  PROVE  RevisionsInv'
<1> DEFINE D == DOMAIN streams
<1>1. /\ LoadPart /\ StreamPart /\ CmdsOk(cmds, D) /\ MsgsOk(msgs, D)
      /\ \A u \in D : streams[u].open => u = streamer \/ Announced(msgs, u)
      /\ Honest(requestInFlight, cmds, msgs)
  BY Unpack
<1>2. /\ repo' = repo /\ tag' = tag /\ pending' = pending /\ streamer' = streamer /\ streams' = streams
      /\ msgs' = msgs
  BY DEF UnchangedByUser, repoVars
<1>3. LoadPart' /\ StreamPart'
  BY <1>1, <1>2 DEF LoadPart, StreamPart
<1>4. /\ CmdsOk(cmds', D) /\ DOMAIN cmds \subseteq DOMAIN cmds'
      /\ requestInFlight' => requestInFlight \/ \E c \in DOMAIN cmds' : c.type = "request"
  <2>1. CASE UNCHANGED <<requestInFlight, cmds, exposed>>
    BY <1>1, <2>1
  <2>2. CASE AskForMore
    <3>1. streamer \in {0} \cup D /\ CmdsOk(cmds, D) /\ requestMoreRows(streamer, tag, hasMore, requestInFlight, msgs)
      BY <1>1, <2>2 DEF LoadPart, AskForMore
    <3> HIDE DEF D
    <3> QED BY <3>1, RequestKeeps
  <2> QED BY <2>1, <2>2
<1>5. Honest(requestInFlight', cmds', msgs')
  BY <1>1, <1>2, <1>4 DEF Honest
<1> QED BY <1>1, <1>2, <1>3, <1>4, <1>5, Pack

\* What the user does in the list keeps the invariant: keys, searches, clicks,
\* scrolling.
LEMMA UserKeeps ==
  ASSUME RevisionsInv, User
  PROVE  RevisionsInv'
<1>1. ListPart
  BY Unpack
<1>2. ASSUME NEW step \in {-1, 1}, Navigate(step) PROVE RevisionsInv'
  <2>1. UnchangedByUser /\ rows' = rows /\ offScreenRows' = offScreenRows
    BY <1>2 DEF Navigate, UnchangedByUser
  <2>2. \/ AskForMore /\ cursor' = cursor
        \/ (\E i \in Int : SetCursor(i)) /\ UNCHANGED <<requestInFlight, cmds, exposed>>
    <3>1. CASE step > 0 /\ cursor + step >= Len(rows) /\ hasMore
      BY <1>2, <3>1 DEF Navigate
    <3>2. CASE ~(step > 0 /\ cursor + step >= Len(rows) /\ hasMore)
      <4> DEFINE i == CASE cursor + step < 0 -> 0
                        [] cursor + step >= Len(rows) -> Len(rows) - 1
                        [] OTHER -> cursor + step
      <4>1. SetCursor(i) /\ UNCHANGED <<requestInFlight, cmds, exposed>>
        BY <1>2, <3>2 DEF Navigate
      <4>2. i \in Int
        BY <1>1 DEF ListPart
      <4> HIDE DEF i
      <4> QED BY <4>1, <4>2
    <3> QED BY <3>1, <3>2
  <2>3. ListPart'
    BY <1>1, <2>1, <2>2, SetCursorKeeps, SameList DEF listVars
  <2> QED BY <2>1, <2>2, <2>3, KeyKeeps
<1>3. CASE GoToBottom
  <2>1. UnchangedByUser /\ rows' = rows /\ offScreenRows' = offScreenRows /\ AskForMore /\ SetCursor(Len(rows) - 1)
    BY <1>3 DEF GoToBottom, UnchangedByUser
  <2>2. ListPart'
    BY <1>1, <2>1, SetCursorKeeps
  <2> QED BY <2>1, <2>2, KeyKeeps
<1>4. CASE Scroll
  <2>1. UnchangedByUser /\ UNCHANGED listVars /\ AskForMore
    BY <1>4 DEF Scroll, UnchangedByUser, listVars
  <2>2. ListPart'
    BY <1>1, <2>1, SameList
  <2> QED BY <2>1, <2>2, KeyKeeps
<1>5. ASSUME NEW i, JumpTo(i) PROVE RevisionsInv'
  <2>1. /\ UnchangedByUser /\ rows' = rows /\ offScreenRows' = offScreenRows /\ SetCursor(i)
        /\ UNCHANGED <<requestInFlight, cmds, exposed>>
    BY <1>5 DEF JumpTo, UnchangedByUser
  <2>2. ListPart'
    BY <1>1, <2>1, SetCursorKeeps
  <2> QED BY <2>1, <2>2, KeyKeeps
<1> QED BY <1>2, <1>3, <1>4, <1>5 DEF User

\* Somebody changes the repository, or nothing happens.
LEMMA OthersKeep ==
  ASSUME RevisionsInv, RepositoryChanges \/ UNCHANGED vars
  PROVE  RevisionsInv'
<1>1. /\ ListPart /\ LoadPart /\ StreamPart /\ CmdsOk(cmds, DOMAIN streams) /\ MsgsOk(msgs, DOMAIN streams)
      /\ \A u \in DOMAIN streams : streams[u].open => u = streamer \/ Announced(msgs, u)
      /\ Honest(requestInFlight, cmds, msgs)
  BY Unpack
<1>2. /\ repo' \in DOMAIN Logs /\ UNCHANGED listVars /\ tag' = tag /\ pending' = pending
      /\ streamer' = streamer /\ requestInFlight' = requestInFlight /\ streams' = streams
      /\ cmds' = cmds /\ msgs' = msgs
  BY <1>1 DEF RepositoryChanges, vars, repoVars, loadVars, LoadPart
<1>3. ListPart' /\ LoadPart' /\ StreamPart'
  BY <1>1, <1>2, SameList DEF LoadPart, StreamPart
<1> QED BY <1>1, <1>2, <1>3, Pack

-----------------------------------------------------------------------------
\* The invariant holds at the start.
LEMMA RevisionsInit == Init => RevisionsInv
<1> SUFFICES ASSUME Init PROVE RevisionsInv
  OBVIOUS
<1> DEFINE m == Refreshing("@", FALSE)
<1>1. /\ rows = <<>> /\ offScreenRows = <<>> /\ cursor = 0 /\ repo \in DOMAIN Logs /\ tag = 0
      /\ pending = NoReload /\ streamer = 0 /\ requestInFlight = FALSE
      /\ streams = <<>> /\ cmds = EmptyBag /\ msgs = SetToBag({m})
  BY DEF Init
<1>2. DOMAIN streams = {} /\ streams \in [DOMAIN streams -> Stream]
  BY <1>1
<1>3. DOMAIN cmds = {} /\ IsABag(cmds)
  BY <1>1 DEF EmptyBag, SetToBag, IsABag
<1>4. DOMAIN msgs = {m} /\ IsABag(msgs)
  BY <1>1 DEF SetToBag, IsABag
<1>5. MsgOk(m, {})
  BY NamesAssumption DEF MsgOk, Refreshing
<1> HIDE DEF m
<1>6. BagPart
  BY <1>2, <1>3, <1>4, <1>5 DEF BagPart, CmdsOk, MsgsOk
<1>7. ListPart
  BY <1>1 DEF ListPart, CursorInRange
<1>8. LoadPart /\ StreamPart
  <2>1. "" \in Names /\ 0 \in 0 .. MaxTag
    <3>1. "" \in Names
      BY NamesAssumption, Zenon
    <3>2. MaxTag \in Nat
      BY BoundsAssumption, Zenon
    <3>3. 0 \in 0 .. MaxTag
      BY <3>2
    <3> QED BY <3>1, <3>3, Zenon
  <2>2. NoReload \in [tag : 0 .. MaxTag, sel : Names, keep : BOOLEAN]
    BY <2>1 DEF NoReload
  <2> QED BY <1>1, <1>2, <2>1, <2>2 DEF LoadPart, StreamPart
<1>9. NoStreamerLeaks /\ InFlightIsHonest
  BY <1>1, <1>2 DEF NoStreamerLeaks, InFlightIsHonest
<1> QED BY <1>6, <1>7, <1>8, <1>9 DEF RevisionsInv

\* Every step keeps the invariant: one case per action of Next.
LEMMA RevisionsStep == RevisionsInv /\ [Next]_vars => RevisionsInv'
<1> SUFFICES ASSUME RevisionsInv, [Next]_vars PROVE RevisionsInv'
  OBVIOUS
<1>1. ASSUME NEW c \in Pending(cmds), Run(c) PROVE RevisionsInv'
  <2>1. c \in DOMAIN cmds
    BY DEF Pending, BagToSet
  <2> QED BY <1>1, <2>1, LoadStreamingKeeps, LoadKeeps, RequestMoreKeeps DEF Run
<1>2. ASSUME NEW m \in Pending(msgs), Handle(m) PROVE RevisionsInv'
  <2>1. m \in DOMAIN msgs
    BY DEF Pending, BagToSet
  <2> QED BY <1>2, <2>1, RefreshMsgKeeps, FailedKeeps, UpdateRevisionsKeeps, StreamingReadyKeeps, AppendKeeps DEF Handle
<1>3. ASSUME NEW sel \in Targets, NEW keep \in BOOLEAN, RefreshIntent(sel, keep) PROVE RevisionsInv'
  BY <1>3, RefreshIntentKeeps
<1> QED BY <1>1, <1>2, <1>3, AutoRefreshKeeps, UserKeeps, OthersKeep DEF Next

\* However refreshes, late answers and keys interleave, the cursor is on a row whenever there is
\* one, an open streamer is the current one or about to be handed over, and a request that blocks
\* others is answered (revisions.go Update), for any logs and batch size.
THEOREM ListIsAlwaysSound == Spec => []ListIsSound
<1>1. RevisionsInv => ListIsSound
  BY DEF RevisionsInv, ListIsSound, TypeOK, ListPart, LoadPart, BagPart, CmdsOk, MsgsOk
<1> QED BY <1>1, RevisionsInit, RevisionsStep, PTL DEF Spec

-----------------------------------------------------------------------------
(* The latest load.  Until a batch is asked for twice, or of the streamer of *)
(* another load, one thing of the latest load is under way at a time, and    *)
(* what it is says how far the load has come.                                *)

Kinds == {"streamingReady", "updateRevisions", "append"}
OfLoad(m, t) == m.type \in Kinds /\ m.tag = t
CmdsOf(B, t) == [c \in {x \in DOMAIN B : x.tag = t} |-> B[c]]
MsgsOf(B, t) == [m \in {x \in DOMAIN B : OfLoad(x, t)} |-> B[m]]
AtMostOne(F) == \A x, y \in DOMAIN F : x = y /\ F[x] = 1

\* The rows rs are what the latest streamer has said.
Collected(rs) ==
  streams[tag].pos <= Len(streams[tag].log) /\ rs = SubSeq(streams[tag].log, 1, streams[tag].pos)

\* How far the load has come while x is under way.
Phase(x) ==
  /\ x.type \in {"loadStreaming", "load"} =>
       tag \notin DOMAIN streams /\ pending.tag = tag /\ streamer # tag
  /\ x.type = "streamingReady" =>
       /\ pending.tag = tag /\ streamer # tag
       /\ \/ x.streamer = 0 /\ tag \notin DOMAIN streams
          \/ /\ x.streamer = tag /\ tag \in DOMAIN streams
             /\ streams[tag].pos = 0 /\ streams[tag].open
  /\ x.type = "updateRevisions" =>
       pending.tag = tag /\ streamer # tag /\ tag \in DOMAIN streams /\ x.rows = streams[tag].log
  /\ x.type = "request" =>
       /\ streamer = tag /\ x.streamer = tag /\ tag \in DOMAIN streams
       /\ streams[tag].open /\ Collected(offScreenRows)
  /\ x.type = "append" =>
       /\ streamer = tag /\ x.streamer = tag /\ tag \in DOMAIN streams
       /\ Collected(offScreenRows \o x.rows)
       /\ x.more => streams[tag].open
       /\ ~x.more => streams[tag].pos = Len(streams[tag].log)

\* The same when nothing is.
Idle ==
  streamer = tag /\ tag # 0 =>
    tag \in DOMAIN streams /\ Collected(offScreenRows) /\ (hasMore => streams[tag].open)

Bounded ==
  /\ \A s \in DOMAIN streams : s \in 0 .. tag
  /\ \A c \in DOMAIN cmds : c.tag \in 0 .. tag
  /\ \A m \in DOMAIN msgs : m.type \in Kinds => m.tag \in 0 .. tag
  /\ \A m \in DOMAIN msgs : m.type = "streamingReady" => m.streamer \in {0, m.tag}
OwnStreamer == \A c \in DOMAIN cmds : c.type = "request" => c.streamer = c.tag
Single ==
  /\ AtMostOne(CmdsOf(cmds, tag)) /\ AtMostOne(MsgsOf(msgs, tag))
  /\ DOMAIN CmdsOf(cmds, tag) = {} \/ DOMAIN MsgsOf(msgs, tag) = {}
Phases == \A x \in DOMAIN CmdsOf(cmds, tag) \cup DOMAIN MsgsOf(msgs, tag) : Phase(x)
Resting == DOMAIN CmdsOf(cmds, tag) = {} /\ DOMAIN MsgsOf(msgs, tag) = {} => Idle
Shown ==
  tag \in DOMAIN streams /\ pending.tag # tag =>
    /\ IsPrefix(rows, streams[tag].log)
    /\ ~hasMore => rows = streams[tag].log
    /\ streamer = tag => Len(rows) <= Len(offScreenRows)
Latest == OwnStreamer /\ Single /\ Phases /\ Resting /\ Shown

LatestInv == Bounded /\ (~exposed => Latest)

\* Adding to a bag changes the number of no other member, and a new member is there
\* once.
LEMMA WithCounts ==
  ASSUME NEW B, IsABag(B), NEW x
  PROVE  /\ \A y \in DOMAIN B : y # x => With(B, x)[y] = B[y]
         /\ x \notin DOMAIN B => With(B, x)[x] = 1
<1> DEFINE S == SetToBag({x})
<1>1. DOMAIN S = {x} /\ S[x] = 1
  BY DEF SetToBag
<1>2. With(B, x) = B (+) S
  BY DEF With
<1>3. ASSUME NEW t \in DOMAIN B \cup {x}
      PROVE  With(B, x)[t] = (IF t \in DOMAIN B THEN B[t] ELSE 0) + (IF t \in {x} THEN S[t] ELSE 0)
  BY <1>1, <1>2, <1>3 DEF (+)
<1>4. \A t \in DOMAIN B : B[t] \in Nat
  BY DEF IsABag
<1> HIDE DEF S
<1> QED BY <1>1, <1>3, <1>4

\* Taking from a bag changes the number of no other member, and the last copy goes.
LEMMA WithoutCounts ==
  ASSUME NEW B, IsABag(B), NEW x \in DOMAIN B
  PROVE  /\ \A y \in DOMAIN B : y # x => Without(B, x)[y] = B[y]
         /\ B[x] = 1 => x \notin DOMAIN Without(B, x)
<1> DEFINE C == [t \in DOMAIN B |-> IF t \in DOMAIN SetToBag({x}) THEN B[t] - SetToBag({x})[t] ELSE B[t]]
           D == {d \in DOMAIN C : C[d] > 0}
<1>1. DOMAIN SetToBag({x}) = {x} /\ SetToBag({x})[x] = 1
  BY DEF SetToBag
<1>2. Without(B, x) = [t \in D |-> C[t]]
  BY DEF (-), Without
<1>3. ASSUME NEW t \in DOMAIN B
      PROVE  /\ B[t] \in Nat /\ B[t] > 0
             /\ C[t] = IF t = x THEN B[t] - 1 ELSE B[t]
  BY <1>1, <1>3 DEF IsABag
<1>4. D = {d \in DOMAIN B : C[d] > 0}
  OBVIOUS
<1> HIDE DEF C, D
<1>5. \A y \in DOMAIN B : y # x => y \in D
  BY <1>3, <1>4
<1>6. B[x] = 1 => x \notin D
  BY <1>3, <1>4
<1> QED BY <1>2, <1>3, <1>5, <1>6

\* The commands of a load when one is added or taken.
LEMMA CmdAdded ==
  ASSUME NEW B, IsABag(B), NEW x, NEW t
  PROVE  /\ x.tag # t => CmdsOf(With(B, x), t) = CmdsOf(B, t)
         /\ x.tag = t /\ DOMAIN CmdsOf(B, t) = {} =>
              DOMAIN CmdsOf(With(B, x), t) = {x} /\ AtMostOne(CmdsOf(With(B, x), t))
<1> DEFINE W == With(B, x)
<1>1. DOMAIN W = DOMAIN B \cup {x}
  BY WithBag
<1>2. /\ \A y \in DOMAIN B : y # x => W[y] = B[y]
      /\ x \notin DOMAIN B => W[x] = 1
  BY WithCounts
<1> HIDE DEF W
<1>3. ASSUME x.tag # t PROVE CmdsOf(W, t) = CmdsOf(B, t)
  <2>1. {c \in DOMAIN W : c.tag = t} = {c \in DOMAIN B : c.tag = t}
    BY <1>1, <1>3
  <2>2. \A c \in {c \in DOMAIN B : c.tag = t} : W[c] = B[c]
    BY <1>2, <1>3
  <2> QED BY <2>1, <2>2 DEF CmdsOf
<1>4. ASSUME x.tag = t, DOMAIN CmdsOf(B, t) = {} PROVE DOMAIN CmdsOf(W, t) = {x} /\ AtMostOne(CmdsOf(W, t))
  <2>1. {c \in DOMAIN B : c.tag = t} = {}
    BY <1>4 DEF CmdsOf
  <2>2. {c \in DOMAIN W : c.tag = t} = {x} /\ x \notin DOMAIN B
    BY <1>1, <1>4, <2>1
  <2>3. CmdsOf(W, t) = [c \in {x} |-> W[c]]
    BY <2>2 DEF CmdsOf
  <2> QED BY <1>2, <2>2, <2>3 DEF AtMostOne
<1> QED BY <1>3, <1>4 DEF W

\* Taking a command of another load leaves those of this one; taking the only one
\* leaves none.
LEMMA CmdTaken ==
  ASSUME NEW B, IsABag(B), NEW x \in DOMAIN B, NEW t
  PROVE  /\ x.tag # t => CmdsOf(Without(B, x), t) = CmdsOf(B, t)
         /\ x.tag = t /\ AtMostOne(CmdsOf(B, t)) => DOMAIN CmdsOf(Without(B, x), t) = {}
<1> DEFINE W == Without(B, x)
<1>1. DOMAIN W \subseteq DOMAIN B /\ DOMAIN B \ {x} \subseteq DOMAIN W
  BY WithoutBag
<1>2. /\ \A y \in DOMAIN B : y # x => W[y] = B[y]
      /\ B[x] = 1 => x \notin DOMAIN W
  BY WithoutCounts
<1> HIDE DEF W
<1>3. ASSUME x.tag # t PROVE CmdsOf(W, t) = CmdsOf(B, t)
  <2>1. {c \in DOMAIN W : c.tag = t} = {c \in DOMAIN B : c.tag = t}
    BY <1>1, <1>3
  <2>2. \A c \in {c \in DOMAIN B : c.tag = t} : W[c] = B[c]
    BY <1>2, <1>3
  <2> QED BY <2>1, <2>2 DEF CmdsOf
<1>4. ASSUME x.tag = t, AtMostOne(CmdsOf(B, t)) PROVE DOMAIN CmdsOf(W, t) = {}
  <2>1. \A c \in DOMAIN B : c.tag = t => c = x /\ B[c] = 1
    BY <1>4 DEF CmdsOf, AtMostOne
  <2>2. {c \in DOMAIN W : c.tag = t} = {}
    BY <1>1, <1>2, <1>4, <2>1
  <2> QED BY <2>2 DEF CmdsOf
<1> QED BY <1>3, <1>4 DEF W

\* The messages of a load, likewise.
LEMMA MsgAdded ==
  ASSUME NEW B, IsABag(B), NEW x, NEW t
  PROVE  /\ ~OfLoad(x, t) => MsgsOf(With(B, x), t) = MsgsOf(B, t)
         /\ OfLoad(x, t) /\ DOMAIN MsgsOf(B, t) = {} =>
              DOMAIN MsgsOf(With(B, x), t) = {x} /\ AtMostOne(MsgsOf(With(B, x), t))
<1> DEFINE W == With(B, x)
<1>1. DOMAIN W = DOMAIN B \cup {x}
  BY WithBag
<1>2. /\ \A y \in DOMAIN B : y # x => W[y] = B[y]
      /\ x \notin DOMAIN B => W[x] = 1
  BY WithCounts
<1> HIDE DEF W
<1>3. ASSUME ~OfLoad(x, t) PROVE MsgsOf(W, t) = MsgsOf(B, t)
  <2>1. {c \in DOMAIN W : OfLoad(c, t)} = {c \in DOMAIN B : OfLoad(c, t)}
    BY <1>1, <1>3
  <2>2. \A c \in {c \in DOMAIN B : OfLoad(c, t)} : W[c] = B[c]
    BY <1>2, <1>3
  <2> QED BY <2>1, <2>2 DEF MsgsOf
<1>4. ASSUME OfLoad(x, t), DOMAIN MsgsOf(B, t) = {} PROVE DOMAIN MsgsOf(W, t) = {x} /\ AtMostOne(MsgsOf(W, t))
  <2>1. {c \in DOMAIN B : OfLoad(c, t)} = {}
    BY <1>4 DEF MsgsOf
  <2>2. {c \in DOMAIN W : OfLoad(c, t)} = {x} /\ x \notin DOMAIN B
    BY <1>1, <1>4, <2>1
  <2>3. MsgsOf(W, t) = [c \in {x} |-> W[c]]
    BY <2>2 DEF MsgsOf
  <2> QED BY <1>2, <2>2, <2>3 DEF AtMostOne
<1> QED BY <1>3, <1>4 DEF W

\* Taking a message of another load leaves those of this one; taking the only one
\* leaves none.
LEMMA MsgTaken ==
  ASSUME NEW B, IsABag(B), NEW x \in DOMAIN B, NEW t
  PROVE  /\ ~OfLoad(x, t) => MsgsOf(Without(B, x), t) = MsgsOf(B, t)
         /\ OfLoad(x, t) /\ AtMostOne(MsgsOf(B, t)) => DOMAIN MsgsOf(Without(B, x), t) = {}
<1> DEFINE W == Without(B, x)
<1>1. DOMAIN W \subseteq DOMAIN B /\ DOMAIN B \ {x} \subseteq DOMAIN W
  BY WithoutBag
<1>2. /\ \A y \in DOMAIN B : y # x => W[y] = B[y]
      /\ B[x] = 1 => x \notin DOMAIN W
  BY WithoutCounts
<1> HIDE DEF W
<1>3. ASSUME ~OfLoad(x, t) PROVE MsgsOf(W, t) = MsgsOf(B, t)
  <2>1. {c \in DOMAIN W : OfLoad(c, t)} = {c \in DOMAIN B : OfLoad(c, t)}
    BY <1>1, <1>3
  <2>2. \A c \in {c \in DOMAIN B : OfLoad(c, t)} : W[c] = B[c]
    BY <1>2, <1>3
  <2> QED BY <2>1, <2>2 DEF MsgsOf
<1>4. ASSUME OfLoad(x, t), AtMostOne(MsgsOf(B, t)) PROVE DOMAIN MsgsOf(W, t) = {}
  <2>1. \A c \in DOMAIN B : OfLoad(c, t) => c = x /\ B[c] = 1
    BY <1>4 DEF MsgsOf, AtMostOne
  <2>2. {c \in DOMAIN W : OfLoad(c, t)} = {}
    BY <1>1, <1>2, <1>4, <2>1
  <2> QED BY <2>2 DEF MsgsOf
<1> QED BY <1>3, <1>4 DEF W

\* What a streamer says next is what follows in the log.
LEMMA NextRows ==
  ASSUME NEW log \in Seq(Commits), NEW pos \in Nat, pos <= Len(log),
         NEW k \in 0 .. Len(log) - pos
  PROVE  /\ SubSeq(log, 1, pos) \o SubSeq(SubSeq(log, pos + 1, Len(log)), 1, k) = SubSeq(log, 1, pos + k)
         /\ Len(SubSeq(log, pos + 1, Len(log))) = Len(log) - pos
         /\ Len(SubSeq(SubSeq(log, pos + 1, Len(log)), 1, k)) = k
<1> DEFINE a == SubSeq(log, 1, pos)
           r == SubSeq(log, pos + 1, Len(log))
           b == SubSeq(r, 1, k)
           c == SubSeq(log, 1, pos + k)
<1>1. Len(log) \in Nat /\ k \in Nat /\ pos + k <= Len(log)
  OBVIOUS
<1>2. a \in Seq(Commits) /\ Len(a) = pos /\ \A i \in 1 .. pos : a[i] = log[i]
  BY <1>1
<1>3. r \in Seq(Commits) /\ Len(r) = Len(log) - pos /\ \A i \in 1 .. Len(log) - pos : r[i] = log[pos + i]
  BY <1>1
<1> HIDE DEF r
<1>4. b \in Seq(Commits) /\ Len(b) = k /\ \A i \in 1 .. k : b[i] = r[i]
  BY <1>1, <1>3
<1>5. c \in Seq(Commits) /\ Len(c) = pos + k /\ \A i \in 1 .. pos + k : c[i] = log[i]
  BY <1>1
<1> HIDE DEF a, b, c
<1>6. /\ a \o b \in Seq(Commits) /\ Len(a \o b) = pos + k
      /\ \A i \in 1 .. pos + k : (a \o b)[i] = IF i <= pos THEN a[i] ELSE b[i - pos]
  <2>1. /\ a \o b \in Seq(Commits) /\ Len(a \o b) = Len(a) + Len(b)
        /\ \A i \in 1 .. Len(a) + Len(b) : (a \o b)[i] = IF i <= Len(a) THEN a[i] ELSE b[i - Len(a)]
    BY <1>2, <1>4, ConcatProperties
  <2> QED BY <1>2, <1>4, <2>1, Zenon
<1>7. ASSUME NEW i \in 1 .. pos + k PROVE (a \o b)[i] = c[i]
  <2>1. CASE i <= pos
    BY <1>1, <1>2, <1>5, <1>6, <1>7, <2>1
  <2>2. CASE i > pos
    <3>1. i - pos \in 1 .. k /\ pos + (i - pos) = i
      BY <1>1, <2>2
    <3>2. (a \o b)[i] = b[i - pos]
      BY <1>1, <1>6, <1>7, <2>2
    <3>3. b[i - pos] = r[i - pos]
      BY <1>4, <3>1
    <3>4. r[i - pos] = log[pos + (i - pos)]
      BY <1>1, <1>3, <3>1
    <3> QED BY <1>5, <3>1, <3>2, <3>3, <3>4
  <2>3. i <= pos \/ i > pos
    BY <1>1
  <2> QED BY <2>1, <2>2, <2>3, Zenon
<1>8. a \o b = c
  BY <1>5, <1>6, <1>7, SeqEqual
<1> QED BY <1>3, <1>4, <1>8 DEF a, b, c, r

\* Nothing of the latest load changes.
LEMMA SameLoad ==
  ASSUME Latest, OwnStreamer', tag' = tag,
         CmdsOf(cmds', tag) = CmdsOf(cmds, tag), MsgsOf(msgs', tag) = MsgsOf(msgs, tag),
         tag \in DOMAIN streams' <=> tag \in DOMAIN streams,
         tag \in DOMAIN streams => streams'[tag] = streams[tag],
         pending' = pending, streamer' = streamer, offScreenRows' = offScreenRows,
         rows' = rows, hasMore' = hasMore
  PROVE  Latest'
<1>1. Single'
  BY DEF Latest, Single
<1>2. ASSUME NEW x, Phase(x) PROVE Phase(x)'
  BY <1>2 DEF Phase, Collected
<1>3. Phases'
  BY <1>2 DEF Latest, Phases
<1>4. Resting'
  BY DEF Latest, Resting, Idle, Collected
<1>5. Shown'
  BY DEF Latest, Shown
<1> QED BY <1>1, <1>3, <1>4, <1>5 DEF Latest

\* One command, one message, or nothing of it is under way.
LEMMA OneCmd ==
  ASSUME OwnStreamer', Shown', NEW x, Phase(x)',
         DOMAIN CmdsOf(cmds', tag') = {x}, AtMostOne(CmdsOf(cmds', tag')), DOMAIN MsgsOf(msgs', tag') = {}
  PROVE  Latest'
<1>1. Single'
  BY DEF Single, AtMostOne
<1>2. Phases' /\ Resting'
  BY DEF Phases, Resting
<1> QED BY <1>1, <1>2 DEF Latest

\* The latest load is sound when one message of it is under way, in its phase.
LEMMA OneMsg ==
  ASSUME OwnStreamer', Shown', NEW x, Phase(x)',
         DOMAIN MsgsOf(msgs', tag') = {x}, AtMostOne(MsgsOf(msgs', tag')), DOMAIN CmdsOf(cmds', tag') = {}
  PROVE  Latest'
<1>1. Single'
  BY DEF Single, AtMostOne
<1>2. Phases' /\ Resting'
  BY DEF Phases, Resting
<1> QED BY <1>1, <1>2 DEF Latest

\* The latest load is sound when nothing of it is under way and its rows have been
\* collected.
LEMMA NothingUnderWay ==
  ASSUME OwnStreamer', Shown', Idle',
         DOMAIN MsgsOf(msgs', tag') = {}, DOMAIN CmdsOf(cmds', tag') = {}
  PROVE  Latest'
<1>1. Single'
  BY DEF Single, AtMostOne
<1>2. Phases' /\ Resting'
  BY DEF Phases, Resting
<1> QED BY <1>1, <1>2 DEF Latest

\* Taking what is under way of the latest load.
LEMMA TakeCmd ==
  ASSUME Latest, IsABag(cmds), NEW c \in DOMAIN cmds, c.tag = tag, cmds' = Without(cmds, c)
  PROVE  Phase(c) /\ DOMAIN CmdsOf(cmds', tag) = {} /\ DOMAIN MsgsOf(msgs, tag) = {}
<1>1. c \in DOMAIN CmdsOf(cmds, tag) /\ AtMostOne(CmdsOf(cmds, tag))
  BY DEF Latest, Single, CmdsOf
<1>2. DOMAIN CmdsOf(cmds', tag) = {}
  BY <1>1, CmdTaken
<1> QED BY <1>1, <1>2 DEF Latest, Single, Phases

\* A message of the latest load is the only thing of it under way.
LEMMA TakeMsg ==
  ASSUME Latest, IsABag(msgs), NEW m \in DOMAIN msgs, OfLoad(m, tag)
  PROVE  /\ Phase(m) /\ DOMAIN MsgsOf(Without(msgs, m), tag) = {} /\ DOMAIN CmdsOf(cmds, tag) = {}
<1>1. m \in DOMAIN MsgsOf(msgs, tag) /\ AtMostOne(MsgsOf(msgs, tag))
  BY DEF Latest, Single, MsgsOf
<1>2. DOMAIN MsgsOf(Without(msgs, m), tag) = {}
  BY <1>1, MsgTaken
<1> QED BY <1>1, <1>2 DEF Latest, Single, Phases

\* A message, or a command, more.
LEMMA AddMsg ==
  ASSUME IsABag(msgs), NEW m, msgs' = With(msgs, m)
  PROVE  /\ DOMAIN msgs' = DOMAIN msgs \cup {m}
         /\ ~OfLoad(m, tag) => MsgsOf(msgs', tag) = MsgsOf(msgs, tag)
         /\ OfLoad(m, tag) /\ DOMAIN MsgsOf(msgs, tag) = {} =>
              DOMAIN MsgsOf(msgs', tag) = {m} /\ AtMostOne(MsgsOf(msgs', tag))
<1> DEFINE W == With(msgs, m)
<1>1. DOMAIN W = DOMAIN msgs \cup {m}
  BY WithBag
<1>2. /\ ~OfLoad(m, tag) => MsgsOf(W, tag) = MsgsOf(msgs, tag)
      /\ OfLoad(m, tag) /\ DOMAIN MsgsOf(msgs, tag) = {} =>
           DOMAIN MsgsOf(W, tag) = {m} /\ AtMostOne(MsgsOf(W, tag))
  BY MsgAdded
<1>3. msgs' = W
  OBVIOUS
<1> HIDE DEF W
<1> QED BY <1>1, <1>2, <1>3

\* A new command is the only one of its load when there was none.
LEMMA AddCmd ==
  ASSUME IsABag(cmds), NEW c, cmds' = With(cmds, c), NEW t
  PROVE  /\ DOMAIN cmds' = DOMAIN cmds \cup {c}
         /\ c.tag # t => CmdsOf(cmds', t) = CmdsOf(cmds, t)
         /\ c.tag = t /\ DOMAIN CmdsOf(cmds, t) = {} =>
              DOMAIN CmdsOf(cmds', t) = {c} /\ AtMostOne(CmdsOf(cmds', t))
<1> DEFINE W == With(cmds, c)
<1>1. DOMAIN W = DOMAIN cmds \cup {c}
  BY WithBag
<1>2. /\ c.tag # t => CmdsOf(W, t) = CmdsOf(cmds, t)
      /\ c.tag = t /\ DOMAIN CmdsOf(cmds, t) = {} =>
           DOMAIN CmdsOf(W, t) = {c} /\ AtMostOne(CmdsOf(W, t))
  BY CmdAdded
<1>3. cmds' = W
  OBVIOUS
<1> HIDE DEF W
<1> QED BY <1>1, <1>2, <1>3

\* The numbers of what is under way stay below the latest one when only such numbers
\* are added.
LEMMA BoundedKeeps ==
  ASSUME Bounded, tag' = tag, DOMAIN streams' \subseteq 0 .. tag,
         \A c \in DOMAIN cmds' : c \in DOMAIN cmds \/ c.tag \in 0 .. tag,
         \A m \in DOMAIN msgs' : \/ m \in DOMAIN msgs
                                 \/ /\ m.type \in Kinds => m.tag \in 0 .. tag
                                    /\ m.type = "streamingReady" => m.streamer \in {0, m.tag}
  PROVE  Bounded'
BY DEF Bounded

\* What every step needs of the two invariants.
LEMMA Facts ==
  ASSUME RevisionsInv, LatestInv
  PROVE  /\ IsABag(cmds) /\ IsABag(msgs) /\ Bounded /\ DOMAIN streams \subseteq 0 .. tag
         /\ streams \in [DOMAIN streams -> Stream] /\ 0 \notin DOMAIN streams
         /\ tag \in Nat /\ tag \in 0 .. tag /\ streamer \in {0} \cup DOMAIN streams
         /\ ~exposed => Latest
BY Unpack DEF LatestInv, CmdsOk, MsgsOk, StreamPart, LoadPart, Bounded

\* Opening a streamer takes the latest load to its announcement, or leaves it alone.
LEMMA LoadStreamingLatest ==
  ASSUME RevisionsInv, LatestInv, NEW c \in DOMAIN cmds, LoadStreaming(c)
  PROVE  LatestInv'
<1>1. /\ IsABag(cmds) /\ IsABag(msgs) /\ Bounded /\ DOMAIN streams \subseteq 0 .. tag
      /\ tag \in Nat /\ tag \in 0 .. tag /\ (~exposed => Latest)
  BY Facts
<1>2. /\ c.type = "loadStreaming" /\ cmds' = Without(cmds, c) /\ tag' = tag /\ pending' = pending
      /\ streamer' = streamer /\ offScreenRows' = offScreenRows /\ rows' = rows /\ hasMore' = hasMore
      /\ exposed' = exposed
  BY DEF LoadStreaming, listVars, loadVars
<1>3. DOMAIN cmds' \subseteq DOMAIN cmds
  BY <1>1, <1>2, WithoutBag
<1>4. OwnStreamer => OwnStreamer'
  BY <1>3 DEF OwnStreamer
<1>5. CASE c.tag # tag /\ streams' = streams /\ msgs' = msgs
  <2>1. Bounded'
    BY <1>1, <1>2, <1>3, <1>5, BoundedKeeps
  <2>2. CmdsOf(cmds', tag) = CmdsOf(cmds, tag)
    BY <1>1, <1>2, <1>5, CmdTaken
  <2>3. ASSUME Latest PROVE Latest'
    BY <1>2, <1>4, <1>5, <2>2, <2>3, SameLoad DEF Latest
  <2> QED BY <1>1, <1>2, <2>1, <2>3 DEF LatestInv
<1>6. CASE /\ c.tag = tag /\ streams' = Opening(c.tag, TRUE)
           /\ msgs' = With(msgs, [type |-> "streamingReady", streamer |-> c.tag, tag |-> c.tag])
  <2>1. PICK m : m = [type |-> "streamingReady", streamer |-> c.tag, tag |-> c.tag]
    OBVIOUS
  <2>2. m.type = "streamingReady" /\ m.streamer = tag /\ m.tag = tag /\ OfLoad(m, tag) /\ msgs' = With(msgs, m)
    BY <1>6, <2>1 DEF OfLoad, Kinds
  <2>3. DOMAIN msgs' = DOMAIN msgs \cup {m}
    BY <1>1, <2>2, WithBag
  <2>4. DOMAIN streams' = DOMAIN streams \cup {tag}
    BY <1>6 DEF Opening
  <2>5. Bounded'
    BY <1>1, <1>2, <1>3, <2>2, <2>3, <2>4, BoundedKeeps
  <2>6. ASSUME Latest PROVE Latest'
    <3>1. Phase(c) /\ DOMAIN CmdsOf(cmds', tag) = {} /\ DOMAIN MsgsOf(msgs, tag) = {}
      BY <1>1, <1>2, <1>6, <2>6, TakeCmd
    <3>2. tag \notin DOMAIN streams /\ pending.tag = tag /\ streamer # tag
      BY <1>2, <3>1 DEF Phase
    <3>3. streams'[tag].pos = 0 /\ streams'[tag].open
      BY <1>6, <3>2 DEF Opening
    <3>4. DOMAIN MsgsOf(msgs', tag) = {m} /\ AtMostOne(MsgsOf(msgs', tag))
      BY <1>1, <2>2, <3>1, AddMsg
    <3>5. Phase(m)'
      BY <1>2, <2>2, <2>4, <3>2, <3>3 DEF Phase
    <3>6. Shown'
      BY <1>2, <3>2 DEF Shown
    <3> QED BY <1>2, <1>4, <2>6, <3>1, <3>4, <3>5, <3>6, OneMsg DEF Latest
  <2> QED BY <1>1, <1>2, <2>5, <2>6 DEF LatestInv
<1>7. CASE /\ c.tag = tag /\ streams' = streams
           /\ msgs' = With(msgs, [type |-> "streamingReady", streamer |-> 0, tag |-> c.tag])
  <2>1. PICK m : m = [type |-> "streamingReady", streamer |-> 0, tag |-> c.tag]
    OBVIOUS
  <2>2. m.type = "streamingReady" /\ m.streamer = 0 /\ m.tag = tag /\ OfLoad(m, tag) /\ msgs' = With(msgs, m)
    BY <1>7, <2>1 DEF OfLoad, Kinds
  <2>3. DOMAIN msgs' = DOMAIN msgs \cup {m}
    BY <1>1, <2>2, WithBag
  <2>4. Bounded'
    BY <1>1, <1>2, <1>3, <1>7, <2>2, <2>3, BoundedKeeps
  <2>5. ASSUME Latest PROVE Latest'
    <3>1. Phase(c) /\ DOMAIN CmdsOf(cmds', tag) = {} /\ DOMAIN MsgsOf(msgs, tag) = {}
      BY <1>1, <1>2, <1>7, <2>5, TakeCmd
    <3>2. tag \notin DOMAIN streams /\ pending.tag = tag /\ streamer # tag
      BY <1>2, <3>1 DEF Phase
    <3>3. DOMAIN MsgsOf(msgs', tag) = {m} /\ AtMostOne(MsgsOf(msgs', tag))
      BY <1>1, <2>2, <3>1, AddMsg
    <3>4. Phase(m)' /\ Shown'
      BY <1>2, <1>7, <2>2, <3>2 DEF Phase, Shown
    <3> QED BY <1>2, <1>4, <2>5, <3>1, <3>3, <3>4, OneMsg DEF Latest
  <2> QED BY <1>1, <1>2, <2>4, <2>5 DEF LatestInv
<1> QED BY <1>5, <1>6, <1>7 DEF LoadStreaming

\* Loading the whole log takes the latest load to its answer, or leaves it alone.
LEMMA LoadLatest ==
  ASSUME RevisionsInv, LatestInv, NEW c \in DOMAIN cmds, Load(c)
  PROVE  LatestInv'
<1>1. /\ IsABag(cmds) /\ IsABag(msgs) /\ Bounded /\ DOMAIN streams \subseteq 0 .. tag
      /\ tag \in Nat /\ tag \in 0 .. tag /\ (~exposed => Latest)
  BY Facts
<1>2. /\ c.type = "load" /\ cmds' = Without(cmds, c) /\ tag' = tag /\ pending' = pending
      /\ streamer' = streamer /\ offScreenRows' = offScreenRows /\ rows' = rows /\ hasMore' = hasMore
      /\ exposed' = exposed /\ c.tag \in 0 .. tag
  BY <1>1 DEF Load, listVars, loadVars, Bounded
<1>3. DOMAIN cmds' \subseteq DOMAIN cmds
  BY <1>1, <1>2, WithoutBag
<1>4. OwnStreamer => OwnStreamer'
  BY <1>3 DEF OwnStreamer
<1>5. CASE /\ streams' = Opening(c.tag, FALSE)
           /\ msgs' = With(msgs, [type |-> "updateRevisions", rows |-> Logs[repo], tag |-> c.tag])
  <2>1. PICK m : m = [type |-> "updateRevisions", rows |-> Logs[repo], tag |-> c.tag]
    OBVIOUS
  <2>2. m.type = "updateRevisions" /\ m.rows = Logs[repo] /\ m.tag = c.tag /\ msgs' = With(msgs, m)
    BY <1>5, <2>1
  <2>3. DOMAIN msgs' = DOMAIN msgs \cup {m} /\ (OfLoad(m, tag) <=> c.tag = tag)
    BY <1>1, <2>2, WithBag DEF OfLoad, Kinds
  <2>4. /\ DOMAIN streams' = DOMAIN streams \cup {c.tag}
        /\ \A s \in DOMAIN streams : streams'[s] = streams[s]
        /\ c.tag \notin DOMAIN streams => streams'[c.tag].log = Logs[repo]
    BY <1>5 DEF Opening
  <2>5. Bounded'
    BY <1>1, <1>2, <1>3, <2>2, <2>3, <2>4, BoundedKeeps
  <2>6. ASSUME Latest, c.tag = tag PROVE Latest'
    <3>1. Phase(c) /\ DOMAIN CmdsOf(cmds', tag) = {} /\ DOMAIN MsgsOf(msgs, tag) = {}
      BY <1>1, <1>2, <2>6, TakeCmd
    <3>2. tag \notin DOMAIN streams /\ pending.tag = tag /\ streamer # tag
      BY <1>2, <3>1 DEF Phase
    <3>3. DOMAIN MsgsOf(msgs', tag) = {m} /\ AtMostOne(MsgsOf(msgs', tag))
      BY <1>1, <2>2, <2>3, <2>6, <3>1, AddMsg
    <3>4. Phase(m)' /\ Shown'
      BY <1>2, <2>2, <2>4, <2>6, <3>2 DEF Phase, Shown
    <3> QED BY <1>2, <1>4, <2>6, <3>1, <3>3, <3>4, OneMsg DEF Latest
  <2>7. ASSUME Latest, c.tag # tag PROVE Latest'
    <3>1. CmdsOf(cmds', tag) = CmdsOf(cmds, tag) /\ MsgsOf(msgs', tag) = MsgsOf(msgs, tag)
      <4>1. CmdsOf(cmds', tag) = CmdsOf(cmds, tag)
        BY <1>1, <1>2, <2>7, CmdTaken, Zenon
      <4>2. MsgsOf(msgs', tag) = MsgsOf(msgs, tag)
        BY <1>1, <2>2, <2>3, <2>7, AddMsg
      <4> QED BY <4>1, <4>2
    <3> QED BY <1>2, <1>4, <2>4, <2>7, <3>1, SameLoad DEF Latest
  <2> QED BY <1>1, <1>2, <2>5, <2>6, <2>7 DEF LatestInv
<1>6. CASE streams' = streams /\ msgs' = With(msgs, [type |-> "failed"])
  <2>1. PICK m : m = [type |-> "failed"]
    OBVIOUS
  <2>2. m.type = "failed" /\ ~OfLoad(m, tag) /\ msgs' = With(msgs, m)
    BY <1>6, <2>1 DEF OfLoad, Kinds
  <2>3. DOMAIN msgs' = DOMAIN msgs \cup {m}
    BY <1>1, <2>2, WithBag
  <2>4. Bounded'
    BY <1>1, <1>2, <1>3, <1>6, <2>2, <2>3, BoundedKeeps DEF Kinds
  <2>5. MsgsOf(msgs', tag) = MsgsOf(msgs, tag)
    BY <1>1, <2>2, MsgAdded
  <2>6. ASSUME Latest, c.tag = tag PROVE Latest'
    <3>1. Phase(c) /\ DOMAIN CmdsOf(cmds', tag) = {} /\ DOMAIN MsgsOf(msgs, tag) = {}
      BY <1>1, <1>2, <2>6, TakeCmd
    <3>2. tag \notin DOMAIN streams /\ pending.tag = tag /\ streamer # tag
      BY <1>2, <3>1 DEF Phase
    <3>3. Idle' /\ Shown'
      BY <1>2, <1>6, <3>2 DEF Idle, Shown
    <3> QED BY <1>2, <1>4, <2>5, <2>6, <3>1, <3>3, NothingUnderWay DEF Latest
  <2>7. ASSUME Latest, c.tag # tag PROVE Latest'
    <3>1. CmdsOf(cmds', tag) = CmdsOf(cmds, tag)
      BY <1>1, <1>2, <2>7, CmdTaken
    <3> QED BY <1>2, <1>4, <1>6, <2>5, <2>7, <3>1, SameLoad DEF Latest
  <2> QED BY <1>1, <1>2, <2>4, <2>6, <2>7 DEF LatestInv
<1> QED BY <1>5, <1>6 DEF Load

\* A batch of an open stream continues what has been collected.
LEMMA BatchContinues ==
  ASSUME NEW s \in Stream, s.pos <= Len(s.log), NEW off, off = SubSeq(s.log, 1, s.pos), NEW b, b = NextBatch(s)
  PROVE  /\ Len(b.rows) \in Nat /\ s.pos + Len(b.rows) <= Len(s.log)
         /\ off \o b.rows = SubSeq(s.log, 1, s.pos + Len(b.rows))
         /\ b.more \/ s.pos + Len(b.rows) = Len(s.log)
<1>1. s.log \in Seq(Commits) /\ s.pos \in Nat /\ Len(s.log) \in Nat
  BY DEF Stream
<1> DEFINE r == SubSeq(s.log, s.pos + 1, Len(s.log))
<1>2. Rest(s) = r
  BY DEF Rest
<1>3. \A k \in 0 .. Len(s.log) - s.pos :
        /\ SubSeq(s.log, 1, s.pos) \o SubSeq(r, 1, k) = SubSeq(s.log, 1, s.pos + k)
        /\ Len(r) = Len(s.log) - s.pos /\ Len(SubSeq(r, 1, k)) = k
  BY <1>1, NextRows
<1>4. Len(r) = Len(s.log) - s.pos
  BY <1>1, <1>3
<1>5. r \in Seq(Commits)
  BY <1>1
<1>6. SubSeq(r, 1, Len(r)) = r
  BY <1>5
<1> HIDE DEF r
<1>7. CASE Len(r) > BatchSize + 2
  <2>1. b = [rows |-> SubSeq(r, 1, BatchSize + 1), more |-> TRUE]
    BY <1>2, <1>7 DEF NextBatch
  <2>2. BatchSize + 1 \in 0 .. Len(s.log) - s.pos
    BY <1>1, <1>4, <1>7, BoundsAssumption
  <2>3. b.rows = SubSeq(r, 1, BatchSize + 1)
    <3> DEFINE q == SubSeq(r, 1, BatchSize + 1)
    <3>1. b = [rows |-> q, more |-> TRUE]
      BY <2>1
    <3> HIDE DEF q
    <3>2. b.rows = q
      BY <3>1
    <3> QED BY <3>2 DEF q
  <2>4. Len(b.rows) = BatchSize + 1 /\ off \o b.rows = SubSeq(s.log, 1, s.pos + (BatchSize + 1))
    BY <1>3, <2>2, <2>3
  <2>5. Len(b.rows) \in Nat /\ s.pos + Len(b.rows) <= Len(s.log)
    BY <1>1, <2>2, <2>4
  <2>6. b.more
    BY <2>1
  <2> QED BY <2>4, <2>5, <2>6
<1>8. CASE ~(Len(r) > BatchSize + 2)
  <2>1. b = [rows |-> r, more |-> FALSE]
    BY <1>2, <1>8 DEF NextBatch
  <2>2. Len(r) \in 0 .. Len(s.log) - s.pos
    BY <1>1, <1>4
  <2>3. b.rows = r
    BY <2>1
  <2>4. off \o b.rows = SubSeq(s.log, 1, s.pos + Len(r))
    BY <1>3, <1>6, <2>2, <2>3
  <2>5. Len(r) \in Nat /\ s.pos + Len(r) = Len(s.log) /\ s.pos + Len(r) <= Len(s.log)
    <3> HIDE DEF r
    <3> QED BY <1>1, <1>4
  <2>6. Len(b.rows) = Len(r)
    BY <2>3, Zenon
  <2> QED BY <2>4, <2>5, <2>6, Zenon
<1> QED BY <1>7, <1>8

\* The answer to a request is the next batch of the latest load, or of another one.
LEMMA RequestMoreLatest ==
  ASSUME RevisionsInv, LatestInv, NEW c \in DOMAIN cmds, RequestMore(c)
  PROVE  LatestInv'
<1> DEFINE s == streams[c.streamer]
<1>1. /\ IsABag(cmds) /\ IsABag(msgs) /\ Bounded /\ DOMAIN streams \subseteq 0 .. tag
      /\ tag \in Nat /\ tag \in 0 .. tag /\ (~exposed => Latest)
      /\ streams \in [DOMAIN streams -> Stream]
  BY Facts
<1>2. /\ c.type = "request" /\ cmds' = Without(cmds, c) /\ tag' = tag /\ pending' = pending
      /\ streamer' = streamer /\ offScreenRows' = offScreenRows /\ rows' = rows /\ hasMore' = hasMore
      /\ exposed' = exposed /\ c.tag \in 0 .. tag
  BY <1>1 DEF RequestMore, listVars, loadVars, Bounded
<1>3. DOMAIN cmds' \subseteq DOMAIN cmds
  BY <1>1, <1>2, WithoutBag
<1>4. OwnStreamer => OwnStreamer'
  BY <1>3 DEF OwnStreamer
<1>5. c.streamer \in DOMAIN streams
  BY <1>2, Unpack DEF CmdsOk, CmdOk
<1>6. PICK b \in {NextBatch(s)} \cup
                 (IF s.open THEN {} ELSE {[rows |-> SubSeq(Rest(s), 1, n), more |-> FALSE] : n \in 0 .. Len(Rest(s))}) :
        /\ streams' = [streams EXCEPT ![c.streamer].pos = @ + Len(b.rows)]
        /\ msgs' = With(msgs, [type |-> "append", streamer |-> c.streamer, tag |-> c.tag,
                               rows |-> b.rows, more |-> b.more])
  BY DEF RequestMore
<1>7. PICK m : m = [type |-> "append", streamer |-> c.streamer, tag |-> c.tag, rows |-> b.rows, more |-> b.more]
  OBVIOUS
<1>8. /\ m.type = "append" /\ m.streamer = c.streamer /\ m.tag = c.tag /\ m.rows = b.rows /\ m.more = b.more
      /\ msgs' = With(msgs, m) /\ (OfLoad(m, tag) <=> c.tag = tag)
  BY <1>6, <1>7 DEF OfLoad, Kinds
<1>9. DOMAIN streams' = DOMAIN streams /\ \A u \in DOMAIN streams : u # c.streamer => streams'[u] = streams[u]
  BY <1>1, <1>6
<1>10. Bounded'
  <2>1. DOMAIN msgs' = DOMAIN msgs \cup {m}
    BY <1>1, <1>8, AddMsg
  <2> QED BY <1>1, <1>2, <1>3, <1>8, <1>9, <2>1, BoundedKeeps
<1>11. ASSUME Latest, c.tag # tag PROVE Latest'
  <2>1. c.streamer # tag
    BY <1>2, <1>11 DEF Latest, OwnStreamer
  <2>2. CmdsOf(cmds', tag) = CmdsOf(cmds, tag)
    BY <1>1, <1>2, <1>11, CmdTaken
  <2>3. MsgsOf(msgs', tag) = MsgsOf(msgs, tag)
    BY <1>1, <1>8, <1>11, AddMsg
  <2> QED BY <1>2, <1>4, <1>9, <1>11, <2>1, <2>2, <2>3, SameLoad DEF Latest
<1>12. ASSUME Latest, c.tag = tag PROVE Latest'
  <2>1. Phase(c) /\ DOMAIN CmdsOf(cmds', tag) = {} /\ DOMAIN MsgsOf(msgs, tag) = {}
    BY <1>1, <1>2, <1>12, TakeCmd
  <2>2. streamer = tag /\ c.streamer = tag /\ tag \in DOMAIN streams /\ s.open /\ Collected(offScreenRows)
    BY <1>2, <2>1 DEF Phase
  <2>3. s \in Stream /\ b = NextBatch(s)
    BY <1>1, <1>5, <1>6, <2>2
  <2>4. s.pos <= Len(s.log) /\ offScreenRows = SubSeq(s.log, 1, s.pos)
    BY <2>2 DEF Collected
  <2> HIDE DEF s
  <2>5. /\ Len(b.rows) \in Nat /\ s.pos + Len(b.rows) <= Len(s.log)
        /\ offScreenRows \o b.rows = SubSeq(s.log, 1, s.pos + Len(b.rows))
        /\ b.more \/ s.pos + Len(b.rows) = Len(s.log)
    BY <2>3, <2>4, BatchContinues
  <2>6. streams'[tag] = [s EXCEPT !.pos = @ + Len(b.rows)]
    BY <1>1, <1>6, <2>2 DEF s
  <2>7. streams'[tag].log = s.log /\ streams'[tag].open = s.open /\ streams'[tag].pos = s.pos + Len(b.rows)
    BY <2>3, <2>6 DEF Stream
  <2>8. Collected(offScreenRows \o m.rows)'
    BY <1>2, <1>8, <2>5, <2>7 DEF Collected
  <2>9. Phase(m)'
    BY <1>2, <1>8, <1>9, <2>2, <2>5, <2>7, <2>8 DEF Phase
  <2>10. Shown'
    BY <1>2, <1>9, <1>12, <2>2, <2>7 DEF Latest, Shown, s
  <2>11. DOMAIN MsgsOf(msgs', tag) = {m} /\ AtMostOne(MsgsOf(msgs', tag))
    BY <1>1, <1>8, <1>12, <2>1, AddMsg
  <2> QED BY <1>2, <1>4, <1>12, <2>1, <2>9, <2>10, <2>11, OneMsg DEF Latest
<1> QED BY <1>1, <1>2, <1>10, <1>11, <1>12 DEF LatestInv

\* A refresh starts the load that is the latest from now on.
LEMMA RefreshLatest ==
  ASSUME RevisionsInv, LatestInv, NEW sel, NEW keep, refresh(sel, keep), DOMAIN msgs' \subseteq DOMAIN msgs
  PROVE  LatestInv'
<1>1. /\ IsABag(cmds) /\ IsABag(msgs) /\ Bounded /\ DOMAIN streams \subseteq 0 .. tag
      /\ tag \in Nat /\ tag \in 0 .. tag /\ (~exposed => Latest) /\ streamer \in {0} \cup DOMAIN streams
  BY Facts
<1>2. PICK c : c = [type |-> IF batching THEN "loadStreaming" ELSE "load", tag |-> tag + 1]
  OBVIOUS
<1>3. /\ tag' = tag + 1 /\ pending' = [tag |-> tag + 1, sel |-> sel, keep |-> keep] /\ streams' = streams
      /\ streamer' = streamer /\ exposed' = exposed /\ cmds' = With(cmds, c)
  BY <1>2 DEF refresh
<1>4. c.type \in {"loadStreaming", "load"} /\ c.tag = tag + 1 /\ pending'.tag = tag'
  BY <1>2, <1>3
<1>5. \A k \in 0 .. tag : k \in 0 .. tag' /\ k # tag'
  BY <1>1, <1>3
<1>6. tag' \in 0 .. tag'
  BY <1>1, <1>3
<1>7. DOMAIN cmds' = DOMAIN cmds \cup {c}
  BY <1>1, <1>3, AddCmd
<1>8. Bounded'
  BY <1>1, <1>3, <1>4, <1>5, <1>6, <1>7 DEF Bounded
<1>9. ASSUME OwnStreamer PROVE Latest'
  <2>1. DOMAIN CmdsOf(cmds, tag') = {}
    BY <1>1, <1>5 DEF CmdsOf, Bounded
  <2>2. DOMAIN MsgsOf(msgs', tag') = {}
    BY <1>1, <1>5 DEF MsgsOf, OfLoad, Bounded
  <2>3. DOMAIN CmdsOf(cmds', tag') = {c} /\ AtMostOne(CmdsOf(cmds', tag'))
    BY <1>1, <1>3, <1>4, <2>1, AddCmd
  <2>4. OwnStreamer'
    BY <1>4, <1>7, <1>9 DEF OwnStreamer
  <2>5. tag' \notin DOMAIN streams'
    BY <1>1, <1>3, <1>5
  <2>6. Shown'
    BY <2>5 DEF Shown
  <2>7. streamer' # tag'
    BY <1>1, <1>3, <1>5
  <2>8. Phase(c)'
    BY <1>4, <2>5, <2>7 DEF Phase
  <2> QED BY <2>2, <2>3, <2>4, <2>6, <2>8, OneCmd
<1> QED BY <1>1, <1>3, <1>8, <1>9 DEF LatestInv, Latest

\* A message that is not of the latest load is handled, or comes.
LEMMA OtherMsg ==
  ASSUME LatestInv, IsABag(msgs), tag' = tag, exposed' = exposed, cmds' = cmds, streams' = streams,
         pending' = pending, streamer' = streamer, offScreenRows' = offScreenRows, rows' = rows, hasMore' = hasMore,
         \/ \E m \in DOMAIN msgs : ~OfLoad(m, tag) /\ msgs' = Without(msgs, m)
         \/ \E m : m.type \notin Kinds /\ msgs' = With(msgs, m)
  PROVE  LatestInv'
<1>1. Bounded /\ DOMAIN streams \subseteq 0 .. tag
  BY DEF LatestInv, Bounded
<1>2. MsgsOf(msgs', tag) = MsgsOf(msgs, tag) /\ \A m \in DOMAIN msgs' : m \in DOMAIN msgs \/ m.type \notin Kinds
  <2>1. ASSUME NEW m \in DOMAIN msgs, ~OfLoad(m, tag), msgs' = Without(msgs, m)
        PROVE  MsgsOf(msgs', tag) = MsgsOf(msgs, tag) /\ DOMAIN msgs' \subseteq DOMAIN msgs
    BY <2>1, MsgTaken, WithoutBag
  <2>2. ASSUME NEW m, m.type \notin Kinds, msgs' = With(msgs, m)
        PROVE  MsgsOf(msgs', tag) = MsgsOf(msgs, tag) /\ DOMAIN msgs' = DOMAIN msgs \cup {m}
    BY <2>2, AddMsg DEF OfLoad
  <2> QED BY <2>1, <2>2
<1>3. Bounded'
  BY <1>1, <1>2, BoundedKeeps DEF Kinds
<1>4. ASSUME Latest PROVE Latest'
  <2>1. OwnStreamer'
    BY <1>4 DEF Latest, OwnStreamer
  <2> QED BY <1>2, <1>4, <2>1, SameLoad
<1> QED BY <1>3, <1>4 DEF LatestInv

\* A log is its own longest prefix, and its beginnings are prefixes.
LEMMA WholeLog ==
  ASSUME NEW log \in Seq(Commits)
  PROVE  /\ SubSeq(log, 1, Len(log)) = log
         /\ \A n \in Nat : n <= Len(log) => IsPrefix(SubSeq(log, 1, n), log)
<1>1. SubSeq(log, 1, Len(log)) = log
  OBVIOUS
<1>2. ASSUME NEW n \in Nat, n <= Len(log) PROVE IsPrefix(SubSeq(log, 1, n), log)
  <2>1. Len(SubSeq(log, 1, n)) = n
    BY <1>2
  <2> QED BY <1>2, <2>1 DEF IsPrefix
<1> QED BY <1>1, <1>2

\* A log that was loaded in one piece is shown if it is the latest, and dropped if
\* not.
LEMMA UpdateRevisionsLatest ==
  ASSUME RevisionsInv, LatestInv, NEW m \in DOMAIN msgs, UpdateRevisions(m)
  PROVE  LatestInv'
<1>1. /\ IsABag(cmds) /\ IsABag(msgs) /\ Bounded /\ DOMAIN streams \subseteq 0 .. tag
      /\ tag \in Nat /\ tag \in 0 .. tag /\ (~exposed => Latest)
      /\ streams \in [DOMAIN streams -> Stream] /\ 0 \notin DOMAIN streams
  BY Facts
<1>2. /\ m.type = "updateRevisions" /\ msgs' = Without(msgs, m) /\ tag' = tag /\ offScreenRows' = offScreenRows
      /\ streamer' = streamer /\ hasMore' = hasMore /\ streams' = streams /\ cmds' = cmds /\ exposed' = exposed
  BY DEF UpdateRevisions
<1>3. CASE m.tag # tag
  <2>1. rows' = rows /\ pending' = pending /\ ~OfLoad(m, tag)
    BY <1>3 DEF UpdateRevisions, OfLoad
  <2> QED BY <1>1, <1>2, <2>1, OtherMsg
<1>4. CASE m.tag = tag
  <2>1. OfLoad(m, tag) /\ rows' = m.rows /\ UseReload(m.tag)
    BY <1>2, <1>4 DEF UpdateRevisions, OfLoad, Kinds
  <2>2. Bounded'
    <3>1. DOMAIN msgs' \subseteq DOMAIN msgs
      BY <1>1, <1>2, WithoutBag
    <3> QED BY <1>1, <1>2, <3>1, BoundedKeeps
  <2>3. ASSUME Latest PROVE Latest'
    <3>1. Phase(m) /\ DOMAIN MsgsOf(msgs', tag) = {} /\ DOMAIN CmdsOf(cmds, tag) = {}
      BY <1>1, <1>2, <2>1, <2>3, TakeMsg
    <3>2. streamer # tag /\ tag \in DOMAIN streams /\ m.rows = streams[tag].log
      BY <1>2, <3>1 DEF Phase
    <3>3. streams[tag].log \in Seq(Commits) /\ Len(streams[tag].log) \in Nat
      BY <1>1, <3>2 DEF Stream
    <3>4. IsPrefix(rows', streams[tag].log)
      <4>1. rows' = streams[tag].log /\ SubSeq(streams[tag].log, 1, Len(streams[tag].log)) = streams[tag].log
        BY <2>1, <3>2, <3>3, WholeLog
      <4> QED BY <3>3, <4>1 DEF IsPrefix
    <3>5. Shown' /\ Idle'
      BY <1>2, <2>1, <3>2, <3>4 DEF Shown, Idle
    <3>6. OwnStreamer'
      BY <1>2, <2>3 DEF Latest, OwnStreamer
    <3> QED BY <1>2, <3>1, <3>5, <3>6, NothingUnderWay
  <2> QED BY <1>1, <1>2, <2>2, <2>3 DEF LatestInv
<1> QED BY <1>3, <1>4

\* What a request adds.
LEMMA RequestMade ==
  ASSUME NEW s, NEW t, NEW more, NEW flag, NEW bag, requestMoreRows(s, t, more, flag, bag)
  PROVE  \/ (flag \/ s = 0 \/ ~more \/ t # tag) /\ cmds' = cmds /\ exposed' = exposed
         \/ /\ s # 0 /\ more /\ t = tag
            /\ \E r : /\ r.type = "request" /\ r.streamer = s /\ r.tag = t /\ cmds' = With(cmds, r)
                      /\ exposed' <=> exposed \/ s # t \/ Answering(s, bag)
<1>1. CASE flag \/ s = 0 \/ ~more \/ t # tag
  BY <1>1 DEF requestMoreRows
<1>2. CASE ~(flag \/ s = 0 \/ ~more \/ t # tag)
  <2> DEFINE r == [type |-> "request", streamer |-> s, tag |-> t]
  <2>1. r.type = "request" /\ r.streamer = s /\ r.tag = t
    OBVIOUS
  <2>2. cmds' = With(cmds, r) /\ (exposed' <=> exposed \/ s # t \/ Answering(s, bag))
    BY <1>2 DEF requestMoreRows
  <2> HIDE DEF r
  <2> QED BY <1>2, <2>1, <2>2
<1> QED BY <1>1, <1>2

\* A request that nothing holds back.
LEMMA RequestSent ==
  ASSUME NEW s, NEW bag, s # 0, requestMoreRows(s, tag, TRUE, FALSE, bag)
  PROVE  \E r : /\ r.type = "request" /\ r.streamer = s /\ r.tag = tag /\ cmds' = With(cmds, r)
                /\ exposed' <=> exposed \/ s # tag \/ Answering(s, bag)
<1> DEFINE r == [type |-> "request", streamer |-> s, tag |-> tag]
<1>1. r.type = "request" /\ r.streamer = s /\ r.tag = tag
  OBVIOUS
<1>2. cmds' = With(cmds, r) /\ (exposed' <=> exposed \/ s # tag \/ Answering(s, bag))
  BY DEF requestMoreRows
<1> HIDE DEF r
<1> QED BY <1>1, <1>2

\* A streamer other than s stays as it is when s is closed.
LEMMA ClosingOthers ==
  ASSUME streams \in [DOMAIN streams -> Stream], NEW s, s \in {0} \cup DOMAIN streams, 0 \notin DOMAIN streams
  PROVE  /\ DOMAIN Closing(s) = DOMAIN streams
         /\ \A u \in DOMAIN streams : u # s => Closing(s)[u] = streams[u]
         /\ \A u \in DOMAIN streams : Closing(s)[u].log = streams[u].log /\ Closing(s)[u].pos = streams[u].pos
<1>1. CASE s = 0
  BY <1>1 DEF Closing
<1>2. CASE s # 0
  <2>1. Closing(s) = [streams EXCEPT ![s].open = FALSE] /\ s \in DOMAIN streams
    BY <1>2 DEF Closing
  <2>2. streams[s] \in Stream
    BY <2>1
  <2>3. /\ [streams[s] EXCEPT !.open = FALSE].log = streams[s].log
        /\ [streams[s] EXCEPT !.open = FALSE].pos = streams[s].pos
    BY <2>2 DEF Stream
  <2> QED BY <2>1, <2>3
<1> QED BY <1>1, <1>2

\* The announcement of an overtaken load leaves the latest one alone.
LEMMA StreamingStaleLatest ==
  ASSUME RevisionsInv, LatestInv, NEW m \in DOMAIN msgs, StreamingReady(m), StreamingReadyStale(m),
         msgs' = Without(msgs, m)
  PROVE  LatestInv'
<1>1. /\ IsABag(cmds) /\ IsABag(msgs) /\ Bounded /\ DOMAIN streams \subseteq 0 .. tag
      /\ (~exposed => Latest)
      /\ streams \in [DOMAIN streams -> Stream] /\ 0 \notin DOMAIN streams
  BY Facts
<1>2. /\ m.type = "streamingReady" /\ m.tag # tag /\ tag' = tag /\ offScreenRows' = offScreenRows /\ rows' = rows
      /\ streamer' = streamer /\ hasMore' = hasMore /\ streams' = Closing(m.streamer) /\ cmds' = cmds
      /\ exposed' = exposed /\ pending' = pending
  BY DEF StreamingReady, StreamingReadyStale, loadVars
<1>3. m.streamer \in {0, m.tag} /\ m.streamer \in {0} \cup DOMAIN streams
  BY <1>1, <1>2, Unpack DEF Bounded, MsgsOk, MsgOk
<1>4. DOMAIN streams' = DOMAIN streams /\ (tag \in DOMAIN streams => streams'[tag] = streams[tag])
  BY <1>1, <1>2, <1>3, ClosingOthers
<1>5. DOMAIN msgs' \subseteq DOMAIN msgs
  BY <1>1, WithoutBag
<1>6. Bounded'
  BY <1>1, <1>2, <1>4, <1>5, BoundedKeeps
<1>7. MsgsOf(msgs', tag) = MsgsOf(msgs, tag)
  BY <1>1, <1>2, MsgTaken DEF OfLoad
<1>8. ASSUME Latest PROVE Latest'
  <2>1. OwnStreamer'
    BY <1>2, <1>8 DEF Latest, OwnStreamer
  <2> QED BY <1>2, <1>4, <1>7, <1>8, <2>1, SameLoad
<1> QED BY <1>1, <1>2, <1>6, <1>8 DEF LatestInv

\* A streamer that could not be opened shows nothing.
LEMMA StreamingFailedLatest ==
  ASSUME RevisionsInv, LatestInv, NEW m \in DOMAIN msgs, StreamingReady(m), StreamingReadyFailed(m),
         msgs' = With(Without(msgs, m), [type |-> "failed"])
  PROVE  LatestInv'
<1>1. /\ IsABag(cmds) /\ IsABag(msgs) /\ Bounded /\ DOMAIN streams \subseteq 0 .. tag
      /\ (~exposed => Latest) /\ streamer \in {0} \cup DOMAIN streams
      /\ streams \in [DOMAIN streams -> Stream] /\ 0 \notin DOMAIN streams
  BY Facts
<1>2. /\ m.type = "streamingReady" /\ m.tag = tag /\ m.streamer = 0 /\ tag' = tag
      /\ streamer' = 0 /\ streams' = Closing(streamer) /\ cmds' = cmds /\ exposed' = exposed
  BY DEF StreamingReady, StreamingReadyFailed
<1>3. DOMAIN streams' = DOMAIN streams
  BY <1>1, <1>2, ClosingOthers
<1> DEFINE B == Without(msgs, m)
<1>4. IsABag(B) /\ DOMAIN B \subseteq DOMAIN msgs
  BY <1>1, WithoutBag
<1>5. PICK f : f = [type |-> "failed"]
  OBVIOUS
<1>6. f.type \notin Kinds /\ msgs' = With(B, f)
  BY <1>5 DEF Kinds
<1>7. OfLoad(m, tag) /\ ~OfLoad(f, tag)
  BY <1>2, <1>6 DEF OfLoad, Kinds
<1>8. ASSUME Latest PROVE DOMAIN MsgsOf(B, tag) = {} /\ DOMAIN CmdsOf(cmds, tag) = {} /\ Phase(m)
  BY <1>1, <1>7, <1>8, TakeMsg
<1> HIDE DEF B
<1>9. DOMAIN msgs' = DOMAIN B \cup {f} /\ MsgsOf(msgs', tag) = MsgsOf(B, tag)
  <2>1. DOMAIN With(B, f) = DOMAIN B \cup {f} /\ MsgsOf(With(B, f), tag) = MsgsOf(B, tag)
    BY <1>4, <1>7, WithBag, MsgAdded
  <2> QED BY <1>6, <2>1
<1>10. Bounded'
  BY <1>1, <1>2, <1>3, <1>4, <1>6, <1>9, BoundedKeeps DEF Kinds
<1>11. ASSUME Latest PROVE Latest'
  <2>1. tag \notin DOMAIN streams
    BY <1>1, <1>2, <1>8, <1>11 DEF Phase
  <2>2. Shown' /\ Idle'
    BY <1>2, <1>3, <2>1 DEF Shown, Idle
  <2>3. OwnStreamer'
    BY <1>2, <1>11 DEF Latest, OwnStreamer
  <2> QED BY <1>2, <1>8, <1>9, <1>11, <2>2, <2>3, NothingUnderWay
<1> QED BY <1>1, <1>2, <1>10, <1>11 DEF LatestInv

\* The streamer of the latest load is taken with nothing read, and asked for a batch.
LEMMA StreamingOpenedLatest ==
  ASSUME RevisionsInv, LatestInv, NEW m \in DOMAIN msgs, StreamingReady(m), StreamingReadyOpened(m),
         msgs' = Without(msgs, m)
  PROVE  LatestInv'
<1>1. /\ IsABag(cmds) /\ IsABag(msgs) /\ Bounded /\ DOMAIN streams \subseteq 0 .. tag /\ tag \in 0 .. tag
      /\ (~exposed => Latest) /\ streamer \in {0} \cup DOMAIN streams
      /\ streams \in [DOMAIN streams -> Stream] /\ 0 \notin DOMAIN streams
  BY Facts
<1>2. /\ m.type = "streamingReady" /\ m.tag = tag /\ m.streamer # 0 /\ tag' = tag /\ offScreenRows' = <<>>
      /\ streamer' = m.streamer /\ streams' = Closing(streamer) /\ CaptureSelection(m)
      /\ requestMoreRows(m.streamer, m.tag, TRUE, FALSE, msgs)
  BY DEF StreamingReady, StreamingReadyOpened
<1>3. PICK r : /\ r.type = "request" /\ r.streamer = m.streamer /\ r.tag = tag /\ cmds' = With(cmds, r)
               /\ exposed' <=> exposed \/ m.streamer # tag \/ Answering(m.streamer, msgs)
  BY <1>2, RequestSent
<1>4. DOMAIN cmds' = DOMAIN cmds \cup {r}
  BY <1>1, <1>3, AddCmd
<1>5. DOMAIN streams' = DOMAIN streams /\ DOMAIN msgs' \subseteq DOMAIN msgs
  BY <1>1, <1>2, ClosingOthers, WithoutBag
<1>6. Bounded'
  BY <1>1, <1>2, <1>3, <1>4, <1>5, BoundedKeeps
<1>7. OfLoad(m, tag)
  BY <1>2 DEF OfLoad, Kinds
<1>8. ASSUME Latest PROVE Latest'
  <2>1. Phase(m) /\ DOMAIN MsgsOf(msgs', tag) = {} /\ DOMAIN CmdsOf(cmds, tag) = {}
    BY <1>1, <1>7, <1>8, TakeMsg
  <2>2. /\ m.streamer = tag /\ tag \in DOMAIN streams /\ streams[tag].pos = 0 /\ streams[tag].open
        /\ streamer # tag /\ pending.tag = tag
    BY <1>2, <2>1 DEF Phase
  <2>3. streams'[tag] = streams[tag] /\ streams[tag] \in Stream
    BY <1>1, <1>2, <2>2, ClosingOthers
  <2>4. DOMAIN CmdsOf(cmds', tag) = {r} /\ AtMostOne(CmdsOf(cmds', tag))
    BY <1>1, <1>3, <2>1, AddCmd
  <2>5. OwnStreamer'
    BY <1>3, <1>4, <1>8, <2>2 DEF Latest, OwnStreamer
  <2>6. pending'.tag = tag
    <3>1. pending \in [tag : 0 .. MaxTag, sel : Names, keep : BOOLEAN]
      BY Unpack DEF LoadPart
    <3> QED BY <1>2, <2>2, <3>1 DEF CaptureSelection
  <2>7. Shown'
    BY <1>2, <2>6 DEF Shown
  <2>8. streams[tag].log \in Seq(Commits)
    BY <2>3 DEF Stream
  <2>9. 0 <= Len(streams[tag].log) /\ SubSeq(streams[tag].log, 1, 0) = <<>>
    BY <2>8
  <2>10. Collected(offScreenRows)'
    BY <1>2, <2>2, <2>3, <2>9 DEF Collected
  <2>11. Phase(r)'
    BY <1>2, <1>3, <1>5, <2>2, <2>3, <2>10 DEF Phase
  <2> QED BY <1>2, <2>1, <2>4, <2>5, <2>7, <2>11, OneCmd
<1> QED BY <1>1, <1>3, <1>6, <1>8 DEF LatestInv

\* A batch of the latest load continues what has been collected; any other one is
\* dropped.
LEMMA AppendLatest ==
  ASSUME RevisionsInv, LatestInv, NEW m \in DOMAIN msgs, AppendRowsBatch(m)
  PROVE  LatestInv'
<1>1. /\ IsABag(cmds) /\ IsABag(msgs) /\ Bounded /\ DOMAIN streams \subseteq 0 .. tag /\ tag \in 0 .. tag
      /\ (~exposed => Latest) /\ streamer \in {0} \cup DOMAIN streams
      /\ streams \in [DOMAIN streams -> Stream] /\ 0 \notin DOMAIN streams
  BY Facts
<1>2. /\ m.type = "append" /\ msgs' = Without(msgs, m) /\ tag' = tag /\ streamer' = streamer
  BY DEF AppendRowsBatch
<1>3. DOMAIN msgs' \subseteq DOMAIN msgs
  BY <1>1, <1>2, WithoutBag
<1>4. CASE AppendRowsStale(m)
  <2>1. /\ m.tag # tag /\ rows' = rows /\ offScreenRows' = offScreenRows /\ pending' = pending /\ hasMore' = hasMore
        /\ streams' = streams /\ cmds' = cmds /\ exposed' = exposed /\ ~OfLoad(m, tag)
    BY <1>4 DEF AppendRowsStale, OfLoad
  <2> QED BY <1>1, <1>2, <2>1, OtherMsg
<1>5. CASE AppendRowsCurrent(m)
  <2> DEFINE collected == offScreenRows \o m.rows
  <2>1. /\ m.tag = tag /\ offScreenRows' = collected /\ hasMore' = m.more /\ OfLoad(m, tag)
        /\ \/ m.more /\ CollectRows(m, collected) /\ streams' = streams
           \/ m.more /\ ShowRows(m.tag, collected) /\ streams' = streams
           \/ ~m.more /\ ShowRows(m.tag, collected) /\ streams' = Closing(streamer)
    BY <1>2, <1>5 DEF AppendRowsCurrent, OfLoad, Kinds
  <2>2. ASSUME Latest
        PROVE  /\ DOMAIN MsgsOf(msgs', tag) = {} /\ DOMAIN CmdsOf(cmds, tag) = {}
               /\ streamer = tag /\ tag \in DOMAIN streams /\ Collected(collected)
               /\ m.more => streams[tag].open
               /\ ~m.more => streams[tag].pos = Len(streams[tag].log)
               /\ streams[tag].log \in Seq(Commits) /\ streams[tag].pos \in Nat
    <3>1. Phase(m) /\ DOMAIN MsgsOf(msgs', tag) = {} /\ DOMAIN CmdsOf(cmds, tag) = {}
      BY <1>1, <1>2, <2>1, <2>2, TakeMsg
    <3>2. /\ streamer = tag /\ tag \in DOMAIN streams /\ Collected(collected)
          /\ m.more => streams[tag].open
          /\ ~m.more => streams[tag].pos = Len(streams[tag].log)
      BY <1>2, <3>1 DEF Phase
    <3>3. streams[tag] \in Stream
      BY <1>1, <3>2
    <3>4. streams[tag].log \in Seq(Commits) /\ streams[tag].pos \in Nat
      BY <3>3 DEF Stream
    <3> QED BY <3>1, <3>2, <3>4
  <2> HIDE DEF collected
  <2>3. CASE m.more /\ CollectRows(m, collected) /\ streams' = streams
    <3>1. requestMoreRows(streamer, tag, TRUE, FALSE, Without(msgs, m)) /\ rows' = rows /\ pending' = pending
      BY <2>1, <2>3 DEF CollectRows
    <3>2. CASE streamer = 0
      <4>1. cmds' = cmds /\ exposed' = exposed
        BY <3>1, <3>2 DEF requestMoreRows
      <4>2. Bounded'
        BY <1>1, <1>2, <1>3, <2>3, <4>1, BoundedKeeps
      <4>3. ~Latest
        BY <1>1, <2>2, <3>2
      <4> QED BY <1>1, <4>1, <4>2, <4>3 DEF LatestInv
    <3>3. CASE streamer # 0
      <4>1. PICK r : /\ r.type = "request" /\ r.streamer = streamer /\ r.tag = tag /\ cmds' = With(cmds, r)
                     /\ exposed' <=> exposed \/ streamer # tag \/ Answering(streamer, Without(msgs, m))
        BY <3>1, <3>3, RequestSent
      <4>2. DOMAIN cmds' = DOMAIN cmds \cup {r}
        BY <1>1, <4>1, AddCmd
      <4>3. Bounded'
        BY <1>1, <1>2, <1>3, <2>3, <4>1, <4>2, BoundedKeeps
      <4>4. ASSUME Latest PROVE Latest'
        <5>1. DOMAIN CmdsOf(cmds', tag) = {r} /\ AtMostOne(CmdsOf(cmds', tag))
          BY <1>1, <2>2, <4>1, <4>4, AddCmd
        <5>2. OwnStreamer'
          BY <2>2, <4>1, <4>2, <4>4 DEF Latest, OwnStreamer
        <5>3. Collected(offScreenRows)'
          BY <1>2, <2>1, <2>2, <2>3, <4>4 DEF Collected
        <5>4. Phase(r)'
          BY <1>2, <2>2, <2>3, <4>1, <4>4, <5>3 DEF Phase
        <5>5. Shown'
          <6>1. offScreenRows \in Seq(Commits) /\ m.rows \in Seq(Commits) /\ rows \in Seq(Commits)
            BY <1>2, Unpack DEF ListPart, MsgsOk, MsgOk
          <6>2. Len(rows) <= Len(offScreenRows) => Len(rows) <= Len(offScreenRows')
            <7>1. offScreenRows' = offScreenRows \o m.rows
              BY <2>1 DEF collected
            <7>2. Len(offScreenRows \o m.rows) = Len(offScreenRows) + Len(m.rows)
              BY <6>1
            <7>3. Len(rows) \in Nat /\ Len(offScreenRows) \in Nat /\ Len(m.rows) \in Nat
              BY <6>1
            <7> QED BY <7>1, <7>2, <7>3
          <6> QED BY <1>2, <2>1, <2>3, <3>1, <4>4, <6>2 DEF Latest, Shown
        <5> QED BY <1>2, <2>2, <4>4, <5>1, <5>2, <5>4, <5>5, OneCmd
      <4> QED BY <1>1, <4>1, <4>3, <4>4 DEF LatestInv
    <3> QED BY <3>2, <3>3
  <2>4. ASSUME ShowRows(m.tag, collected),
               \/ m.more /\ streams' = streams
               \/ ~m.more /\ streams' = Closing(streamer)
        PROVE  LatestInv'
    <3>1. rows' = collected /\ cmds' = cmds /\ exposed' = exposed
      BY <2>4 DEF ShowRows
    <3>2. /\ DOMAIN streams' = DOMAIN streams
          /\ \A u \in DOMAIN streams : streams'[u].log = streams[u].log /\ streams'[u].pos = streams[u].pos
          /\ m.more => streams' = streams
      BY <1>1, <2>4, ClosingOthers
    <3>3. Bounded'
      BY <1>1, <1>2, <1>3, <3>1, <3>2, BoundedKeeps
    <3>4. ASSUME Latest PROVE Latest'
      <4>1. /\ streams'[tag].log = streams[tag].log /\ streams'[tag].pos = streams[tag].pos
            /\ streams[tag].pos <= Len(streams[tag].log)
            /\ collected = SubSeq(streams[tag].log, 1, streams[tag].pos)
        BY <2>2, <3>2, <3>4 DEF Collected
      <4>2. Collected(offScreenRows)'
        BY <1>2, <2>1, <4>1 DEF Collected
      <4>3. Idle'
        BY <1>2, <2>1, <2>2, <3>2, <3>4, <4>2 DEF Idle
      <4>4. IsPrefix(collected, streams[tag].log)
        BY <2>2, <3>4, <4>1, WholeLog
      <4>5. ~m.more => collected = streams[tag].log
        BY <2>2, <3>4, <4>1, WholeLog
      <4>6. Shown'
        <5>1. Len(collected) <= Len(collected)
          BY <2>2, <3>4, <4>1
        <5> QED BY <1>2, <2>1, <3>1, <4>1, <4>4, <4>5, <5>1 DEF Shown
      <4>7. OwnStreamer'
        BY <3>1, <3>4 DEF Latest, OwnStreamer
      <4> QED BY <1>2, <2>2, <3>1, <3>4, <4>3, <4>6, <4>7, NothingUnderWay
    <3> QED BY <1>1, <3>1, <3>3, <3>4 DEF LatestInv
  <2>5. CASE m.more /\ ShowRows(m.tag, collected) /\ streams' = streams
    BY <2>4, <2>5, Zenon
  <2>6. CASE ~m.more /\ ShowRows(m.tag, collected) /\ streams' = Closing(streamer)
    BY <2>4, <2>6, Zenon
  <2> QED BY <2>1, <2>3, <2>5, <2>6, Zenon
<1> QED BY <1>4, <1>5 DEF AppendRowsBatch

\* A key asks the streamer at hand for more, or nothing.
LEMMA KeyLatest ==
  ASSUME RevisionsInv, LatestInv, UnchangedByUser,
         AskForMore \/ UNCHANGED <<requestInFlight, cmds, exposed>>
  PROVE  LatestInv'
<1>1. /\ IsABag(cmds) /\ IsABag(msgs) /\ Bounded /\ DOMAIN streams \subseteq 0 .. tag /\ tag \in 0 .. tag
      /\ (~exposed => Latest) /\ streamer \in {0} \cup DOMAIN streams /\ 0 \notin DOMAIN streams
  BY Facts
<1>2. /\ tag' = tag /\ pending' = pending /\ streamer' = streamer /\ streams' = streams /\ msgs' = msgs
      /\ rows' = rows /\ offScreenRows' = offScreenRows /\ hasMore' = hasMore
  BY DEF UnchangedByUser
<1>3. CASE cmds' = cmds /\ exposed' = exposed
  <2>1. Bounded'
    BY <1>1, <1>2, <1>3, BoundedKeeps
  <2>2. ASSUME Latest PROVE Latest'
    <3>1. OwnStreamer'
      BY <1>3, <2>2 DEF Latest, OwnStreamer
    <3> QED BY <1>2, <1>3, <2>2, <3>1, SameLoad
  <2> QED BY <1>1, <1>3, <2>1, <2>2 DEF LatestInv
<1>4. ASSUME NEW r, r.type = "request", r.streamer = streamer, r.tag = tag, cmds' = With(cmds, r),
             exposed' <=> exposed \/ streamer # tag \/ Answering(streamer, msgs),
             streamer # 0, hasMore
      PROVE  LatestInv'
  <2>1. DOMAIN cmds' = DOMAIN cmds \cup {r}
    BY <1>1, <1>4, AddCmd
  <2>2. Bounded'
    BY <1>1, <1>2, <1>4, <2>1, BoundedKeeps
  <2>3. ASSUME ~exposed' PROVE Latest'
    <3>1. Latest /\ streamer = tag /\ ~Answering(streamer, msgs)
      BY <1>1, <1>4, <2>3
    <3>2. /\ \A c \in DOMAIN cmds : ~(c.type = "request" /\ c.streamer = tag)
          /\ \A n \in DOMAIN msgs : ~(n.type = "append" /\ n.streamer = tag)
      BY <3>1 DEF Answering, Pending, BagToSet
    <3>3. DOMAIN CmdsOf(cmds, tag) = {}
      <4>1. ASSUME NEW c \in DOMAIN CmdsOf(cmds, tag) PROVE FALSE
        <5>1. c \in DOMAIN cmds /\ Phase(c)
          BY <3>1, <4>1 DEF Latest, Phases, CmdsOf
        <5>2. c.type \in {"request", "loadStreaming", "load"}
          BY <5>1, Unpack DEF CmdsOk, CmdOk
        <5> QED BY <3>1, <3>2, <5>1, <5>2 DEF Phase
      <4> QED BY <4>1
    <3>4. DOMAIN MsgsOf(msgs, tag) = {}
      <4>1. ASSUME NEW n \in DOMAIN MsgsOf(msgs, tag) PROVE FALSE
        <5>1. n \in DOMAIN msgs /\ n.type \in Kinds /\ Phase(n)
          BY <3>1, <4>1 DEF Latest, Phases, MsgsOf, OfLoad
        <5> QED BY <3>1, <3>2, <5>1 DEF Phase, Kinds
      <4> QED BY <4>1
    <3>5. tag \in DOMAIN streams /\ Collected(offScreenRows) /\ streams[tag].open
      BY <1>4, <3>1, <3>3, <3>4 DEF Latest, Resting, Idle
    <3>6. DOMAIN CmdsOf(cmds', tag) = {r} /\ AtMostOne(CmdsOf(cmds', tag))
      BY <1>1, <1>4, <3>3, AddCmd
    <3>7. OwnStreamer'
      BY <1>4, <2>1, <3>1 DEF Latest, OwnStreamer
    <3>8. Collected(offScreenRows)' /\ Shown'
      BY <1>2, <3>1, <3>5 DEF Collected, Latest, Shown
    <3>9. Phase(r)'
      BY <1>2, <1>4, <3>1, <3>5, <3>8 DEF Phase
    <3> QED BY <1>2, <3>4, <3>6, <3>7, <3>8, <3>9, OneCmd
  <2> QED BY <2>2, <2>3 DEF LatestInv
<1>5. CASE AskForMore
  <2>1. requestMoreRows(streamer, tag, hasMore, requestInFlight, msgs)
    BY <1>5 DEF AskForMore
  <2>2. \/ cmds' = cmds /\ exposed' = exposed
        \/ /\ streamer # 0 /\ hasMore
           /\ \E r : /\ r.type = "request" /\ r.streamer = streamer /\ r.tag = tag /\ cmds' = With(cmds, r)
                     /\ exposed' <=> exposed \/ streamer # tag \/ Answering(streamer, msgs)
    BY <2>1, RequestMade
  <2> QED BY <1>3, <1>4, <2>2
<1> QED BY <1>3, <1>5

-----------------------------------------------------------------------------
\* The second invariant holds at the start.
LEMMA LatestInit == Init => LatestInv
<1> SUFFICES ASSUME Init PROVE LatestInv
  OBVIOUS
<1> DEFINE m == Refreshing("@", FALSE)
<1>1. tag = 0 /\ streams = <<>> /\ cmds = EmptyBag /\ msgs = SetToBag({m})
  BY DEF Init
<1>2. DOMAIN streams = {} /\ DOMAIN cmds = {} /\ DOMAIN msgs = {m}
  BY <1>1 DEF EmptyBag, SetToBag
<1>3. m.type \notin Kinds
  BY DEF Refreshing, Kinds
<1> HIDE DEF m
<1>4. Bounded /\ OwnStreamer
  BY <1>2, <1>3 DEF Bounded, OwnStreamer, Kinds
<1>5. DOMAIN CmdsOf(cmds, tag) = {} /\ DOMAIN MsgsOf(msgs, tag) = {}
  BY <1>2, <1>3 DEF CmdsOf, MsgsOf, OfLoad
<1>6. Single /\ Phases
  BY <1>5 DEF Single, Phases, AtMostOne
<1>7. Resting /\ Shown
  BY <1>1, <1>2 DEF Resting, Idle, Shown
<1> QED BY <1>4, <1>6, <1>7 DEF LatestInv, Latest

\* Every step keeps the second invariant: one case per action of Next.
LEMMA LatestStep == RevisionsInv /\ LatestInv /\ [Next]_vars => LatestInv'
<1> SUFFICES ASSUME RevisionsInv, LatestInv, [Next]_vars PROVE LatestInv'
  OBVIOUS
<1>1. IsABag(msgs) /\ Bounded
  BY Facts
<1>2. ASSUME NEW c \in Pending(cmds), Run(c) PROVE LatestInv'
  <2>1. c \in DOMAIN cmds
    BY DEF Pending, BagToSet
  <2> QED BY <1>2, <2>1, LoadStreamingLatest, LoadLatest, RequestMoreLatest DEF Run
<1>3. ASSUME NEW m \in Pending(msgs), Handle(m) PROVE LatestInv'
  <2>1. m \in DOMAIN msgs
    BY DEF Pending, BagToSet
  <2>2. CASE RefreshMsg(m)
    <3>1. refresh(m.sel, m.keep) /\ msgs' = Without(msgs, m)
      BY <2>2 DEF RefreshMsg
    <3>2. DOMAIN msgs' \subseteq DOMAIN msgs
      BY <1>1, <2>1, <3>1, WithoutBag
    <3> QED BY <3>1, <3>2, RefreshLatest
  <2>3. CASE UpdateRevisionsFailed(m)
    <3>1. /\ m.type = "failed" /\ msgs' = Without(msgs, m) /\ tag' = tag /\ exposed' = exposed /\ cmds' = cmds
          /\ streams' = streams /\ pending' = pending /\ streamer' = streamer /\ offScreenRows' = offScreenRows
          /\ rows' = rows /\ hasMore' = hasMore
      BY <2>3 DEF UpdateRevisionsFailed, listVars
    <3>2. ~OfLoad(m, tag)
      BY <3>1 DEF OfLoad, Kinds
    <3> QED BY <1>1, <2>1, <3>1, <3>2, OtherMsg
  <2>4. CASE StreamingReady(m)
    BY <2>1, <2>4, StreamingStaleLatest, StreamingFailedLatest, StreamingOpenedLatest DEF StreamingReady
  <2> QED BY <1>3, <2>1, <2>2, <2>3, <2>4, UpdateRevisionsLatest, AppendLatest DEF Handle
<1>4. ASSUME NEW sel \in Targets, NEW keep \in BOOLEAN, RefreshIntent(sel, keep) PROVE LatestInv'
  <2>1. refresh(sel, keep) /\ DOMAIN msgs' \subseteq DOMAIN msgs
    BY <1>4 DEF RefreshIntent
  <2> QED BY <2>1, RefreshLatest
<1>5. CASE AutoRefresh
  <2>1. PICK m : m = Refreshing("", TRUE)
    OBVIOUS
  <2>2. /\ msgs' = With(msgs, m) /\ tag' = tag /\ exposed' = exposed /\ cmds' = cmds /\ streams' = streams
        /\ pending' = pending /\ streamer' = streamer /\ offScreenRows' = offScreenRows
        /\ rows' = rows /\ hasMore' = hasMore
    BY <1>5, <2>1 DEF AutoRefresh, listVars, loadVars
  <2>3. m.type \notin Kinds
    BY <2>1 DEF Refreshing, Kinds
  <2> QED BY <1>1, <2>2, <2>3, OtherMsg
<1>6. CASE User
  <2>1. UnchangedByUser /\ (AskForMore \/ UNCHANGED <<requestInFlight, cmds, exposed>>)
    BY <1>6 DEF User, Navigate, GoToBottom, Scroll, JumpTo
  <2> QED BY <2>1, KeyLatest
<1>7. CASE RepositoryChanges \/ UNCHANGED vars
  <2>1. /\ msgs' = msgs /\ tag' = tag /\ exposed' = exposed /\ cmds' = cmds /\ streams' = streams
        /\ pending' = pending /\ streamer' = streamer /\ offScreenRows' = offScreenRows
        /\ rows' = rows /\ hasMore' = hasMore
    BY <1>7 DEF RepositoryChanges, vars, listVars, loadVars
  <2>2. Bounded'
    BY <1>1, <2>1 DEF Bounded
  <2>3. ASSUME Latest PROVE Latest'
    <3>1. OwnStreamer'
      BY <2>1, <2>3 DEF Latest, OwnStreamer
    <3> QED BY <2>1, <2>3, <3>1, SameLoad
  <2> QED BY <2>1, <2>2, <2>3 DEF LatestInv
<1> QED BY <1>2, <1>3, <1>4, <1>5, <1>6, <1>7 DEF Next

\* Once the latest load has shown something the list is a prefix of what jj printed for that load,
\* and all of it when there is no more, whatever older loads still send (appendRowsBatchMsg), until
\* a batch is requested twice or of another load's streamer.
THEOREM LatestLoadAlwaysShown == Spec => []LatestLoadShown
<1>1. LatestInv => LatestLoadShown
  BY DEF LatestInv, Latest, Shown, LatestLoadShown
<1> QED BY <1>1, RevisionsInit, RevisionsStep, LatestInit, LatestStep, PTL DEF Spec

-----------------------------------------------------------------------------
(* The selection while the list grows.                                       *)

\* Every streamer reads a log of the repository.
Logged == \A s \in DOMAIN streams : \E v \in DOMAIN Logs : streams[s].log = Logs[v]

\* Every step keeps Logged: streamers are opened on the log of the repository.
LEMMA LoggedStep == RevisionsInv /\ Logged /\ [Next]_vars => Logged'
<1> SUFFICES ASSUME RevisionsInv, Logged, [Next]_vars PROVE Logged'
  OBVIOUS
<1>1. /\ repo \in DOMAIN Logs /\ streamer \in {0} \cup DOMAIN streams
      /\ streams \in [DOMAIN streams -> Stream] /\ 0 \notin DOMAIN streams
      /\ CmdsOk(cmds, DOMAIN streams) /\ MsgsOk(msgs, DOMAIN streams)
  BY Unpack DEF LoadPart, StreamPart
<1>2. ASSUME streams' = streams PROVE Logged'
  BY <1>2 DEF Logged
<1>3. ASSUME NEW t, NEW open, streams' = Opening(t, open) PROVE Logged'
  BY <1>1, <1>3 DEF Logged, Opening
<1>4. ASSUME NEW s \in {0} \cup DOMAIN streams, streams' = Closing(s) PROVE Logged'
  BY <1>1, <1>4, ClosingOthers DEF Logged
<1>5. ASSUME NEW c \in Pending(cmds), Run(c) PROVE Logged'
  <2>1. c \in DOMAIN cmds
    BY DEF Pending, BagToSet
  <2>2. CASE LoadStreaming(c) \/ Load(c)
    BY <1>2, <1>3, <2>2 DEF LoadStreaming, Load
  <2>3. CASE RequestMore(c)
    <3>1. PICK n : streams' = [streams EXCEPT ![c.streamer].pos = @ + n]
      BY <2>3 DEF RequestMore
    <3>2. c.streamer \in DOMAIN streams
      BY <1>1, <2>1, <2>3 DEF CmdsOk, CmdOk, RequestMore
    <3>3. streams[c.streamer] \in Stream
      BY <1>1, <3>2
    <3>4. [streams[c.streamer] EXCEPT !.pos = @ + n].log = streams[c.streamer].log
      BY <3>3 DEF Stream
    <3>5. DOMAIN streams' = DOMAIN streams /\ \A s \in DOMAIN streams : streams'[s].log = streams[s].log
      BY <3>1, <3>2, <3>4
    <3> QED BY <3>5 DEF Logged
  <2> QED BY <1>5, <2>2, <2>3 DEF Run
<1>6. ASSUME NEW m \in Pending(msgs), Handle(m) PROVE Logged'
  <2>1. m \in DOMAIN msgs
    BY DEF Pending, BagToSet
  <2>2. CASE RefreshMsg(m) \/ UpdateRevisionsFailed(m) \/ UpdateRevisions(m)
    BY <1>2, <2>2 DEF RefreshMsg, refresh, UpdateRevisionsFailed, UpdateRevisions
  <2>3. CASE StreamingReady(m)
    <3>1. m.streamer \in {0} \cup DOMAIN streams
      BY <1>1, <2>1, <2>3 DEF MsgsOk, MsgOk, StreamingReady
    <3>2. streams' = Closing(m.streamer) \/ streams' = Closing(streamer)
      BY <2>3 DEF StreamingReady, StreamingReadyStale, StreamingReadyFailed, StreamingReadyOpened
    <3> QED BY <1>1, <1>4, <3>1, <3>2
  <2>4. CASE AppendRowsBatch(m)
    <3>1. streams' = streams \/ streams' = Closing(streamer)
      BY <2>4 DEF AppendRowsBatch, AppendRowsCurrent, AppendRowsStale
    <3> QED BY <1>1, <1>2, <1>4, <3>1
  <2> QED BY <1>6, <2>2, <2>3, <2>4 DEF Handle
<1>7. ASSUME NEW sel \in Targets, NEW keep \in BOOLEAN, RefreshIntent(sel, keep) PROVE Logged'
  BY <1>2, <1>7 DEF RefreshIntent, refresh
<1>8. CASE AutoRefresh \/ User \/ RepositoryChanges \/ UNCHANGED vars
  <2>1. streams' = streams
    BY <1>8 DEF AutoRefresh, User, Navigate, GoToBottom, Scroll, JumpTo, UnchangedByUser, RepositoryChanges, vars
  <2> QED BY <1>2, <2>1
<1> QED BY <1>5, <1>6, <1>7, <1>8 DEF Next

\* Names that mean no change.
Reserved == {"", "@"}

\* A search that finds a row finds the first with that name.
LEMMA SearchFinds ==
  ASSUME NEW rs \in Seq(Commits), NEW rev, rev \notin Reserved,
         NEW k \in 0 .. Len(rs) - 1, rs[k + 1].change = rev
  PROVE  LET i == selectRevisionExact(rs, rev)
         IN  i \in 0 .. k /\ rev \in {rs[i + 1].change, rs[i + 1].raw, rs[i + 1].id}
<1> DEFINE named == {i \in 0 .. Len(rs) - 1 :
                       IF rev = "@" THEN rs[i + 1].wc
                       ELSE rev # "" /\ rev \in {rs[i + 1].change, rs[i + 1].raw, rs[i + 1].id}}
           i == CHOOSE x \in named : \A j \in named : x <= j
<1>1. selectRevisionExact(rs, rev) = IF named = {} THEN -1 ELSE i
  BY DEF selectRevisionExact
<1>2. named = {x \in 0 .. Len(rs) - 1 : rev \in {rs[x + 1].change, rs[x + 1].raw, rs[x + 1].id}}
  BY Zenon DEF Reserved
<1> HIDE DEF named
<1>3. k \in named
  BY <1>2
<1>4. named \subseteq Nat
  <2>1. named \subseteq 0 .. Len(rs) - 1
    BY <1>2, Zenon
  <2>2. Len(rs) \in Nat
    OBVIOUS
  <2> QED BY <2>1, <2>2
<1>5. \E x \in named : \A j \in named : x <= j
  BY <1>3, <1>4, LeastOf
<1>6. i \in named /\ i <= k
  BY <1>3, <1>5
<1> HIDE DEF i
<1>7. selectRevisionExact(rs, rev) = i
  BY <1>1, <1>3
<1>8. i \in 0 .. Len(rs) - 1 /\ rev \in {rs[i + 1].change, rs[i + 1].raw, rs[i + 1].id}
  BY <1>2, <1>6, Zenon
<1>9. i \in 0 .. k
  BY <1>6, <1>8
<1> QED BY <1>7, <1>8, <1>9

\* A longer prefix of the log keeps the row under the cursor.
LEMMA GrowthKeepsSelection ==
  ASSUME ListPart, rows # <<>>, NEW v \in DOMAIN Logs, NEW n \in Nat, n <= Len(Logs[v]), NEW t, pending.tag # t,
         IsPrefix(rows, Logs[v]), Len(rows) <= n, ShowRows(t, SubSeq(Logs[v], 1, n))
  PROVE  SelectedRevision'.change = SelectedRevision.change
<1> DEFINE log == Logs[v]
           rs == SubSeq(log, 1, n)
           ch == SelectedRevision.change
<1>1. log \in Seq(Commits) /\ rows \in Seq(Commits) /\ cursor \in Nat /\ InRows(cursor, rows)
  BY LogsAssumption DEF ListPart, CursorInRange
<1>2. cursor \in 0 .. Len(rows) - 1 /\ Len(rows) \in Nat /\ Len(log) \in Nat
  BY <1>1 DEF InRows
<1>3. rs \in Seq(Commits) /\ Len(rs) = n /\ \A x \in 1 .. n : rs[x] = log[x]
  BY <1>1
<1>4. rows[cursor + 1] = log[cursor + 1]
  <2>1. rows = SubSeq(log, 1, Len(rows)) /\ Len(rows) <= Len(log)
    BY DEF IsPrefix
  <2>2. \A x \in 1 .. Len(rows) : SubSeq(log, 1, Len(rows))[x] = log[x]
    BY <1>1, <1>2, <2>1
  <2>3. cursor + 1 \in 1 .. Len(rows)
    BY <1>2
  <2>4. SubSeq(log, 1, Len(rows))[cursor + 1] = log[cursor + 1]
    BY <2>2, <2>3
  <2> QED BY <2>1, <2>4
<1>5. ch = log[cursor + 1].change /\ cursor + 1 \in DOMAIN log
  BY <1>1, <1>2, <1>4 DEF SelectedRevision
<1>6. /\ ch \notin Reserved
      /\ \A x \in DOMAIN log : /\ log[x].id = ch => log[x].change = ch
                               /\ log[x].raw = ch => log[x].change = ch \/ cursor + 1 < x
  BY <1>5, ChangesAssumption DEF Reserved
<1> HIDE DEF log, rs, ch
<1>7. cursor \in 0 .. Len(rs) - 1 /\ rs[cursor + 1].change = ch
  BY <1>2, <1>3, <1>5
<1> DEFINE i == selectRevisionExact(rs, ch)
           a == selectRevisionExact(rs, ReloadOf(t).sel)
           inRange == IF rs # <<>> /\ ~InRows(cursor, rs) THEN 0 ELSE -1
<1>8. i \in 0 .. cursor /\ i \in 0 .. Len(rs) - 1 /\ ch \in {rs[i + 1].change, rs[i + 1].raw, rs[i + 1].id}
  <2>1. i \in 0 .. cursor /\ ch \in {rs[i + 1].change, rs[i + 1].raw, rs[i + 1].id}
    BY <1>3, <1>6, <1>7, SearchFinds
  <2> QED BY <1>3, <1>7, <2>1
<1>9. a = -1
  <2>1. ReloadOf(t).sel = ""
    BY DEF ReloadOf, NoReload
  <2> QED BY <2>1 DEF selectRevisionExact
<1>10. rows' = rs /\ cursor' = IF FirstFound(<<a, i, inRange>>) = -1 THEN cursor ELSE FirstFound(<<a, i, inRange>>)
  BY DEF ShowRows, rs, log, ch
<1> HIDE DEF a, i, inRange
<1>11. cursor' = i
  <2>1. FirstFound(<<a, i, inRange>>) = IF a # -1 THEN a ELSE IF i # -1 THEN i ELSE inRange
    BY FirstOfThree
  <2>2. i # -1
    BY <1>3, <1>8
  <2>3. FirstFound(<<a, i, inRange>>) = i
    BY <1>9, <2>1, <2>2
  <2> QED BY <1>10, <2>2, <2>3
<1>12. rs[i + 1].change = ch
  <2>1. i + 1 \in 1 .. n /\ i + 1 \in DOMAIN log
    BY <1>1, <1>2, <1>3, <1>8 DEF log
  <2>2. rs[i + 1] = log[i + 1]
    BY <1>3, <2>1
  <2>3. ~(cursor + 1 < i + 1)
    BY <1>2, <1>8
  <2>4. ch = log[i + 1].change \/ ch = log[i + 1].raw \/ ch = log[i + 1].id
    BY <1>8, <2>2, Zenon
  <2>5. /\ log[i + 1].id = ch => log[i + 1].change = ch
        /\ log[i + 1].raw = ch => log[i + 1].change = ch
    BY <1>6, <2>1, <2>3, Zenon
  <2> QED BY <2>2, <2>4, <2>5, Zenon
<1>13. SelectedRevision' = rs[i + 1]
  <2>1. InRows(cursor', rows')
    BY <1>8, <1>10, <1>11 DEF InRows
  <2>2. SelectedRevision' = rows'[cursor' + 1]
    BY <2>1 DEF SelectedRevision, InRows
  <2> QED BY <1>10, <1>11, <2>2
<1> QED BY <1>12, <1>13 DEF ch

\* Rows of the latest load that come later leave the cursor on its revision (appendRowsBatchMsg).
THEOREM GrowingAlwaysKeepsSelection == Spec => GrowingKeepsSelection
<1> DEFINE Keeps == rows # <<>> /\ rows' # rows /\ tag' = tag /\ pending.tag # tag /\ ~exposed'
                      => SelectedRevision'.change = SelectedRevision.change
<1>1. ASSUME RevisionsInv, LatestInv, Logged, [Next]_vars PROVE [Keeps]_vars
  <2> SUFFICES ASSUME rows # <<>>, rows' # rows, tag' = tag, pending.tag # tag, ~exposed'
               PROVE  SelectedRevision'.change = SelectedRevision.change
    OBVIOUS
  <2>1. /\ ListPart /\ IsABag(msgs) /\ (~exposed => Latest) /\ tag \in Nat
        /\ streams \in [DOMAIN streams -> Stream]
    BY <1>1, Facts, Unpack
  <2>2. PICK m \in DOMAIN msgs : Handle(m) /\ (UpdateRevisions(m) \/ AppendRowsBatch(m))
    <3>1. ~UNCHANGED vars /\ ~User /\ ~RepositoryChanges /\ ~AutoRefresh
      BY DEF vars, listVars, User, Navigate, GoToBottom, Scroll, JumpTo, UnchangedByUser, RepositoryChanges, AutoRefresh
    <3>2. \A sel, keep : ~RefreshIntent(sel, keep)
      BY DEF RefreshIntent, refresh
    <3>3. \A c : ~Run(c)
      BY DEF Run, LoadStreaming, Load, RequestMore, listVars
    <3>4. PICK m \in Pending(msgs) : Handle(m)
      BY <1>1, <3>1, <3>2, <3>3 DEF Next
    <3>5. ~RefreshMsg(m) /\ ~UpdateRevisionsFailed(m) /\ ~StreamingReady(m)
      BY DEF RefreshMsg, refresh, UpdateRevisionsFailed, StreamingReady, listVars
    <3> QED BY <3>4, <3>5 DEF Handle, Pending, BagToSet
  <2>3. ~exposed /\ m.type \in Kinds
    BY <2>2 DEF UpdateRevisions, AppendRowsBatch, AppendRowsCurrent, AppendRowsStale, CollectRows, ShowRows,
                requestMoreRows, Kinds
  <2>4. m.tag = tag
    BY <2>2 DEF UpdateRevisions, AppendRowsBatch, AppendRowsCurrent, AppendRowsStale
  <2>5. Phase(m) /\ Shown
    <3>1. OfLoad(m, tag)
      BY <2>3, <2>4 DEF OfLoad
    <3> QED BY <2>1, <2>3, <3>1, TakeMsg DEF Latest
  <2>6. AppendRowsCurrent(m) /\ m.type = "append"
    BY <2>2, <2>4, <2>5 DEF UpdateRevisions, AppendRowsBatch, AppendRowsStale, Phase
  <2>7. ShowRows(m.tag, offScreenRows \o m.rows)
    BY <2>6 DEF AppendRowsCurrent, CollectRows
  <2>8. /\ streamer = tag /\ tag \in DOMAIN streams /\ Collected(offScreenRows \o m.rows)
    BY <2>5, <2>6 DEF Phase
  <2>9. PICK v \in DOMAIN Logs : streams[tag].log = Logs[v]
    BY <1>1, <2>8 DEF Logged
  <2>10. streams[tag].pos \in Nat
    <3>1. streams[tag] \in Stream
      BY <2>1, <2>8
    <3> QED BY <3>1 DEF Stream
  <2> DEFINE n == streams[tag].pos
  <2>11. n <= Len(Logs[v]) /\ offScreenRows \o m.rows = SubSeq(Logs[v], 1, n)
    BY <2>8, <2>9 DEF Collected
  <2>12. IsPrefix(rows, Logs[v]) /\ Len(rows) <= Len(offScreenRows)
    BY <2>5, <2>8, <2>9 DEF Shown
  <2>13. Len(rows) <= n
    <3>1. offScreenRows \in Seq(Commits) /\ m.rows \in Seq(Commits) /\ rows \in Seq(Commits)
      BY <1>1, <2>6, Unpack DEF ListPart, MsgsOk, MsgOk
    <3>2. Len(offScreenRows \o m.rows) = Len(offScreenRows) + Len(m.rows)
      BY <3>1
    <3>3. Logs[v] \in Seq(Commits)
      BY LogsAssumption
    <3> HIDE DEF n
    <3>4. Len(SubSeq(Logs[v], 1, n)) = n
      BY <2>10, <2>11, <3>3 DEF n
    <3>5. Len(rows) \in Nat /\ Len(offScreenRows) \in Nat /\ Len(m.rows) \in Nat
      BY <3>1
    <3>6. n = Len(offScreenRows) + Len(m.rows)
      <4>1. Len(offScreenRows \o m.rows) = Len(SubSeq(Logs[v], 1, n))
        BY <2>11 DEF n
      <4> QED BY <3>2, <3>4, <4>1
    <3> QED BY <2>12, <3>5, <3>6
  <2>14. ShowRows(tag, SubSeq(Logs[v], 1, n))
    BY <2>4, <2>7, <2>11
  <2> HIDE DEF n
  <2>15. n \in Nat
    BY <2>10 DEF n
  <2> QED BY <2>1, <2>11, <2>12, <2>13, <2>14, <2>15, GrowthKeepsSelection
<1>2. Init => Logged
  BY DEF Init, Logged
<1>3. Spec => [](RevisionsInv /\ LatestInv /\ Logged)
  <2>1. Init => RevisionsInv /\ LatestInv /\ Logged
    BY <1>2, RevisionsInit, LatestInit
  <2>2. (RevisionsInv /\ LatestInv /\ Logged) /\ [Next]_vars => (RevisionsInv /\ LatestInv /\ Logged)'
    BY RevisionsStep, LatestStep, LoggedStep
  <2> QED BY <2>1, <2>2, PTL DEF Spec
<1>4. (RevisionsInv /\ LatestInv /\ Logged) /\ [Next]_vars => [Keeps]_vars
  BY <1>1
<1>5. Spec => [][Keeps]_vars
  BY <1>3, <1>4, PTL DEF Spec
<1> QED BY <1>5 DEF GrowingKeepsSelection
=============================================================================
