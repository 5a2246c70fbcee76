---------------------------- MODULE ViewsProofs ----------------------------
(***************************************************************************)
(* What the views of a revision show is what they are about: the preview   *)
(* comes to show what is highlighted, a question about files is about the  *)
(* files chosen, a restore keeps the version it was asked for, a killed    *)
(* line comes back, a line of a diff has its number and a word its pair,   *)
(* the status line keeps what was typed, and a comment of a review stays   *)
(* where it was written.  For any items, files, texts, diffs and lines,    *)
(* and any number of calls and messages under way.                         *)
(***************************************************************************)
EXTENDS Preview, Details, Describe, Evolog, Patch, StatusLine, Annotation,
        SequenceTheorems, FiniteSetTheorems, WellFoundedInduction, TLAPS

-----------------------------------------------------------------------------
(* Least, greatest, ranked and kept elements.                                *)
\* A set of numbers that is not empty has a least one.
LEMMA LeastOf ==
  ASSUME NEW T, T \subseteq Nat, T # {}
  PROVE  \E x \in T : \A y \in T : x <= y
<1> DEFINE R == {ss \in Nat \X Nat : ss[1] < ss[2]}
<1>1. IsWellFoundedOn(R, Nat)
  BY NatLessThanWellFounded DEF OpToRel
<1>2. PICK x \in T : \A y \in T : ~ (<<y, x>> \in R)
  BY <1>1, WFMin
<1>3. ASSUME NEW y \in T PROVE x <= y
  <2>1. x \in Nat /\ y \in Nat
    OBVIOUS
  <2>2. y < x => <<y, x>> \in R
    BY <2>1
  <2> HIDE DEF R
  <2>3. ~(y < x)
    BY <1>2, <2>2
  <2> QED BY <2>1, <2>3
<1> QED BY <1>3
\* A set of numbers up to n has an element below which there are k - 1 others, for every
\* k up to its size: the least number up to which there are k of them.
LEMMA ElementOfRank ==
  ASSUME NEW n \in Nat, NEW S, S \subseteq 1 .. n, NEW k \in 1 .. Cardinality(S)
  PROVE  \E x \in S : Cardinality({y \in S : y < x}) = k - 1
<1> DEFINE Low(m) == {y \in S : y <= m}
           T == {m \in Nat : Cardinality(Low(m)) >= k}
<1>0. \A y \in S : y \in Int /\ 1 <= y /\ y <= n
  OBVIOUS
<1>1. \A m \in Nat : IsFiniteSet(Low(m)) /\ Cardinality(Low(m)) \in Nat
  <2>1. IsFiniteSet(1 .. n)
    BY FS_Interval
  <2>2. IsFiniteSet(S)
    BY <2>1, FS_Subset
  <2> QED BY <2>2, FS_Subset, FS_CardinalityType
<1>2. n \in T
  <2>1. Low(n) = S
    BY <1>0
  <2>2. Cardinality(S) \in Nat
    BY <1>1, <2>1
  <2> QED BY <2>1, <2>2
<1>3. PICK m \in T : \A i \in T : m <= i
  <2>1. T \subseteq Nat /\ T # {}
    BY <1>2
  <2> HIDE DEF T
  <2> QED BY <2>1, LeastOf
<1>4. k \in Nat /\ k >= 1 /\ m \in Nat
  <2>1. Low(n) = S
    BY <1>0
  <2> QED BY <1>1, <2>1
<1>5. m # 0
  <2>1. \A y \in S : ~(y <= 0)
    BY <1>0
  <2>2. Low(0) = {}
    BY <2>1, Zenon
  <2>3. Cardinality(Low(0)) = 0
    BY <2>2, FS_EmptySet
  <2> QED BY <1>3, <1>4, <2>3
<1>6. m - 1 \in Nat /\ ~(m - 1 \in T)
  <2>1. m - 1 \in Nat /\ ~(m <= m - 1)
    BY <1>4, <1>5
  <2> HIDE DEF T
  <2> QED BY <1>3, <2>1
<1>7. Cardinality(Low(m - 1)) < k
  <2>1. Cardinality(Low(m - 1)) \in Nat
    BY <1>1, <1>6
  <2>2. ~(Cardinality(Low(m - 1)) >= k)
    BY <1>6
  <2> HIDE DEF Low
  <2> QED BY <1>4, <2>1, <2>2
<1>8. Low(m - 1) = {y \in S : y < m}
  <2>1. \A y \in S : (y <= m - 1) <=> (y < m)
    BY <1>0, <1>4
  <2> QED BY <2>1, Zenon
<1>9. m \in S /\ Cardinality(Low(m)) = Cardinality(Low(m - 1)) + 1
  <2>1. CASE m \in S
    <3>1. Low(m) = Low(m - 1) \cup {m} /\ m \notin Low(m - 1)
      <4>1. (\A y \in S : (y <= m) <=> (y <= m - 1) \/ y = m) /\ ~(m <= m - 1) /\ m <= m
        BY <1>0, <1>4
      <4> QED BY <2>1, <4>1, Zenon
    <3>2. Cardinality(Low(m - 1) \cup {m}) = Cardinality(Low(m - 1)) + 1
      BY <1>1, <1>6, <3>1, FS_AddElement
    <3> QED BY <2>1, <3>1, <3>2
  <2>2. CASE m \notin S
    <3>1. Low(m) = Low(m - 1)
      <4>1. \A y \in S : (y <= m - 1) <=> (y <= m)
        BY <1>0, <1>4, <2>2
      <4> QED BY <4>1, Zenon
    <3> QED BY <1>1, <1>3, <1>4, <1>6, <1>7, <3>1
  <2> QED BY <2>1, <2>2
<1>10. Cardinality(Low(m)) >= k
  BY <1>3
<1>11. Cardinality(Low(m - 1)) = k - 1
  <2>1. Cardinality(Low(m - 1)) \in Nat
    BY <1>1, <1>6
  <2> HIDE DEF Low
  <2> QED BY <1>4, <1>7, <1>9, <1>10, <2>1
<1> QED BY <1>8, <1>9, <1>11

\* Every number of the sequence is one of the set.
LEMMA InOrderElements ==
  ASSUME NEW n \in Nat, NEW S, S \subseteq 1 .. n
  PROVE  /\ Cardinality(S) \in Nat /\ DOMAIN InOrder(S) = 1 .. Cardinality(S)
         /\ InOrder(S) \in Seq(S) /\ Len(InOrder(S)) = Cardinality(S)
<1>1. Cardinality(S) \in Nat
  <2>1. IsFiniteSet(1 .. n)
    BY FS_Interval
  <2> QED BY <2>1, FS_Subset, FS_CardinalityType
<1>2. ASSUME NEW k \in 1 .. Cardinality(S) PROVE InOrder(S)[k] \in S
  <2>1. InOrder(S)[k] = CHOOSE x \in S : Cardinality({y \in S : y < x}) = k - 1
    BY DEF InOrder
  <2>2. \E x \in S : Cardinality({y \in S : y < x}) = k - 1
    BY ElementOfRank
  <2> QED BY <2>1, <2>2
<1>3. InOrder(S) \in [1 .. Cardinality(S) -> S]
  BY <1>2 DEF InOrder
<1>4. InOrder(S) \in Seq(S)
  BY <1>1, <1>3, SeqDef
<1> QED BY <1>1, <1>3, <1>4

\* It holds each of them once.
LEMMA InOrderIsExact ==
  ASSUME NEW n \in Nat, NEW S, S \subseteq 1 .. n
  PROVE  /\ \A k, l \in 1 .. Cardinality(S) : InOrder(S)[k] = InOrder(S)[l] => k = l
         /\ \A x \in S : \E k \in 1 .. Cardinality(S) : InOrder(S)[k] = x
<1>0. IsFiniteSet(S) /\ Cardinality(S) \in Nat
  <2>1. IsFiniteSet(1 .. n)
    BY FS_Interval
  <2> QED BY <2>1, FS_Subset, FS_CardinalityType
<1>1. ASSUME NEW k \in 1 .. Cardinality(S) PROVE Cardinality({y \in S : y < InOrder(S)[k]}) = k - 1
  <2>1. InOrder(S)[k] = CHOOSE x \in S : Cardinality({y \in S : y < x}) = k - 1
    BY DEF InOrder
  <2>2. \E x \in S : Cardinality({y \in S : y < x}) = k - 1
    BY ElementOfRank
  <2> QED BY <2>1, <2>2, Zenon
<1>2. ASSUME NEW k \in 1 .. Cardinality(S), NEW l \in 1 .. Cardinality(S), InOrder(S)[k] = InOrder(S)[l]
      PROVE  k = l
  <2>1. k - 1 = l - 1
    BY <1>1, <1>2
  <2> QED BY <1>0, <2>1
<1>3. InOrder(S) \in [1 .. Cardinality(S) -> S]
  BY InOrderElements, ElementOfSeq, LenProperties
<1>4. InOrder(S) \in Injection(1 .. Cardinality(S), S)
  BY <1>2, <1>3, Zenon DEF Injection, IsInjective
<1>5. Cardinality(1 .. Cardinality(S)) = Cardinality(S)
  BY <1>0, FS_Interval
<1>6. InOrder(S) \in Surjection(1 .. Cardinality(S), S)
  BY <1>0, <1>4, <1>5, FS_Injection
<1> QED BY <1>2, <1>6 DEF Surjection

\* A part of a sequence has the elements at the positions kept, and no other.
LEMMA KeptElements ==
  ASSUME NEW S, NEW s \in Seq(S), NEW positions, positions \subseteq DOMAIN s
  PROVE  /\ Kept(s, positions) \in Seq(S)
         /\ ToSet(Kept(s, positions)) = {s[i] : i \in positions}
         /\ (\A i, j \in positions : s[i] = s[j] => i = j) =>
              \A k, l \in DOMAIN Kept(s, positions) : Kept(s, positions)[k] = Kept(s, positions)[l] => k = l
<1> DEFINE t == Kept(s, positions)
           N == Cardinality(positions)
           at == InOrder(positions)
<1>1. Len(s) \in Nat /\ positions \subseteq 1 .. Len(s)
  BY LenProperties
<1>2. N \in Nat /\ \A k \in 1 .. N : at[k] \in positions
  BY <1>1, InOrderElements, ElementOfSeq
<1>3. /\ \A k, l \in 1 .. N : at[k] = at[l] => k = l
      /\ \A x \in positions : \E k \in 1 .. N : at[k] = x
  BY <1>1, InOrderIsExact
<1>4. t = [k \in 1 .. N |-> s[at[k]]]
  BY Zenon DEF Kept
<1>5. \A i \in positions : s[i] \in S
  BY <1>1, ElementOfSeq
<1> HIDE DEF t, N, at
<1>6. t \in [1 .. N -> S]
  BY <1>2, <1>4, <1>5
<1>7. t \in Seq(S) /\ DOMAIN t = 1 .. N
  BY <1>2, <1>6, SeqDef
<1>8. ToSet(t) = {s[i] : i \in positions}
  <2>1. \A k \in 1 .. N : t[k] = s[at[k]]
    BY <1>4
  <2>2. ToSet(t) = {t[k] : k \in 1 .. N}
    BY <1>7 DEF ToSet
  <2>3. \A k \in 1 .. N : t[k] \in {s[i] : i \in positions}
    BY <1>2, <2>1
  <2>4. \A i \in positions : s[i] \in {t[k] : k \in 1 .. N}
    BY <1>3, <2>1
  <2> QED BY <2>2, <2>3, <2>4
<1>9. ASSUME \A i, j \in positions : s[i] = s[j] => i = j
      PROVE  \A k, l \in DOMAIN t : t[k] = t[l] => k = l
  BY <1>2, <1>3, <1>4, <1>7, <1>9
<1> QED BY <1>7, <1>8, <1>9 DEF t

\* A bounded set of numbers that is not empty has a greatest one.
LEMMA GreatestOf ==
  ASSUME NEW n \in Nat, NEW T, T \subseteq 0 .. n, T # {}
  PROVE  \E x \in T : \A y \in T : x >= y
<1> DEFINE U == {n - x : x \in T}
<1>1. U \subseteq Nat /\ U # {}
  <2>1. \A x \in T : x \in Nat /\ n - x \in Nat
    OBVIOUS
  <2> QED BY <2>1
<1>2. PICK u \in U : \A v \in U : u <= v
  BY <1>1, LeastOf
<1>3. PICK x \in T : u = n - x
  OBVIOUS
<1>4. ASSUME NEW y \in T PROVE x >= y
  <2>1. u <= n - y
    BY <1>2
  <2> QED BY <1>3, <2>1
<1> QED BY <1>4

-----------------------------------------------------------------------------
(* The preview.                                                              *)
\* The goroutines of Debounce.
DebouncedCall == [item : Items, stage : {"timer", "started", "running"}, entry : BOOLEAN, done : BOOLEAN]

\* The preview, its split and the calls under way.
PreviewRecord == [content : Items \cup {NoItem, ScriptText}, item : Items \cup {NoItem}, offset : Int,
                  scripted : BOOLEAN, overtaken : BOOLEAN]

\* The answers under way.
PreviewAnswer == [item : Items, late : BOOLEAN]

PreviewTypeOK ==
  /\ highlighted \in Items /\ changes \in Nat
  /\ pcalls \in Seq(DebouncedCall) /\ answers \in Seq(PreviewAnswer)
  /\ pview \in PreviewRecord
  /\ split \in [active : {"", "preview", "bookmark-pane"}, focused : BOOLEAN, primary : BOOLEAN, content : BOOLEAN]

\* One call at most is the latest, the others are cancelled.
OneIsLatest ==
  /\ \A j \in 1 .. Len(pcalls) : (pcalls[j].done <=> ~pcalls[j].entry)
  /\ \A j, k \in 1 .. Len(pcalls) : pcalls[j].entry /\ pcalls[k].entry => j = k

\* No call is the latest: the last one has ended.
NoneIsLatest == \A j \in 1 .. Len(pcalls) : ~pcalls[j].entry

\* What the latest call loads is not what is shown, unless a late answer came since it looked.
LatestIsNews ==
  ~pview.overtaken =>
    \A j \in 1 .. Len(pcalls) : pcalls[j].entry /\ pcalls[j].stage = "running" => pcalls[j].item # pview.item

\* One answer at most comes in time, and then no call is the latest; it is not what the pane shows
\* already, unless a late answer came since.
AnswerInv ==
  /\ \A i, j \in 1 .. Len(answers) : ~answers[i].late /\ ~answers[j].late => i = j
  /\ \A i \in 1 .. Len(answers) : ~answers[i].late => NoneIsLatest
  /\ ~pview.overtaken => \A i \in 1 .. Len(answers) : ~answers[i].late => answers[i].item # pview.item
  /\ pview.content \in {pview.item, ScriptText}

\* The highlighted item is asked for, answered or shown, or a late answer overtook it.
Coming ==
  \/ \E j \in 1 .. Len(pcalls) : pcalls[j].entry /\ pcalls[j].item = highlighted
  \/ NoneIsLatest /\ \E i \in 1 .. Len(answers) : ~answers[i].late /\ answers[i].item = highlighted
  \/ /\ NoneIsLatest /\ \A i \in 1 .. Len(answers) : answers[i].late
     /\ pview.item = highlighted \/ pview.overtaken

\* It is, unless it is still to be announced or a script has opened the pane.
ItemIsComing == split.active = "preview" => changes > 0 \/ pview.scripted \/ Coming

PreviewInv == PreviewTypeOK /\ OneIsLatest /\ LatestIsNews /\ AnswerInv /\ ItemIsComing /\ FocusIsInOnePlace

\* A call that ends leaves the others in their order.
LEMMA RemoveAtElements ==
  ASSUME NEW S, NEW s \in Seq(S), NEW i \in 1 .. Len(s)
  PROVE  /\ RemoveAt(s, i) \in Seq(S)
         /\ Len(RemoveAt(s, i)) = Len(s) - 1
         /\ \A j \in 1 .. Len(s) - 1 : RemoveAt(s, i)[j] = IF j < i THEN s[j] ELSE s[j + 1]
<1> DEFINE before == SubSeq(s, 1, i - 1)
           after == SubSeq(s, i + 1, Len(s))
<1>1. before \in Seq(S) /\ Len(before) = i - 1 /\ \A j \in 1 .. i - 1 : before[j] = s[j]
  OBVIOUS
<1>2. after \in Seq(S) /\ Len(after) = Len(s) - i /\ \A j \in 1 .. Len(s) - i : after[j] = s[i + j]
  OBVIOUS
<1>3. RemoveAt(s, i) = before \o after
  BY DEF RemoveAt
<1> HIDE DEF before, after
<1>4. before \o after \in Seq(S) /\ Len(before \o after) = Len(s) - 1
  BY <1>1, <1>2
<1>5. \A j \in 1 .. Len(s) - 1 : (before \o after)[j] = IF j <= Len(before) THEN before[j] ELSE after[j - Len(before)]
  BY <1>1, <1>2
<1>6. \A j \in 1 .. Len(s) - 1 : (before \o after)[j] = IF j < i THEN s[j] ELSE s[j + 1]
  BY <1>1, <1>2, <1>5
<1> QED
  BY <1>3, <1>4, <1>6

\* The calls that are left when call i ends are the others (Debounce, the two early returns).
LEMMA CallEnds ==
  ASSUME PreviewTypeOK, OneIsLatest, NEW i \in 1 .. Len(pcalls), pcalls' = RemoveAt(pcalls, i)
  PROVE  /\ pcalls' \in Seq(DebouncedCall)
         /\ OneIsLatest'
         /\ \A j \in 1 .. Len(pcalls') : \E k \in 1 .. Len(pcalls) : k # i /\ pcalls'[j] = pcalls[k]
         /\ \A k \in 1 .. Len(pcalls) : k # i => \E j \in 1 .. Len(pcalls') : pcalls'[j] = pcalls[k]
<1> DEFINE at(j) == IF j < i THEN j ELSE j + 1
           n == Len(pcalls)
<1>0. pcalls \in Seq(DebouncedCall) /\ n \in Nat
  <2>1. pcalls \in Seq(DebouncedCall)
    BY Zenon DEF PreviewTypeOK
  <2> QED BY <2>1
<1>1. pcalls' \in Seq(DebouncedCall) /\ Len(pcalls') = n - 1 /\ \A j \in 1 .. n - 1 : pcalls'[j] = pcalls[at(j)]
  BY <1>0, RemoveAtElements
<1>2. \A j \in 1 .. n - 1 : at(j) \in 1 .. n /\ at(j) # i
  BY <1>0
<1>3. \A j, k \in 1 .. n - 1 : at(j) = at(k) => j = k
  BY <1>0
<1>4. \A k \in 1 .. n : k # i => \E j \in 1 .. n - 1 : at(j) = k
  <2> TAKE k \in 1 .. n
  <2> HAVE k # i
  <2>1. CASE k < i
    <3> WITNESS k \in 1 .. n - 1
    <3> QED BY <2>1
  <2>2. CASE k > i
    <3>1. k - 1 \in 1 .. n - 1
      BY <1>0, <2>2
    <3> WITNESS k - 1 \in 1 .. n - 1
    <3> QED BY <2>2, <3>1
  <2> QED BY <1>0, <2>1, <2>2
<1>7. \A k \in 1 .. n : k # i => \E j \in 1 .. n - 1 : pcalls'[j] = pcalls[k]
  BY <1>1, <1>4
<1> HIDE DEF at
<1>5. OneIsLatest'
  BY <1>1, <1>2, <1>3, SMTT(40) DEF OneIsLatest
<1>6. \A j \in 1 .. Len(pcalls') : \E k \in 1 .. n : k # i /\ pcalls'[j] = pcalls[k]
  BY <1>1, <1>2
<1> QED
  BY <1>1, <1>5, <1>6, <1>7

\* Scrolling leaves the rest of the preview alone.
LEMMA OffsetUpdate ==
  ASSUME NEW v \in PreviewRecord, NEW offset \in Int
  PROVE  /\ [v EXCEPT !.offset = offset] \in PreviewRecord
         /\ [v EXCEPT !.offset = offset].item = v.item
         /\ [v EXCEPT !.offset = offset].content = v.content
         /\ ([v EXCEPT !.offset = offset].scripted <=> v.scripted)
         /\ ([v EXCEPT !.offset = offset].overtaken <=> v.overtaken)
<1>1. [v EXCEPT !.offset = offset] \in PreviewRecord
  BY DEF PreviewRecord
<1>2. [v EXCEPT !.offset = offset].item = v.item
  BY DEF PreviewRecord
<1>3. [v EXCEPT !.offset = offset].content = v.content
  BY DEF PreviewRecord
<1>4. /\ ([v EXCEPT !.offset = offset].scripted <=> v.scripted)
      /\ ([v EXCEPT !.offset = offset].overtaken <=> v.overtaken)
  BY DEF PreviewRecord
<1> QED
  BY <1>1, <1>2, <1>3, <1>4, Zenon

\* SetContent goes to the top and keeps whether the content is a script's.
LEMMA ContentUpdate ==
  ASSUME pview \in PreviewRecord,
         NEW content \in Items \cup {ScriptText}, NEW item \in Items \cup {NoItem}
  PROVE  /\ SetContent(content, item) \in PreviewRecord
         /\ SetContent(content, item).item = item
         /\ SetContent(content, item).content = content
         /\ (SetContent(content, item).scripted <=> pview.scripted)
         /\ (SetContent(content, item).overtaken <=> pview.overtaken)
<1>1. SetContent(content, item) \in PreviewRecord
  <2>1. ASSUME NEW w \in PreviewRecord PROVE [w EXCEPT !.content = content] \in PreviewRecord
    BY DEF PreviewRecord
  <2>2. ASSUME NEW w \in PreviewRecord PROVE [w EXCEPT !.item = item] \in PreviewRecord
    BY DEF PreviewRecord
  <2>3. ASSUME NEW w \in PreviewRecord PROVE [w EXCEPT !.offset = 0] \in PreviewRecord
    BY DEF PreviewRecord
  <2>4. SetContent(content, item) = [[[pview EXCEPT !.content = content] EXCEPT !.item = item] EXCEPT !.offset = 0]
    BY DEF PreviewRecord, SetContent
  <2> QED BY <2>1, <2>2, <2>3, <2>4, Zenon
<1>2. SetContent(content, item).item = item
  BY DEF PreviewRecord, SetContent
<1>3. SetContent(content, item).content = content
  BY DEF PreviewRecord, SetContent
<1>4. /\ (SetContent(content, item).scripted <=> pview.scripted)
      /\ (SetContent(content, item).overtaken <=> pview.overtaken)
  BY DEF PreviewRecord, SetContent
<1> QED
  BY <1>1, <1>2, <1>3, <1>4, Zenon

\* The history of the preview is no part of what is shown.
LEMMA HistoryUpdate ==
  ASSUME NEW v \in PreviewRecord, NEW b \in BOOLEAN, NEW w,
         w = [v EXCEPT !.scripted = b] \/ w = [v EXCEPT !.overtaken = b]
  PROVE  /\ w \in PreviewRecord /\ w.item = v.item /\ w.content = v.content
         /\ w = [v EXCEPT !.scripted = b] => (w.scripted <=> b) /\ (w.overtaken <=> v.overtaken)
         /\ w = [v EXCEPT !.overtaken = b] => (w.overtaken <=> b) /\ (w.scripted <=> v.scripted)
BY DEF PreviewRecord

\* Nothing is under way at first, and nothing is shown.
LEMMA PreviewInitHolds == PreviewInit => PreviewInv
<1> SUFFICES ASSUME PreviewInit PROVE PreviewInv
  OBVIOUS
<1>1. Len(pcalls) = 0 /\ Len(answers) = 0
  BY DEF PreviewInit
<1>2. PreviewTypeOK
  <2>1. pcalls \in Seq(DebouncedCall) /\ answers \in Seq(PreviewAnswer)
    <3>1. pcalls = <<>> /\ answers = <<>>
      BY DEF PreviewInit
    <3>2. \A S : <<>> \in Seq(S)
      OBVIOUS
    <3> QED BY <3>1, <3>2, Zenon
  <2>2. pview \in PreviewRecord
    <3>1. pview = [content |-> NoItem, item |-> NoItem, offset |-> 0, scripted |-> FALSE,
                  overtaken |-> FALSE]
      BY DEF PreviewInit
    <3>2. NoItem \in Items \cup {NoItem, ScriptText} /\ NoItem \in Items \cup {NoItem} /\ 0 \in Int
      OBVIOUS
    <3> QED BY <3>1, <3>2, Zenon DEF PreviewRecord
  <2>3. split \in [active : {"", "preview", "bookmark-pane"}, focused : BOOLEAN, primary : BOOLEAN, content : BOOLEAN]
    BY DEF PreviewInit
  <2> QED
    BY <2>1, <2>2, <2>3 DEF PreviewInit, PreviewTypeOK
<1>3. OneIsLatest /\ LatestIsNews
  BY <1>1 DEF OneIsLatest, LatestIsNews
<1>4. ItemIsComing /\ FocusIsInOnePlace
  BY DEF PreviewInit, ItemIsComing, FocusIsInOnePlace
<1>5. AnswerInv
  <2>1. pview.content = pview.item /\ answers = <<>>
    BY DEF PreviewInit
  <2> QED BY <1>1, <2>1 DEF AnswerInv
<1> QED
  BY <1>2, <1>3, <1>4, <1>5 DEF PreviewInv

\* Debounce cancels the call before, so that the new one is the only latest.
LEMMA PreviewSelectionKeeps == ASSUME PreviewInv, SelectionChanged PROVE PreviewInv'
<1> DEFINE n == Len(pcalls)
           old == [i \in DOMAIN pcalls |-> Superseded(pcalls[i])]
<1> USE DEF PreviewInv
<1>1. CASE split.active # "preview"
  <2>1. UNCHANGED <<highlighted, pcalls, answers, pview, split>>
    BY <1>1 DEF SelectionChanged
  <2>2. changes' \in Nat
    <3>1. changes \in Nat
      BY Zenon DEF PreviewTypeOK
    <3>2. changes > 0 /\ changes' = changes - 1
      BY Zenon DEF SelectionChanged
    <3> QED BY <3>1, <3>2
  <2> QED
    BY <1>1, <2>1, <2>2 DEF PreviewTypeOK, OneIsLatest, LatestIsNews, AnswerInv, NoneIsLatest, ItemIsComing,
                            FocusIsInOnePlace
<1>2. CASE split.active = "preview"
  <2>1. pcalls \in Seq(DebouncedCall) /\ n \in Nat
    <3>1. pcalls \in Seq(DebouncedCall)
      BY Zenon DEF PreviewTypeOK
    <3> QED BY <3>1
  <2>2. \A i \in 1 .. n : pcalls[i] \in DebouncedCall
    BY <2>1
  <2>3. \A i \in 1 .. n : old[i] = Superseded(pcalls[i]) /\ old[i] \in DebouncedCall /\ ~old[i].entry /\ old[i].done
    <3> SUFFICES ASSUME NEW i \in 1 .. n
                 PROVE  old[i] = Superseded(pcalls[i]) /\ old[i] \in DebouncedCall /\ ~old[i].entry /\ old[i].done
      OBVIOUS
    <3>1. pcalls[i] \in DebouncedCall /\ i \in DOMAIN pcalls /\ (pcalls[i].done <=> ~pcalls[i].entry)
      BY <2>1, <2>2 DEF OneIsLatest
    <3>2. old[i] = Superseded(pcalls[i])
      BY <3>1
    <3>3. ASSUME NEW c \in DebouncedCall, (c.done <=> ~c.entry)
          PROVE  Superseded(c) \in DebouncedCall /\ ~Superseded(c).entry /\ Superseded(c).done
      BY <3>3 DEF Superseded, DebouncedCall
    <3> HIDE DEF old
    <3> QED
      BY <3>1, <3>2, <3>3
  <2>4. old \in Seq(DebouncedCall) /\ Len(old) = n
    BY <2>1, <2>3, SMTT(40)
  <2>5. Call(highlighted) \in DebouncedCall /\ Call(highlighted).entry /\ ~Call(highlighted).done
        /\ Call(highlighted).stage = "timer" /\ Call(highlighted).item = highlighted
    BY DEF Call, DebouncedCall, PreviewTypeOK
  <2>6. pcalls' = Append(old, Call(highlighted))
    BY <1>2 DEF SelectionChanged, Debounce
  <2> HIDE DEF old
  <2>7. pcalls' \in Seq(DebouncedCall) /\ Len(pcalls') = n + 1 /\ pcalls'[n + 1] = Call(highlighted)
        /\ \A i \in 1 .. n : pcalls'[i] = old[i]
    BY <2>1, <2>4, <2>5, <2>6
  <2>8. changes' \in Nat
    <3>1. changes \in Nat
      BY Zenon DEF PreviewTypeOK
    <3>2. changes > 0 /\ changes' = changes - 1
      BY Zenon DEF SelectionChanged
    <3> QED BY <3>1, <3>2
  <2>8a. /\ pview' = [pview EXCEPT !.scripted = FALSE, !.overtaken = FALSE] /\ UNCHANGED <<highlighted, split>>
         /\ answers' = [i \in DOMAIN answers |-> [answers[i] EXCEPT !.late = TRUE]]
    BY <1>2 DEF SelectionChanged
  <2>8b. pview' \in PreviewRecord /\ pview'.item = pview.item /\ pview'.content = pview.content
    <3>1. pview \in PreviewRecord
      BY Zenon DEF PreviewTypeOK
    <3> QED BY <2>8a, <3>1 DEF PreviewRecord
  <2>8c. answers' \in Seq(PreviewAnswer) /\ Len(answers') = Len(answers) /\ \A i \in 1 .. Len(answers') : answers'[i].late
    <3>1. answers \in Seq(PreviewAnswer)
      BY Zenon DEF PreviewTypeOK
    <3>2. \A a \in PreviewAnswer : [a EXCEPT !.late = TRUE] \in PreviewAnswer /\ [a EXCEPT !.late = TRUE].late
      BY DEF PreviewAnswer
    <3>3. DOMAIN answers = 1 .. Len(answers) /\ Len(answers) \in Nat /\ \A i \in 1 .. Len(answers) : answers[i] \in PreviewAnswer
      BY <3>1
    <3>4. \A i \in 1 .. Len(answers) : answers'[i] \in PreviewAnswer /\ answers'[i].late
      BY <2>8a, <3>2, <3>3
    <3>5. answers' \in [1 .. Len(answers) -> PreviewAnswer]
      BY <2>8a, <3>2, <3>3
    <3> QED BY <3>3, <3>4, <3>5, SeqDef
  <2>9. PreviewTypeOK'
    BY <2>7, <2>8, <2>8a, <2>8b, <2>8c DEF PreviewTypeOK
  <2>10. OneIsLatest' /\ LatestIsNews'
    <3>1. \A j \in 1 .. n + 1 : IF j = n + 1 THEN /\ pcalls'[j].entry /\ ~pcalls'[j].done
                                                 /\ pcalls'[j].stage = "timer"
                                             ELSE ~pcalls'[j].entry /\ pcalls'[j].done
      <4>1. \A j \in 1 .. n + 1 : j = n + 1 \/ j \in 1 .. n
        BY <2>1
      <4> QED BY <4>1, <2>1, <2>3, <2>5, <2>7
    <3>2. OneIsLatest'
      BY <2>1, <2>7, <3>1 DEF OneIsLatest
    <3>3. LatestIsNews'
      BY <2>1, <2>7, <3>1 DEF LatestIsNews
    <3> QED BY <3>2, <3>3
  <2>11. ItemIsComing'
    BY <2>1, <2>5, <2>7, <2>8a DEF ItemIsComing, Coming
  <2>12. AnswerInv' /\ FocusIsInOnePlace'
    BY <2>8a, <2>8b, <2>8c DEF AnswerInv, FocusIsInOnePlace
  <2> QED
    BY <2>9, <2>10, <2>11, <2>12
<1> QED
  BY <1>1, <1>2

\* The steps of a goroutine of Debounce.
LEMMA PreviewCallKeeps ==
  ASSUME PreviewInv, NEW i \in 1 .. Len(pcalls), TimerEnds(i) \/ ReadContentItem(i) \/ CommandEnds(i)
  PROVE  PreviewInv'
<1> DEFINE n == Len(pcalls)
<1> USE DEF PreviewInv
<1>0. pcalls \in Seq(DebouncedCall) /\ answers \in Seq(PreviewAnswer) /\ n \in Nat
  <2>1. pcalls \in Seq(DebouncedCall) /\ answers \in Seq(PreviewAnswer)
    BY Zenon DEF PreviewTypeOK
  <2> QED BY <2>1
<1>1. pcalls[i] \in DebouncedCall
  BY <1>0
<1>2. UNCHANGED <<highlighted, changes, pview, split>>
  BY DEF TimerEnds, ReadContentItem, CommandEnds
\* The latest call, and so no answer that comes in time.
<1>2a. pcalls[i].entry => \A k \in 1 .. Len(answers) : answers[k].late
  BY DEF AnswerInv, NoneIsLatest
<1>3. ASSUME pcalls' = RemoveAt(pcalls, i), UNCHANGED answers,
             pcalls[i].entry /\ pcalls[i].item = highlighted => pview.item = highlighted
      PROVE  PreviewInv'
  <2>1. /\ pcalls' \in Seq(DebouncedCall) /\ OneIsLatest'
        /\ \A j \in 1 .. Len(pcalls') : \E k \in 1 .. n : k # i /\ pcalls'[j] = pcalls[k]
        /\ \A k \in 1 .. n : k # i => \E j \in 1 .. Len(pcalls') : pcalls'[j] = pcalls[k]
    BY <1>3, CallEnds
  <2>2. PreviewTypeOK'
    BY <1>2, <1>3, <2>1 DEF PreviewTypeOK
  <2>3. LatestIsNews'
    BY <1>2, <1>3, <2>1 DEF LatestIsNews
  <2>4. NoneIsLatest => NoneIsLatest'
    BY <2>1 DEF NoneIsLatest
  <2>5. ItemIsComing'
    <3>1. CASE pcalls[i].entry
      <4>1. NoneIsLatest'
        BY <2>1, <3>1 DEF NoneIsLatest, OneIsLatest
      <4>2. CASE pcalls[i].item = highlighted
        BY <1>2, <1>2a, <1>3, <3>1, <4>1, <4>2 DEF ItemIsComing, Coming
      <4>3. CASE pcalls[i].item # highlighted
        <5>1. ~Coming
          BY <3>1, <4>3 DEF Coming, NoneIsLatest, OneIsLatest
        <5> QED BY <1>2, <5>1 DEF ItemIsComing
      <4> QED BY <4>2, <4>3
    <3>2. CASE ~pcalls[i].entry
      <4>1. ASSUME NEW k \in 1 .. n, pcalls[k].entry, pcalls[k].item = highlighted PROVE Coming'
        <5>1. PICK j \in 1 .. Len(pcalls') : pcalls'[j] = pcalls[k]
          BY <2>1, <3>2, <4>1
        <5> QED BY <1>2, <4>1, <5>1 DEF Coming
      <4>2. Coming => Coming'
        BY <1>2, <1>3, <2>4, <4>1 DEF Coming
      <4> QED BY <1>2, <4>2 DEF ItemIsComing
    <3> QED BY <3>1, <3>2
  <2>6. AnswerInv' /\ FocusIsInOnePlace'
    BY <1>2, <1>3, <2>4 DEF AnswerInv, FocusIsInOnePlace
  <2> QED
    BY <2>1, <2>2, <2>3, <2>5, <2>6
<1>4. ASSUME NEW stage \in {"started", "running"}, pcalls' = [pcalls EXCEPT ![i].stage = stage], UNCHANGED answers,
             stage = "running" => pcalls[i].item # pview.item
      PROVE  PreviewInv'
  <2>1. /\ pcalls' \in Seq(DebouncedCall) /\ Len(pcalls') = n
        /\ \A j \in 1 .. n : /\ pcalls'[j].entry = pcalls[j].entry /\ pcalls'[j].done = pcalls[j].done
                             /\ pcalls'[j].item = pcalls[j].item
                             /\ pcalls'[j].stage = IF j = i THEN stage ELSE pcalls[j].stage
    BY <1>0, <1>1, <1>4 DEF DebouncedCall
  <2>2. PreviewTypeOK'
    BY <1>2, <1>4, <2>1 DEF PreviewTypeOK
  <2>3. OneIsLatest'
    BY <2>1 DEF OneIsLatest
  <2>4. LatestIsNews'
    BY <1>2, <1>4, <2>1 DEF LatestIsNews
  <2>5. NoneIsLatest => NoneIsLatest'
    BY <2>1 DEF NoneIsLatest
  <2>6. ItemIsComing'
    <3>1. Coming => Coming'
      BY <1>2, <1>4, <2>1, <2>5 DEF Coming
    <3> QED BY <1>2, <3>1 DEF ItemIsComing
  <2>7. AnswerInv' /\ FocusIsInOnePlace'
    BY <1>2, <1>4, <2>5 DEF AnswerInv, FocusIsInOnePlace
  <2> QED
    BY <2>2, <2>3, <2>4, <2>6, <2>7
<1>5. CASE TimerEnds(i)
  <2>1. CASE isLatest(pcalls[i])
    <3>1. pcalls' = [pcalls EXCEPT ![i].stage = "started"] /\ UNCHANGED answers
      BY <1>5, <2>1 DEF TimerEnds, Advance
    <3> QED
      BY <1>4, <3>1
  <2>2. CASE ~isLatest(pcalls[i])
    <3>1. pcalls' = RemoveAt(pcalls, i) /\ UNCHANGED answers
      BY <1>5, <2>2 DEF TimerEnds, Advance
    <3>2. ~pcalls[i].entry
      BY <2>2 DEF isLatest, OneIsLatest
    <3> QED
      BY <1>3, <3>1, <3>2
  <2> QED
    BY <2>1, <2>2
<1>6. CASE ReadContentItem(i)
  <2>1. CASE pview.item = pcalls[i].item
    <3>1. pcalls' = RemoveAt(pcalls, i) /\ UNCHANGED answers
      BY <1>6, <2>1 DEF ReadContentItem
    <3> QED
      BY <1>3, <2>1, <3>1
  <2>2. CASE pview.item # pcalls[i].item
    <3>1. pcalls' = [pcalls EXCEPT ![i].stage = "running"] /\ UNCHANGED answers
      BY <1>6, <2>2 DEF ReadContentItem
    <3> QED
      BY <1>4, <2>2, <3>1
  <2> QED
    BY <2>1, <2>2
<1>7. CASE CommandEnds(i)
  <2>1. pcalls' = RemoveAt(pcalls, i) /\ pcalls[i].stage = "running"
    BY <1>7 DEF CommandEnds
  <2>2. CASE ~pcalls[i].entry
    <3>1. UNCHANGED answers
      BY <1>7, <2>2 DEF CommandEnds, answered, isLatest
    <3> QED
      BY <1>3, <2>1, <2>2, <3>1
  <2>3. CASE pcalls[i].entry
    <3> DEFINE a == [item |-> pcalls[i].item, late |-> FALSE]
               N == Len(answers)
    <3>1. a \in PreviewAnswer /\ a.item = pcalls[i].item /\ ~a.late
      BY <1>1 DEF DebouncedCall, PreviewAnswer
    <3>2. answers' = Append(answers, a)
      BY <1>7, <2>3 DEF CommandEnds, answered, isLatest, OneIsLatest
    <3> HIDE DEF a
    <3>3. /\ answers' \in Seq(PreviewAnswer) /\ N \in Nat /\ Len(answers') = N + 1 /\ answers'[N + 1] = a
          /\ \A k \in 1 .. N : answers'[k] = answers[k]
      BY <1>0, <3>1, <3>2
    <3>4. /\ pcalls' \in Seq(DebouncedCall) /\ OneIsLatest'
          /\ \A j \in 1 .. Len(pcalls') : \E k \in 1 .. n : k # i /\ pcalls'[j] = pcalls[k]
      BY <2>1, CallEnds
    <3>5. PreviewTypeOK'
      BY <1>2, <3>3, <3>4 DEF PreviewTypeOK
    <3>6. NoneIsLatest'
      BY <2>3, <3>4 DEF NoneIsLatest, OneIsLatest
    <3>7. LatestIsNews'
      BY <3>6 DEF LatestIsNews, NoneIsLatest
    \* The one answer that comes in time is the new one.
    <3>8. \A k \in 1 .. N + 1 : ~answers'[k].late => k = N + 1
      <4>1. \A k \in 1 .. N + 1 : k = N + 1 \/ k \in 1 .. N
        BY <3>3
      <4> QED BY <1>2a, <2>3, <3>3, <4>1
    <3>9. ~pview.overtaken => a.item # pview.item
      BY <2>1, <2>3, <3>1 DEF LatestIsNews
    <3>10. AnswerInv' /\ FocusIsInOnePlace'
      <4>1. pview.content \in {pview.item, ScriptText}
        BY DEF AnswerInv
      <4> QED BY <1>2, <3>3, <3>6, <3>8, <3>9, <4>1 DEF AnswerInv, FocusIsInOnePlace
    <3>11. ItemIsComing'
      <4>1. CASE pcalls[i].item = highlighted
        <5>1. N + 1 \in 1 .. Len(answers')
          BY <3>3
        <5> QED BY <1>2, <3>1, <3>3, <3>6, <4>1, <5>1 DEF ItemIsComing, Coming
      <4>2. CASE pcalls[i].item # highlighted
        <5>1. ~Coming
          BY <2>3, <4>2 DEF Coming, NoneIsLatest, OneIsLatest
        <5> QED BY <1>2, <5>1 DEF ItemIsComing
      <4> QED BY <4>1, <4>2
    <3> QED
      BY <3>4, <3>5, <3>7, <3>10, <3>11
  <2> QED
    BY <2>2, <2>3
<1> QED
  BY <1>5, <1>6, <1>7

\* The steps that leave the calls and the answers alone: selections, scrolling and the container.
LEMMA PreviewOtherKeeps ==
  ASSUME PreviewInv,
         \/ \E item \in Items : SelectionMoves(item)
         \/ \E delta \in {-1, 1} : PreviewScroll(delta)
         \/ PreviewToggle \/ ShowPreview \/ PreviewShow \/ ToggleBookmarkPane
         \/ \E focused \in BOOLEAN : FocusOther(focused)
  PROVE  PreviewInv'
<1> USE DEF PreviewInv
<1> DEFINE Split == [active : {"", "preview", "bookmark-pane"}, focused : BOOLEAN, primary : BOOLEAN, content : BOOLEAN]
           OneFocus(s) == /\ (s.primary <=> ~s.focused) /\ (s.content <=> s.focused)
                          /\ s.focused => s.active = "bookmark-pane"
<1>1. /\ highlighted \in Items /\ changes \in Nat /\ pcalls \in Seq(DebouncedCall) /\ answers \in Seq(PreviewAnswer)
      /\ pview \in PreviewRecord /\ split \in Split
  BY Zenon DEF PreviewTypeOK
<1>2. OneFocus(split)
  BY <1>1 DEF FocusIsInOnePlace
<1>3. UNCHANGED <<pcalls, answers>>
  BY DEF SelectionMoves, PreviewScroll, PreviewToggle, ShowPreview, PreviewShow, ToggleBookmarkPane, FocusOther
\* What such a step has to keep.
<1>4. ASSUME highlighted' \in Items, changes' \in Nat, pview' \in PreviewRecord, split' \in Split, OneFocus(split'),
             pview'.item = pview.item, pview'.content \in {pview.content, ScriptText},
             pview'.overtaken <=> pview.overtaken, ItemIsComing'
      PROVE  PreviewInv'
  <2>1. PreviewTypeOK'
    BY <1>1, <1>3, <1>4, Zenon DEF PreviewTypeOK
  <2>2. OneIsLatest' /\ LatestIsNews'
    BY <1>3, <1>4 DEF OneIsLatest, LatestIsNews
  <2>3. AnswerInv'
    BY <1>3, <1>4 DEF AnswerInv, NoneIsLatest
  <2>4. FocusIsInOnePlace'
    BY <1>4 DEF FocusIsInOnePlace
  <2> QED
    BY <1>4, <2>1, <2>2, <2>3, <2>4
\* The operations of the container.
<1>5. ASSUME NEW s \in Split, OneFocus(s)
      PROVE  /\ setContentFocused(ShowContent(s, "preview"), FALSE) \in Split
             /\ OneFocus(setContentFocused(ShowContent(s, "preview"), FALSE))
             /\ setContentFocused(ShowContent(s, "preview"), FALSE).active = "preview"
  BY <1>5 DEF setContentFocused, ShowContent
<1>6. ASSUME NEW s \in Split, OneFocus(s)
      PROVE  CloseContent(s) \in Split /\ OneFocus(CloseContent(s)) /\ CloseContent(s).active = ""
  BY <1>6 DEF setContentFocused, CloseContent
<1>7. ASSUME NEW s \in Split, OneFocus(s)
      PROVE  /\ setContentFocused(ShowContent(s, "bookmark-pane"), TRUE) \in Split
             /\ OneFocus(setContentFocused(ShowContent(s, "bookmark-pane"), TRUE))
             /\ setContentFocused(ShowContent(s, "bookmark-pane"), TRUE).active = "bookmark-pane"
  BY <1>7 DEF setContentFocused, ShowContent
<1>8. ASSUME NEW s \in Split, OneFocus(s), s.active = ""
      PROVE  setContentFocused(s, FALSE) \in Split /\ OneFocus(setContentFocused(s, FALSE))
             /\ setContentFocused(s, FALSE).active = ""
  BY <1>8 DEF setContentFocused
<1>9. ASSUME NEW s \in Split, OneFocus(s), s.active = "bookmark-pane", NEW f \in BOOLEAN
      PROVE  setContentFocused(s, f) \in Split /\ OneFocus(setContentFocused(s, f))
             /\ setContentFocused(s, f).active = "bookmark-pane"
  BY <1>9 DEF setContentFocused
<1>10. ASSUME NEW s PROVE /\ OnShow(s) \in PreviewRecord /\ OnShow(s).item = pview.item
                          /\ OnShow(s).content = pview.content /\ (OnShow(s).scripted <=> pview.scripted)
                          /\ (OnShow(s).overtaken <=> pview.overtaken)
  <2>1. /\ [pview EXCEPT !.offset = 0] \in PreviewRecord /\ [pview EXCEPT !.offset = 0].item = pview.item
        /\ [pview EXCEPT !.offset = 0].content = pview.content /\ ([pview EXCEPT !.offset = 0].scripted <=> pview.scripted)
        /\ ([pview EXCEPT !.offset = 0].overtaken <=> pview.overtaken)
    <3>1. 0 \in Int
      OBVIOUS
    <3> QED BY <1>1, <3>1, OffsetUpdate, Zenon
  <2>2. OnShow(s) = pview \/ OnShow(s) = [pview EXCEPT !.offset = 0]
    BY Zenon DEF OnShow
  <2> QED BY <1>1, <2>1, <2>2, Zenon
<1> HIDE DEF Split
<1>11. CASE \E item \in Items : SelectionMoves(item)
  <2>1. PICK item \in Items : SelectionMoves(item)
    BY <1>11
  <2>2. highlighted' = item /\ changes' = changes + 1 /\ pview' = pview /\ split' = split
    BY <2>1 DEF SelectionMoves
  <2>3. changes' \in Nat /\ changes' > 0
    BY <1>1, <2>2
  <2>4. ItemIsComing'
    BY <2>3 DEF ItemIsComing
  <2>5. pview'.item = pview.item /\ pview'.content \in {pview.content, ScriptText} /\ (pview'.overtaken <=> pview.overtaken)
    BY <2>2
  <2> QED BY <1>1, <1>2, <1>4, <2>2, <2>3, <2>4, <2>5
<1>12. CASE \E delta \in {-1, 1} : PreviewScroll(delta)
  <2>1. PICK delta \in {-1, 1} : PreviewScroll(delta)
    BY <1>12
  <2>2. highlighted' = highlighted /\ changes' = changes /\ split' = split /\ pview' = [pview EXCEPT !.offset = @ + delta]
    BY <2>1 DEF PreviewScroll
  <2>3. /\ pview' \in PreviewRecord /\ pview'.item = pview.item /\ pview'.content = pview.content
        /\ (pview'.scripted <=> pview.scripted) /\ (pview'.overtaken <=> pview.overtaken)
    <3>1. pview.offset + delta \in Int /\ pview' = [pview EXCEPT !.offset = pview.offset + delta]
      BY <1>1, <2>2 DEF PreviewRecord
    <3> QED BY <1>1, <3>1, OffsetUpdate, Zenon
  <2>4. ItemIsComing'
    BY <1>3, <2>2, <2>3 DEF ItemIsComing, Coming, NoneIsLatest
  <2> QED BY <1>1, <1>2, <1>4, <2>2, <2>3, <2>4
<1>13. CASE PreviewToggle
  <2>1. changes' \in Nat /\ changes' > 0 /\ highlighted' = highlighted
    BY <1>1, <1>13 DEF PreviewToggle
  <2>2. split' \in Split /\ OneFocus(split')
    <3>1. split' = setContentFocused(ToggleContent(split, "preview"), FALSE)
      BY <1>13 DEF PreviewToggle
    <3>2. CASE split.active = "preview"
      BY <1>1, <1>2, <1>6, <1>8, <3>1, <3>2 DEF ToggleContent
    <3>3. CASE split.active # "preview"
      BY <1>1, <1>2, <1>5, <3>1, <3>3 DEF ToggleContent
    <3> QED BY <3>2, <3>3
  <2>3. /\ pview' \in PreviewRecord /\ pview'.item = pview.item /\ pview'.content = pview.content
        /\ (pview'.overtaken <=> pview.overtaken)
    BY <1>10, <1>13 DEF PreviewToggle
  <2>4. ItemIsComing'
    BY <2>1 DEF ItemIsComing
  <2> QED BY <1>1, <1>4, <2>1, <2>2, <2>3, <2>4
<1>14. CASE ShowPreview
  <2>1. highlighted' = highlighted /\ changes' = IF split.active = "preview" THEN changes ELSE changes + 1
    BY <1>14 DEF ShowPreview
  <2>2. split' \in Split /\ OneFocus(split') /\ split'.active = "preview"
    BY <1>1, <1>2, <1>5, <1>14 DEF ShowPreview
  <2>3. /\ pview' \in PreviewRecord /\ pview'.item = pview.item /\ pview'.content = pview.content
        /\ (pview'.scripted <=> pview.scripted) /\ (pview'.overtaken <=> pview.overtaken)
    BY <1>10, <1>14 DEF ShowPreview
  <2>4. ItemIsComing'
    <3>1. CASE split.active = "preview"
      BY <1>3, <2>1, <2>3, <3>1 DEF ItemIsComing, Coming, NoneIsLatest
    <3>2. CASE split.active # "preview"
      <4>1. changes' > 0
        BY <1>1, <2>1, <3>2
      <4> QED BY <4>1 DEF ItemIsComing
    <3> QED BY <3>1, <3>2
  <2>5. changes' \in Nat
    BY <1>1, <2>1
  <2> QED BY <1>1, <1>4, <2>1, <2>2, <2>3, <2>4, <2>5
<1>15. CASE PreviewShow
  <2>1. highlighted' = highlighted /\ changes' = changes
    BY <1>15 DEF PreviewShow
  <2>2. split' \in Split /\ OneFocus(split')
    BY <1>1, <1>2, <1>5, <1>15 DEF PreviewShow
  <2>3. /\ pview' \in PreviewRecord /\ pview'.item = pview.item /\ pview'.content = ScriptText
        /\ (pview'.scripted <=> (pview.scripted \/ split.active # "preview")) /\ (pview'.overtaken <=> pview.overtaken)
    <3> DEFINE shown == SetContent(ScriptText, pview.item)
    <3>1. pview.item \in Items \cup {NoItem}
      BY <1>1, Zenon DEF PreviewRecord
    <3>2. ScriptText \in Items \cup {ScriptText}
      OBVIOUS
    <3>3. /\ shown \in PreviewRecord /\ shown.item = pview.item /\ shown.content = ScriptText
          /\ (shown.scripted <=> pview.scripted) /\ (shown.overtaken <=> pview.overtaken)
      BY <1>1, <3>1, <3>2, ContentUpdate, Zenon
    <3> DEFINE b == shown.scripted \/ split.active # "preview"
    <3>4. pview' = [shown EXCEPT !.scripted = b]
      BY <1>15 DEF PreviewShow
    <3> HIDE DEF shown
    <3>5. b \in BOOLEAN
      OBVIOUS
    <3>6. b <=> (pview.scripted \/ split.active # "preview")
      BY <3>3
    <3> HIDE DEF b
    <3>7. /\ pview' \in PreviewRecord /\ pview'.item = shown.item /\ pview'.content = shown.content
          /\ (pview'.scripted <=> b) /\ (pview'.overtaken <=> shown.overtaken)
      BY <3>3, <3>4, <3>5, HistoryUpdate, Zenon
    <3> QED BY <3>3, <3>6, <3>7, Zenon
  <2>4. ItemIsComing'
    <3>1. CASE split.active = "preview"
      BY <1>3, <2>1, <2>3, <3>1 DEF ItemIsComing, Coming, NoneIsLatest
    <3>2. CASE split.active # "preview"
      BY <2>3, <3>2 DEF ItemIsComing
    <3> QED BY <3>1, <3>2
  <2> QED BY <1>1, <1>4, <2>1, <2>2, <2>3, <2>4
<1>16. CASE ToggleBookmarkPane
  <2>1. highlighted' = highlighted /\ changes' = changes /\ pview' = pview
    BY <1>16 DEF ToggleBookmarkPane
  <2>2. split' \in Split /\ OneFocus(split') /\ split'.active # "preview"
    BY <1>1, <1>2, <1>6, <1>7, <1>16 DEF ToggleBookmarkPane
  <2>3. ItemIsComing'
    BY <2>2 DEF ItemIsComing
  <2>4. pview'.item = pview.item /\ pview'.content \in {pview.content, ScriptText} /\ (pview'.overtaken <=> pview.overtaken)
    BY <2>1
  <2> QED BY <1>1, <1>4, <2>1, <2>2, <2>3, <2>4
<1>17. CASE \E focused \in BOOLEAN : FocusOther(focused)
  <2>0. PICK focused \in BOOLEAN : FocusOther(focused)
    BY <1>17
  <2>1. highlighted' = highlighted /\ changes' = changes /\ pview' = pview
    BY <2>0 DEF FocusOther
  <2>2. split' \in Split /\ OneFocus(split') /\ split'.active # "preview"
    BY <1>1, <1>2, <1>9, <2>0 DEF FocusOther
  <2>3. ItemIsComing'
    BY <2>2 DEF ItemIsComing
  <2>4. pview'.item = pview.item /\ pview'.content \in {pview.content, ScriptText} /\ (pview'.overtaken <=> pview.overtaken)
    BY <2>1
  <2> QED BY <1>1, <1>4, <2>1, <2>2, <2>3, <2>4
<1> QED
  BY <1>11, <1>12, <1>13, <1>14, <1>15, <1>16, <1>17

\* An answer is shown, or lost when the preview is hidden.
LEMMA PreviewUpdateKeeps ==
  ASSUME PreviewInv, NEW i \in 1 .. Len(answers), UpdatePreviewContent(i)
  PROVE  PreviewInv'
<1> USE DEF PreviewInv
<1> DEFINE N == Len(answers)
           at(j) == IF j < i THEN j ELSE j + 1
           a == answers[i]
<1>1. answers \in Seq(PreviewAnswer) /\ pview \in PreviewRecord /\ pcalls \in Seq(DebouncedCall)
  BY Zenon DEF PreviewTypeOK
<1>2. answers' = RemoveAt(answers, i) /\ UNCHANGED <<highlighted, changes, pcalls, split>>
  BY DEF UpdatePreviewContent
<1>3. N \in Nat /\ a \in PreviewAnswer /\ a.item \in Items /\ a.late \in BOOLEAN
  <2>1. N \in Nat /\ a \in PreviewAnswer
    BY <1>1
  <2> QED BY <2>1, Zenon DEF PreviewAnswer
<1>4. answers' \in Seq(PreviewAnswer) /\ Len(answers') = N - 1 /\ \A j \in 1 .. N - 1 : answers'[j] = answers[at(j)]
  BY <1>1, <1>2, RemoveAtElements
<1>5. /\ \A j \in 1 .. N - 1 : at(j) \in 1 .. N /\ at(j) # i
      /\ \A j, k \in 1 .. N - 1 : at(j) = at(k) => j = k
  BY <1>3
<1>6. \A k \in 1 .. N : k # i => \E j \in 1 .. N - 1 : at(j) = k
  <2> TAKE k \in 1 .. N
  <2> HAVE k # i
  <2>1. CASE k < i
    <3> WITNESS k \in 1 .. N - 1
    <3> QED BY <2>1
  <2>2. CASE k > i
    <3>1. k - 1 \in 1 .. N - 1
      BY <1>3, <2>2
    <3> WITNESS k - 1 \in 1 .. N - 1
    <3> QED BY <2>2, <3>1
  <2> QED BY <1>3, <2>1, <2>2
<1> HIDE DEF at
<1>7. /\ \A j \in 1 .. Len(answers') : \E k \in 1 .. N : k # i /\ answers'[j] = answers[k]
      /\ \A k \in 1 .. N : k # i => \E j \in 1 .. Len(answers') : answers'[j] = answers[k]
      /\ \A j, k \in 1 .. Len(answers') : ~answers'[j].late /\ ~answers'[k].late => j = k
  <2>1. \A j, k \in 1 .. N - 1 : ~answers'[j].late /\ ~answers'[k].late => j = k
    BY <1>4, <1>5 DEF AnswerInv
  <2> QED BY <1>4, <1>5, <1>6, <2>1
<1>8. (NoneIsLatest' <=> NoneIsLatest) /\ OneIsLatest' /\ FocusIsInOnePlace'
  BY <1>2 DEF NoneIsLatest, OneIsLatest, FocusIsInOnePlace
<1> HIDE DEF N, a
\* What the preview shows.
<1>9. CASE split.active # "preview"
  <2>1. pview' = pview
    BY <1>9 DEF UpdatePreviewContent
  <2>2. PreviewTypeOK'
    BY <1>1, <1>2, <1>4, <2>1 DEF PreviewTypeOK
  <2>3. LatestIsNews' /\ ItemIsComing'
    BY <1>2, <1>9, <2>1 DEF LatestIsNews, ItemIsComing
  <2>4. AnswerInv'
    <3>1. /\ \A k \in 1 .. N : ~answers[k].late => NoneIsLatest
          /\ ~pview.overtaken => \A k \in 1 .. N : ~answers[k].late => answers[k].item # pview.item
          /\ pview.content \in {pview.item, ScriptText}
      BY Zenon DEF AnswerInv, N
    <3>2. \A j \in 1 .. Len(answers') : ~answers'[j].late => NoneIsLatest'
      BY <1>7, <1>8, <3>1
    <3>3. ~pview'.overtaken => \A j \in 1 .. Len(answers') : ~answers'[j].late => answers'[j].item # pview'.item
      BY <1>7, <2>1, <3>1
    <3> QED BY <1>7, <2>1, <3>1, <3>2, <3>3, Zenon DEF AnswerInv
  <2> QED BY <1>8, <2>2, <2>3, <2>4
<1>10. CASE split.active = "preview"
  <2> DEFINE shown == SetContent(a.item, a.item)
             over == a.late /\ (shown.overtaken \/ ~WillLook)
  <2>1. pview' = [shown EXCEPT !.overtaken = over]
    BY <1>10 DEF UpdatePreviewContent, a
  <2>2. /\ shown \in PreviewRecord /\ shown.item = a.item /\ shown.content = a.item
        /\ (shown.scripted <=> pview.scripted) /\ (shown.overtaken <=> pview.overtaken)
    BY <1>1, <1>3, ContentUpdate
  <2> HIDE DEF shown
  <2>3. over \in BOOLEAN /\ (over <=> (a.late /\ (pview.overtaken \/ ~WillLook)))
    BY <2>2, Zenon
  <2> HIDE DEF over
  <2>4. /\ pview' \in PreviewRecord /\ pview'.item = a.item /\ pview'.content = a.item
        /\ (pview'.scripted <=> pview.scripted)
        /\ (pview'.overtaken <=> (a.late /\ (pview.overtaken \/ ~WillLook)))
    <3>1. /\ pview' \in PreviewRecord /\ pview'.item = shown.item /\ pview'.content = shown.content
          /\ (pview'.overtaken <=> over) /\ (pview'.scripted <=> shown.scripted)
      BY <2>1, <2>2, <2>3, HistoryUpdate, Zenon
    <3> QED BY <2>2, <2>3, <3>1, Zenon
  <2>5. PreviewTypeOK'
    BY <1>2, <1>4, <2>4 DEF PreviewTypeOK
  \* A late answer that leaves the preview in step comes before the latest call looks.
  <2>6. a.late /\ ~pview'.overtaken => \E k \in 1 .. Len(pcalls) : pcalls[k].entry /\ pcalls[k].stage # "running"
    <3>1. DOMAIN pcalls = 1 .. Len(pcalls)
      BY <1>1
    <3> QED BY <2>4, <3>1 DEF WillLook
  \* An answer in time is the only one, and no call is the latest.
  <2>7. ~a.late => NoneIsLatest /\ \A j \in 1 .. Len(answers') : answers'[j].late
    <3>1. ~a.late => NoneIsLatest
      BY DEF AnswerInv, a
    <3>2. ASSUME ~a.late, NEW k \in 1 .. N, k # i PROVE answers[k].late
      BY <3>2 DEF AnswerInv, a, N
    <3> QED BY <1>7, <3>1, <3>2
  <2>8. LatestIsNews'
    <3>1. ASSUME ~pview'.overtaken, NEW k \in 1 .. Len(pcalls), pcalls[k].entry, pcalls[k].stage = "running"
          PROVE  FALSE
      BY <2>6, <2>7, <3>1 DEF NoneIsLatest, OneIsLatest
    <3> QED BY <1>2, <3>1 DEF LatestIsNews
  <2>9. AnswerInv'
    <3>1. \A j \in 1 .. Len(answers') : ~answers'[j].late => NoneIsLatest
      BY <1>7 DEF AnswerInv, N
    <3>2. ~pview'.overtaken => \A j \in 1 .. Len(answers') : answers'[j].late
      BY <2>6, <2>7, <3>1 DEF NoneIsLatest
    <3> QED BY <1>7, <1>8, <2>4, <3>1, <3>2 DEF AnswerInv
  <2>10. ItemIsComing'
    <3>1. CASE \E k \in 1 .. Len(pcalls) : pcalls[k].entry /\ pcalls[k].item = highlighted
      BY <1>2, <3>1 DEF ItemIsComing, Coming
    <3>2. CASE NoneIsLatest /\ \E k \in 1 .. N : ~answers[k].late /\ answers[k].item = highlighted
      <4>1. PICK k \in 1 .. N : ~answers[k].late /\ answers[k].item = highlighted
        BY <3>2
      <4>2. CASE k = i
        <5>1. a.item = highlighted /\ ~a.late
          BY <4>1, <4>2 DEF a
        <5> QED BY <1>2, <1>8, <2>4, <2>7, <5>1 DEF ItemIsComing, Coming
      <4>3. CASE k # i
        BY <1>2, <1>7, <1>8, <3>2, <4>1, <4>3 DEF ItemIsComing, Coming
      <4> QED BY <4>2, <4>3
    <3>3. CASE NoneIsLatest /\ \A k \in 1 .. N : answers[k].late
      <4>1. a.late
        BY <3>3 DEF a, N
      <4>2. pview'.overtaken
        BY <2>6, <3>3, <4>1 DEF NoneIsLatest
      <4>3. \A j \in 1 .. Len(answers') : answers'[j].late
        BY <1>7, <3>3
      <4> QED BY <1>8, <3>3, <4>2, <4>3 DEF ItemIsComing, Coming
    <3>4. CASE ~Coming
      BY <1>2, <1>10, <2>4, <3>4 DEF ItemIsComing
    <3> QED BY <3>1, <3>2, <3>3, <3>4 DEF Coming, N
  <2> QED BY <1>8, <2>5, <2>8, <2>9, <2>10
<1> QED BY <1>9, <1>10

\* The inductive invariant holds throughout, whatever keys, timers and answers do.
THEOREM PreviewInvariance == PreviewSpec => []PreviewInv
<1>1. PreviewInv /\ [PreviewNext]_previewVars => PreviewInv'
  <2> SUFFICES ASSUME PreviewInv, [PreviewNext]_previewVars PROVE PreviewInv'
    OBVIOUS
  <2>1. CASE SelectionChanged
    BY <2>1, PreviewSelectionKeeps
  <2>2. CASE \E i \in DOMAIN answers : UpdatePreviewContent(i)
    <3>1. answers \in Seq(PreviewAnswer)
      BY Zenon DEF PreviewInv, PreviewTypeOK
    <3>2. DOMAIN answers = 1 .. Len(answers)
      BY <3>1
    <3> QED BY <2>2, <3>2, PreviewUpdateKeeps
  <2>3. CASE \E i \in DOMAIN pcalls : TimerEnds(i) \/ ReadContentItem(i) \/ CommandEnds(i)
    <3>1. pcalls \in Seq(DebouncedCall)
      BY Zenon DEF PreviewInv, PreviewTypeOK
    <3>2. DOMAIN pcalls = 1 .. Len(pcalls)
      BY <3>1
    <3> QED BY <2>3, <3>2, PreviewCallKeeps
  <2>4. CASE UNCHANGED previewVars
    BY <2>4 DEF previewVars, PreviewInv, PreviewTypeOK, OneIsLatest, LatestIsNews, AnswerInv, ItemIsComing,
                Coming, NoneIsLatest, FocusIsInOnePlace
  <2>5. CASE \/ \E item \in Items : SelectionMoves(item)
             \/ \E delta \in {-1, 1} : PreviewScroll(delta)
             \/ PreviewToggle \/ ShowPreview \/ PreviewShow \/ ToggleBookmarkPane
             \/ \E focused \in BOOLEAN : FocusOther(focused)
    BY <2>5, PreviewOtherKeeps
  <2> QED
    BY <2>1, <2>2, <2>3, <2>4, <2>5, Zenon DEF PreviewNext
<1> QED
  BY <1>1, PreviewInitHolds, PTL DEF PreviewSpec

\* Once nothing is under way the preview has the output of the highlighted item, unless a script opened
\* it or a late answer overtook the newest call; an answer in time brings an item that is not shown; and
\* one of list and pane has the focus.
THEOREM PreviewSound == PreviewSpec => []PreviewIsSound
<1>1. PreviewInv => PreviewIsSound
  <2> SUFFICES ASSUME PreviewInv PROVE PreviewIsSound
    OBVIOUS
  <2> USE DEF PreviewInv
  <2>1. PreviewIsCurrent
    <3> SUFFICES ASSUME split.active = "preview", changes = 0, pcalls = <<>>, answers = <<>>, ~pview.scripted,
                        ~pview.overtaken
                 PROVE  pview.item = highlighted /\ pview.content \in {highlighted, ScriptText}
      BY DEF PreviewIsCurrent
    <3>1. ~(changes > 0) /\ Len(pcalls) = 0 /\ Len(answers) = 0
      OBVIOUS
    <3>2. pview.item = highlighted
      BY <3>1 DEF ItemIsComing, Coming
    <3> QED BY <3>2 DEF AnswerInv
  <2>2. AnswersAreNews
    <3>1. answers \in Seq(PreviewAnswer)
      BY Zenon DEF PreviewTypeOK
    <3>2. DOMAIN answers = 1 .. Len(answers)
      BY <3>1
    <3> QED BY <3>2 DEF AnswersAreNews, AnswerInv
  <2> QED BY <2>1, <2>2 DEF PreviewIsSound
<1> QED
  BY <1>1, PreviewInvariance, PTL

-----------------------------------------------------------------------------
(* The versions of a change.                                                 *)
\* The list of versions; the cursor is on one of them when there is one.
EvologTypeOK ==
  /\ evolog \in [open : BOOLEAN, mode : {"select", "restore"}, rows : Nat, cursor : Nat,
                 rev : ERevisions, target : ERevisions]
  /\ evolog.cursor \in 1 .. (IF evolog.rows = 0 THEN 1 ELSE evolog.rows)

\* The cursor stays on a version, also when a click or a key names one that is not there.
LEMMA EvologCursorMoves ==
  ASSUME EvologTypeOK, NEW i \in Int, evolog' = SetEvologCursor(i)
  PROVE  EvologTypeOK'
BY DEF EvologTypeOK, SetEvologCursor

\* Whatever loads, clicks and keys do, the cursor is on one of the versions.
THEOREM EvologTyped == EvologSpec => []EvologTypeOK
<1>1. EvologInit => EvologTypeOK
  BY DEF EvologInit, EvologTypeOK, NewEvolog
<1>2. EvologTypeOK /\ [EvologNext]_evologVars => EvologTypeOK'
  <2> SUFFICES ASSUME EvologTypeOK, [EvologNext]_evologVars PROVE EvologTypeOK'
    OBVIOUS
  <2>1. CASE EvologArrives
    <3>1. PICK n \in 0 .. MaxVersions : evolog' = [evolog EXCEPT !.rows = n, !.cursor = 1]
      BY <2>1 DEF EvologArrives
    <3>2. n \in Nat
      BY EvologAssumption
    <3>3. evolog'.rows = n /\ evolog'.cursor = 1
      BY <3>1 DEF EvologTypeOK
    <3>4. 1 \in 1 .. (IF n = 0 THEN 1 ELSE n)
      BY <3>2
    <3> QED BY <3>1, <3>2, <3>3, <3>4 DEF EvologTypeOK
  <2>2. CASE EvologSelectionChanged
    BY <2>2 DEF EvologSelectionChanged, EvologTypeOK
  <2>3. CASE EvologRestore \/ EvologPanics \/ EvologCloses
    BY <2>3 DEF EvologRestore, EvologPanics, EvologCloses, EvologTypeOK
  <2>4. CASE EvologClicked
    <3>1. PICK i \in 1 .. eFrame.rows : evolog' = SetEvologCursor(i)
      BY <2>4 DEF EvologClicked
    <3> QED BY <3>1, EvologCursorMoves
  <2>5. CASE EvologDraws \/ EvologApply \/ EvologCancel \/ UNCHANGED evologVars
    BY <2>5 DEF EvologDraws, EvologApply, EvologCancel, evologVars, EvologTypeOK
  <2>6. ASSUME NEW step \in {-2, -1, 1, 2}, EvologNavigate(step) PROVE EvologTypeOK'
    <3>1. evolog' = evolog \/ \E i \in Int : evolog' = SetEvologCursor(i)
      BY <2>6 DEF EvologNavigate, EvologNavigates, EvologTypeOK
    <3> QED BY <3>1, EvologCursorMoves DEF EvologTypeOK
  <2> QED BY <2>1, <2>2, <2>3, <2>4, <2>5, <2>6 DEF EvologNext
<1> QED BY <1>1, <1>2, PTL DEF EvologSpec

\* What is restored is the version chosen: once the restore mode is on screen and the versions
\* have come, no key, click or message moves the cursor among them.
THEOREM RestoreKeeps == EvologSpec => RestoreKeepsVersion
<1> DEFINE SameCursor == evolog.mode = "restore" /\ eFrame.mode = "restore" /\ <<"versions", 0>> \notin eMsgs
                         => evolog'.cursor = evolog.cursor
<1>1. EvologTypeOK /\ [EvologNext]_evologVars => [SameCursor]_evologVars
  <2> SUFFICES ASSUME EvologTypeOK, EvologNext, evolog.mode = "restore", eFrame.mode = "restore",
                      <<"versions", 0>> \notin eMsgs
               PROVE  evolog'.cursor = evolog.cursor
    OBVIOUS
  <2>1. ~EvologArrives /\ ~EvologClicked
    BY DEF EvologArrives, EvologClicked
  <2>2. CASE EvologSelectionChanged \/ EvologRestore \/ EvologPanics \/ EvologCloses
    BY <2>2 DEF EvologSelectionChanged, EvologRestore, EvologPanics, EvologCloses, EvologTypeOK
  <2>3. CASE EvologDraws \/ EvologApply \/ EvologCancel
    BY <2>3 DEF EvologDraws, EvologApply, EvologCancel
  <2>4. CASE \E step \in {-2, -1, 1, 2} : EvologNavigate(step)
    BY <2>4 DEF EvologNavigate
  <2> QED BY <2>1, <2>2, <2>3, <2>4 DEF EvologNext
<1> QED BY <1>1, EvologTyped, PTL DEF EvologSpec, RestoreKeepsVersion

-----------------------------------------------------------------------------
(* The description editor.                                                   *)
\* The editor: its text, its cursor, the line it has killed and the question it may ask.
Characters == {Letter, LineEnd}

DescribeAnswers == {"discard", "question closed"}

DescribeQuestions ==
  [options : Seq(SUBSET Seq(DescribeAnswers)), esc : Nat, at : Nat, about : {{}}, touched : BOOLEAN]

DescribeRecord ==
  [open : BOOLEAN, text : Seq(Characters), pos : Nat, original : Seq(Characters),
   killed : Seq(Characters), question : DescribeQuestions]

DescribeTypeOK == desc \in DescribeRecord /\ desc.pos <= Len(desc.text)

\* An editor with a text and a cursor in it.
InText(d) == d.text \in Seq(Characters) /\ d.pos \in Nat /\ d.pos <= Len(d.text)

\* Where the line begins: at the start, or after a line end.
LEMMA LineFromIs ==
  ASSUME NEW d, InText(d)
  PROVE  /\ LineFrom(d) \in 0 .. d.pos
         /\ LineFrom(d) > 0 => d.text[LineFrom(d)] = LineEnd
<1> DEFINE T == {0} \cup {i \in 1 .. d.pos : d.text[i] = LineEnd}
<1>1. T \subseteq 0 .. d.pos /\ T # {} /\ d.pos \in Nat
  BY DEF InText
<1>2. \E x \in T : \A y \in T : x >= y
  BY <1>1, GreatestOf
<1>3. LineFrom(d) = CHOOSE x \in T : \A y \in T : x >= y
  BY DEF LineFrom, Max
<1>4. LineFrom(d) \in T
  BY <1>2, <1>3
<1> QED BY <1>1, <1>4

\* Where the line ends: at the end, or before a line end.
LEMMA LineToIs ==
  ASSUME NEW d, InText(d)
  PROVE  /\ LineTo(d) \in d.pos .. Len(d.text)
         /\ LineTo(d) < Len(d.text) => d.text[LineTo(d) + 1] = LineEnd
<1> DEFINE T == {Len(d.text)} \cup {i \in d.pos .. Len(d.text) - 1 : d.text[i + 1] = LineEnd}
<1>1. T \subseteq Nat /\ T \subseteq d.pos .. Len(d.text) /\ T # {}
  BY DEF InText
<1>2. \E x \in T : \A y \in T : x <= y
  BY <1>1, LeastOf
<1>3. LineTo(d) = CHOOSE x \in T : \A y \in T : x <= y
  BY DEF LineTo, Min
<1>4. LineTo(d) \in T
  BY <1>2, <1>3
<1> QED BY <1>1, <1>4

\* The two parts of a concatenation can be taken apart again.
LEMMA ConcatParts ==
  ASSUME NEW S, NEW a \in Seq(S), NEW b \in Seq(S)
  PROVE  /\ SubSeq(a \o b, 1, Len(a)) = a
         /\ SubSeq(a \o b, Len(a) + 1, Len(a \o b)) = b
<1> DEFINE t == a \o b
<1>1. /\ t \in Seq(S) /\ Len(t) = Len(a) + Len(b)
      /\ \A i \in 1 .. Len(a) + Len(b) : t[i] = IF i <= Len(a) THEN a[i] ELSE b[i - Len(a)]
  BY ConcatProperties
<1>2. Len(a) \in Nat /\ Len(b) \in Nat
  BY LenProperties
<1> HIDE DEF t
<1>3. \A i \in 1 .. Len(t) : t[i] \in S
  BY <1>1, ElementOfSeq
<1>4. SubSeq(t, 1, Len(a)) = a
  <2>1. \A i \in 1 .. Len(a) : t[i] \in S
    BY <1>1, <1>2, <1>3
  <2>2. /\ SubSeq(t, 1, Len(a)) \in Seq(S)
        /\ Len(SubSeq(t, 1, Len(a))) = Len(a)
        /\ \A i \in 1 .. Len(a) : SubSeq(t, 1, Len(a))[i] = t[i]
    BY <1>2, <2>1, SubSeqProperties
  <2>3. \A i \in 1 .. Len(a) : t[i] = a[i]
    BY <1>1, <1>2
  <2> QED BY <2>2, <2>3, SeqEqual
<1>5. SubSeq(t, Len(a) + 1, Len(t)) = b
  <2> DEFINE e == SubSeq(t, Len(a) + 1, Len(t))
  <2>1. \A i \in Len(a) + 1 .. Len(t) : t[i] \in S
    BY <1>1, <1>2, <1>3
  <2>2. /\ e \in Seq(S)
        /\ Len(e) = IF Len(a) + 1 <= Len(t) THEN Len(t) - (Len(a) + 1) + 1 ELSE 0
        /\ \A i \in 1 .. Len(t) - (Len(a) + 1) + 1 : e[i] = t[Len(a) + 1 + i - 1]
    BY <1>1, <1>2, <2>1, SubSeqProperties
  <2> HIDE DEF e
  <2>3. Len(e) = Len(b)
    BY <1>1, <1>2, <2>2
  <2>4. ASSUME NEW i \in 1 .. Len(b) PROVE e[i] = b[i]
    <3>1. i \in 1 .. Len(t) - (Len(a) + 1) + 1 /\ Len(a) + 1 + i - 1 = Len(a) + i
      BY <1>1, <1>2
    <3>2. Len(a) + i \in 1 .. Len(a) + Len(b) /\ ~(Len(a) + i <= Len(a)) /\ (Len(a) + i) - Len(a) = i
      BY <1>2
    <3>3. e[i] = t[Len(a) + i]
      BY <2>2, <3>1
    <3> QED BY <1>1, <3>2, <3>3
  <2>5. e = b
    BY <2>2, <2>3, <2>4, SeqEqual
  <2> QED BY <2>5 DEF e
<1> QED BY <1>4, <1>5 DEF t

\* What is cut out of a text and put back where it was gives the text.
LEMMA CutIsUndone ==
  ASSUME NEW S, NEW s \in Seq(S), NEW from \in Nat, NEW to \in Nat, from <= to, to <= Len(s)
  PROVE  LET t == SubSeq(s, 1, from) \o SubSeq(s, to + 1, Len(s))
         IN  /\ t \in Seq(S) /\ Len(t) >= from /\ Len(t) <= Len(s)
             /\ SubSeq(t, 1, from) \o SubSeq(s, from + 1, to) \o SubSeq(t, from + 1, Len(t)) = s
<1> DEFINE a == SubSeq(s, 1, from)
           b == SubSeq(s, to + 1, Len(s))
           k == SubSeq(s, from + 1, to)
<1>0. Len(s) \in Nat /\ \A i \in 1 .. Len(s) : s[i] \in S
  BY LenProperties, ElementOfSeq
<1>1. a \in Seq(S) /\ Len(a) = from
  <2>1. \A i \in 1 .. from : s[i] \in S
    BY <1>0
  <2> QED BY <2>1, SubSeqProperties
<1>2. b \in Seq(S) /\ Len(b) = Len(s) - to
  <2>1. \A i \in to + 1 .. Len(s) : s[i] \in S
    BY <1>0
  <2>2. b \in Seq(S) /\ Len(b) = IF to + 1 <= Len(s) THEN Len(s) - (to + 1) + 1 ELSE 0
    BY <1>0, <2>1, SubSeqProperties
  <2> QED BY <1>0, <2>2
<1>3. a \o k = SubSeq(s, 1, to) /\ SubSeq(s, 1, to) \o b = s
  <2>1. 1 \in 1 .. Len(s) + 1 /\ from \in 1 - 1 .. Len(s) /\ to \in from .. Len(s)
        /\ to \in 1 - 1 .. Len(s) /\ Len(s) \in to .. Len(s)
    BY <1>0
  <2>2. a \o k = SubSeq(s, 1, to)
    BY <2>1, ConcatAdjacentSubSeq
  <2>3. SubSeq(s, 1, to) \o b = SubSeq(s, 1, Len(s))
    BY <2>1, ConcatAdjacentSubSeq
  <2> QED BY <2>2, <2>3, SubSeqFull
<1> HIDE DEF a, b, k
<1>4. (a \o k) \o b = s
  BY <1>3
<1>5. a \o b \in Seq(S) /\ Len(a \o b) = from + (Len(s) - to)
  <2>1. a \o b \in Seq(S) /\ Len(a \o b) = Len(a) + Len(b)
    BY <1>1, <1>2, ConcatProperties
  <2> QED BY <1>1, <1>2, <2>1
<1>6. SubSeq(a \o b, 1, from) = a /\ SubSeq(a \o b, from + 1, Len(a \o b)) = b
  BY <1>1, <1>2, ConcatParts
<1>7. Len(a \o b) >= from /\ Len(a \o b) <= Len(s)
  BY <1>0, <1>5
<1> QED BY <1>4, <1>5, <1>6, <1>7 DEF a, b, k
\* A cut leaves the cursor in the text, and inserting what was cut undoes it.
LEMMA CutKeepsText ==
  ASSUME NEW d \in DescribeRecord, NEW from \in Nat, NEW to \in Nat, from <= to, to <= Len(d.text)
  PROVE  LET c == Cut(d, from, to)
         IN  /\ c \in DescribeRecord /\ c.pos <= Len(c.text) /\ c.killed = d.killed
             /\ InsertString(c, SubSeq(d.text, from + 1, to)).text = d.text
<1> DEFINE s == d.text
           t == SubSeq(s, 1, from) \o SubSeq(s, to + 1, Len(s))
           c == Cut(d, from, to)
<1>1. s \in Seq(Characters) /\ from <= to /\ to <= Len(s)
  BY DEF DescribeRecord
<1>3. c = [d EXCEPT !.text = t, !.pos = from]
  BY DEF Cut
<1> HIDE DEF s, c
<1>2. /\ t \in Seq(Characters) /\ Len(t) >= from
      /\ SubSeq(t, 1, from) \o SubSeq(s, from + 1, to) \o SubSeq(t, from + 1, Len(t)) = s
  BY <1>1, CutIsUndone, ZenonT(60)
<1> HIDE DEF t
<1>4. c \in DescribeRecord /\ c.pos = from /\ c.text = t /\ c.killed = d.killed
  BY <1>2, <1>3 DEF DescribeRecord
<1>5. InsertString(c, SubSeq(s, from + 1, to)).text
      = SubSeq(c.text, 1, c.pos) \o SubSeq(s, from + 1, to) \o SubSeq(c.text, c.pos + 1, Len(c.text))
  BY <1>4 DEF InsertString, DescribeRecord
<1>6. InsertString(c, SubSeq(s, from + 1, to)).text = s
  BY <1>2, <1>4, <1>5
<1> QED BY <1>2, <1>4, <1>6 DEF c, s

\* Ctrl+K and Ctrl+U leave the cursor in the text, and delete what describe has noted.
LEMMA KillIsNoted ==
  ASSUME DescribeTypeOK, NEW forward \in BOOLEAN
  PROVE  LET new == Kill(forward)
         IN  /\ new \in DescribeRecord /\ new.pos <= Len(new.text)
             /\ new.text = desc.text \/ InsertString(new, new.killed).text = desc.text
<1> DEFINE d == captureKilledText(desc, forward)
           s == desc.text
           p == desc.pos
           lf == LineFrom(desc)
           lt == LineTo(desc)
           new == Kill(forward)
<1>1. desc \in DescribeRecord /\ InText(desc) /\ s \in Seq(Characters) /\ p \in Nat /\ Len(s) \in Nat /\ p <= Len(s)
  BY DEF DescribeTypeOK, DescribeRecord, InText
<1>2. /\ lf \in 0 .. p /\ (lf > 0 => s[lf] = LineEnd)
      /\ lt \in p .. Len(s) /\ (lt < Len(s) => s[lt + 1] = LineEnd)
  BY <1>1, LineFromIs, LineToIs
<1>3. ASSUME NEW from \in Nat, NEW to \in Nat, from <= to, to <= Len(s) PROVE SubSeq(s, from + 1, to) \in Seq(Characters)
  <2>1. \A i \in from + 1 .. to : s[i] \in Characters
    BY <1>1, <1>3, ElementOfSeq
  <2> QED BY <2>1, SubSeqProperties
<1>4. ASSUME NEW i \in 1 .. Len(s), s[i] = LineEnd PROVE SubSeq(s, i, i) = <<LineEnd>>
  <2> HIDE DEF s
  <2>1. \A j \in i .. i : s[j] \in Characters
    BY <1>1, <1>4, ElementOfSeq
  <2>2. /\ SubSeq(s, i, i) \in Seq(Characters) /\ Len(SubSeq(s, i, i)) = IF i <= i THEN i - i + 1 ELSE 0
        /\ \A j \in 1 .. i - i + 1 : SubSeq(s, i, i)[j] = s[i + j - 1]
    BY <1>1, <2>1, SubSeqProperties
  <2>3. Len(SubSeq(s, i, i)) = 1 /\ SubSeq(s, i, i)[1] = LineEnd
    BY <1>1, <1>4, <2>2
  <2>4. <<LineEnd>> \in Seq(Characters) /\ Len(<<LineEnd>>) = 1 /\ <<LineEnd>>[1] = LineEnd
    BY DEF Characters
  <2>5. \A j \in 1 .. Len(SubSeq(s, i, i)) : SubSeq(s, i, i)[j] = <<LineEnd>>[j]
    BY <2>3, <2>4
  <2> QED BY <2>2, <2>3, <2>4, <2>5, SeqEqual
<1>5. d = [desc EXCEPT !.killed = IF forward THEN IF p < lt THEN SubSeq(s, p + 1, lt)
                                                  ELSE IF lt < Len(s) THEN <<LineEnd>> ELSE desc.killed
                                  ELSE IF p > lf THEN SubSeq(s, lf + 1, p)
                                       ELSE IF lf > 0 THEN <<LineEnd>> ELSE desc.killed]
  BY DEF captureKilledText
<1>6. /\ d \in [{"open", "text", "pos", "original", "killed", "question"} -> {d[f] : f \in {"open", "text", "pos", "original", "killed", "question"}}]
      /\ d.text = s /\ d.pos = p
  BY <1>1, <1>5 DEF DescribeRecord
<1>7. LineFrom(d) = lf /\ LineTo(d) = lt
  BY <1>6 DEF LineFrom, LineTo
<1>8. new = IF forward THEN deleteAfterCursor(d) ELSE deleteBeforeCursor(d)
  BY DEF Kill
<1>9. new = IF forward THEN IF p < lt THEN Cut(d, p, lt) ELSE IF p < Len(s) THEN Cut(d, p, p + 1) ELSE d
            ELSE IF p > lf THEN Cut(d, lf, p) ELSE IF p > 0 THEN Cut(d, p - 1, p) ELSE d
  BY <1>6, <1>7, <1>8 DEF deleteAfterCursor, deleteBeforeCursor
<1> HIDE DEF d, s, p, lf, lt, new
<1>10. ASSUME NEW from \in Nat, NEW to \in Nat, from <= to, to <= Len(s),
              d = [desc EXCEPT !.killed = SubSeq(s, from + 1, to)], new = Cut(d, from, to)
       PROVE  /\ new \in DescribeRecord /\ new.pos <= Len(new.text)
              /\ InsertString(new, new.killed).text = s
  <2>1. SubSeq(s, from + 1, to) \in Seq(Characters)
    BY <1>3, <1>10
  <2>2. d \in DescribeRecord /\ d.text = s /\ d.killed = SubSeq(s, from + 1, to)
    BY <1>1, <1>6, <1>10, <2>1 DEF DescribeRecord
  <2>3. to <= Len(d.text)
    BY <1>10, <2>2
  <2>4. /\ Cut(d, from, to) \in DescribeRecord /\ Cut(d, from, to).pos <= Len(Cut(d, from, to).text)
        /\ Cut(d, from, to).killed = d.killed
        /\ InsertString(Cut(d, from, to), SubSeq(d.text, from + 1, to)).text = d.text
    BY <1>10, <2>2, <2>3, CutKeepsText, Zenon
  <2> QED BY <1>10, <2>2, <2>4
<1>11. CASE forward /\ p < lt
  <2>1. d = [desc EXCEPT !.killed = SubSeq(s, p + 1, lt)] /\ new = Cut(d, p, lt)
    BY <1>5, <1>9, <1>11
  <2>2. p <= lt /\ lt <= Len(s) /\ lt \in Nat
    BY <1>1, <1>2, <1>11
  <2> QED BY <1>1, <1>10, <2>1, <2>2 DEF new, s
<1>12. CASE forward /\ ~(p < lt) /\ lt < Len(s)
  <2>1. lt = p /\ p + 1 \in 1 .. Len(s) /\ s[p + 1] = LineEnd /\ p + 1 \in Nat /\ p < Len(s) /\ p + 1 <= Len(s) /\ p <= p + 1
    BY <1>1, <1>2, <1>12
  <2>2. d = [desc EXCEPT !.killed = <<LineEnd>>] /\ new = Cut(d, p, p + 1)
    BY <1>5, <1>9, <1>12, <2>1
  <2>3. d = [desc EXCEPT !.killed = SubSeq(s, p + 1, p + 1)]
    BY <1>4, <2>1, <2>2
  <2> QED BY <1>1, <1>10, <2>1, <2>2, <2>3 DEF new, s
<1>13. CASE ~forward /\ p > lf
  <2>1. d = [desc EXCEPT !.killed = SubSeq(s, lf + 1, p)] /\ new = Cut(d, lf, p)
    BY <1>5, <1>9, <1>13
  <2>2. lf <= p /\ lf \in Nat
    BY <1>1, <1>2, <1>13
  <2> QED BY <1>1, <1>10, <2>1, <2>2 DEF new, s
<1>14. CASE ~forward /\ ~(p > lf) /\ lf > 0
  <2>1. lf = p /\ p \in 1 .. Len(s) /\ s[p] = LineEnd /\ p - 1 \in Nat /\ (p - 1) + 1 = p /\ p - 1 <= p /\ p > 0
    BY <1>1, <1>2, <1>14
  <2>2. d = [desc EXCEPT !.killed = <<LineEnd>>] /\ new = Cut(d, p - 1, p)
    BY <1>5, <1>9, <1>14, <2>1
  <2>3. SubSeq(s, (p - 1) + 1, p) = <<LineEnd>>
    BY <1>4, <2>1
  <2>4. d = [desc EXCEPT !.killed = SubSeq(s, (p - 1) + 1, p)]
    BY <2>2, <2>3
  <2> QED BY <1>1, <1>10, <2>1, <2>2, <2>4 DEF new, s
<1>15. CASE \/ forward /\ ~(p < lt) /\ ~(lt < Len(s))
            \/ ~forward /\ ~(p > lf) /\ ~(lf > 0)
  <2>1. d = [desc EXCEPT !.killed = desc.killed] /\ new = d
    BY <1>1, <1>2, <1>5, <1>9, <1>15
  <2>2. d = desc
    BY <1>1, <2>1 DEF DescribeRecord
  <2> QED BY <1>1, <2>1, <2>2 DEF new, s, p
<1> QED BY <1>11, <1>12, <1>13, <1>14, <1>15

\* Inserting keeps the cursor in the text.
LEMMA InsertKeepsText ==
  ASSUME DescribeTypeOK, NEW s \in Seq(Characters)
  PROVE  LET new == InsertString(desc, s)
         IN  new \in DescribeRecord /\ new.pos <= Len(new.text)
<1> DEFINE a == SubSeq(desc.text, 1, desc.pos)
           b == SubSeq(desc.text, desc.pos + 1, Len(desc.text))
           new == InsertString(desc, s)
<1>1. desc \in DescribeRecord /\ desc.text \in Seq(Characters) /\ desc.pos \in Nat /\ Len(desc.text) \in Nat /\ desc.pos <= Len(desc.text)
  BY DEF DescribeTypeOK, DescribeRecord
<1>2. \A i \in 1 .. Len(desc.text) : desc.text[i] \in Characters
  BY <1>1, ElementOfSeq
<1>3. a \in Seq(Characters) /\ Len(a) = desc.pos
  <2>1. \A i \in 1 .. desc.pos : desc.text[i] \in Characters
    BY <1>1, <1>2
  <2>2. a \in Seq(Characters) /\ Len(a) = IF 1 <= desc.pos THEN desc.pos - 1 + 1 ELSE 0
    BY <1>1, <2>1, SubSeqProperties
  <2> QED BY <1>1, <2>2
<1>4. b \in Seq(Characters) /\ Len(b) \in Nat
  <2>1. \A i \in desc.pos + 1 .. Len(desc.text) : desc.text[i] \in Characters
    BY <1>1, <1>2
  <2>2. b \in Seq(Characters)
    BY <1>1, <2>1, SubSeqProperties
  <2> QED BY <2>2, LenProperties
<1>5. new = [desc EXCEPT !.text = a \o s \o b, !.pos = desc.pos + Len(s)]
  BY DEF InsertString
<1> HIDE DEF a, b, new
<1>6. a \o s \in Seq(Characters) /\ Len(a \o s) = desc.pos + Len(s) /\ Len(s) \in Nat
  BY <1>3, ConcatProperties, LenProperties
<1>7. (a \o s) \o b \in Seq(Characters) /\ Len((a \o s) \o b) = (desc.pos + Len(s)) + Len(b)
  <2> DEFINE c == a \o s
  <2>1. c \in Seq(Characters) /\ Len(c) = desc.pos + Len(s)
    BY <1>6
  <2> HIDE DEF c
  <2>2. c \o b \in Seq(Characters) /\ Len(c \o b) = Len(c) + Len(b)
    BY <1>4, <2>1, ConcatProperties
  <2> QED BY <2>1, <2>2 DEF c
<1>8. new \in DescribeRecord /\ new.text = (a \o s) \o b /\ new.pos = desc.pos + Len(s)
  <2> DEFINE text == (a \o s) \o b
             pos == desc.pos + Len(s)
  <2>1. text \in Seq(Characters) /\ pos \in Nat /\ new = [desc EXCEPT !.text = text, !.pos = pos]
    BY <1>1, <1>5, <1>6, <1>7
  <2> HIDE DEF text, pos
  <2>2. new \in DescribeRecord /\ new.text = text /\ new.pos = pos
    BY <1>1, <2>1 DEF DescribeRecord
  <2> QED BY <2>2 DEF text, pos
<1>9. new.pos <= Len(new.text)
  BY <1>1, <1>4, <1>6, <1>7, <1>8
<1> QED BY <1>8, <1>9 DEF new

\* Keys of a question change the question alone.
LEMMA DescribeQuestionTyped ==
  ASSUME NEW q \in DescribeQuestions, NEW k \in QuestionKeys(q)
  PROVE  k.q \in DescribeQuestions
<1>1. \A delta \in {-1, 1} : moveSelection(q, delta) \in DescribeQuestions
  <2> SUFFICES ASSUME NEW delta \in {-1, 1} PROVE moveSelection(q, delta) \in DescribeQuestions
    OBVIOUS
  <2>1. q.at \in Nat /\ q.options \in Seq(SUBSET Seq(DescribeAnswers))
    BY DEF DescribeQuestions
  <2>2. Len(q.options) \in Nat
    BY <2>1, LenProperties
  <2> DEFINE at == IF q.at + delta < 1 THEN 1 ELSE IF q.at + delta > Len(q.options) THEN Len(q.options) ELSE q.at + delta
  <2>3. at \in Nat
    BY <2>1, <2>2
  <2>4. moveSelection(q, delta) = [q EXCEPT !.at = at]
    BY DEF moveSelection
  <2> HIDE DEF at
  <2> QED BY <2>3, <2>4 DEF DescribeQuestions
<1>2. k.q = q \/ \E delta \in {-1, 1} : k.q = moveSelection(q, delta)
  BY DEF QuestionKeys
<1> QED BY <1>1, <1>2

\* Whatever is typed, pasted, killed, asked or answered, the cursor is in the text.
THEOREM DescribeTyped == DescribeSpec => []DescribeTypeOK
<1>0. NoQuestion \in DescribeQuestions
  BY DEF NoQuestion, Question, DescribeQuestions
<1>1. DescribeInit => DescribeTypeOK
  <2> SUFFICES ASSUME NEW original \in {<<>>, <<Letter>>, <<Letter, LineEnd>>}, desc = NewDescribe(original)
               PROVE  DescribeTypeOK
    BY DEF DescribeInit
  <2>1. original \in Seq(Characters) /\ <<>> \in Seq(Characters) /\ Len(original) \in Nat
    <3>1. Letter \in Characters /\ LineEnd \in Characters
      BY DEF Characters
    <3>2. <<Letter>> \in Seq(Characters) /\ <<Letter, LineEnd>> \in Seq(Characters) /\ <<>> \in Seq(Characters)
      BY <3>1
    <3>3. original \in Seq(Characters)
      BY <3>2
    <3> QED BY <3>2, <3>3, LenProperties
  <2> QED BY <1>0, <2>1 DEF NewDescribe, DescribeTypeOK, DescribeRecord
<1>2. DescribeTypeOK /\ [DescribeNext]_describeVars => DescribeTypeOK'
  <2> SUFFICES ASSUME DescribeTypeOK, [DescribeNext]_describeVars PROVE DescribeTypeOK'
    OBVIOUS
  <2>0. desc \in DescribeRecord /\ desc.pos <= Len(desc.text) /\ desc.pos \in Nat /\ desc.question \in DescribeQuestions
        /\ desc.killed \in Seq(Characters) /\ desc.text \in Seq(Characters) /\ Len(desc.text) \in Nat
    BY DEF DescribeTypeOK, DescribeRecord
  <2>1. ASSUME NEW q \in DescribeQuestions, NEW open \in BOOLEAN,
               desc' = [desc EXCEPT !.question = q, !.open = open]
        PROVE  DescribeTypeOK'
    BY <2>0, <2>1 DEF DescribeTypeOK, DescribeRecord
  <2>2. ASSUME NEW s \in Seq(Characters), desc' = InsertString(desc, s) PROVE DescribeTypeOK'
    BY <2>2, InsertKeepsText DEF DescribeTypeOK
  <2>3. <<Letter>> \in Seq(Characters) /\ <<LineEnd>> \in Seq(Characters) /\ <<>> \in Seq(Characters)
    BY DEF Characters
  <2>4. ASSUME NEW forward \in BOOLEAN, KillKey(forward) PROVE DescribeTypeOK'
    <3>1. desc' = Kill(forward)
      BY <2>4 DEF KillKey
    <3> QED BY <3>1, KillIsNoted DEF DescribeTypeOK
  <2>5. CASE EditKey
    <3>1. PICK d \in Edits : desc' = d
      BY <2>5 DEF EditKey
    <3>2. CASE d \in {InsertString(desc, <<Letter>>), InsertString(desc, desc.killed), InsertString(desc, <<LineEnd>>)}
      BY <2>0, <2>2, <2>3, <3>1, <3>2
    <3>3. CASE d \in {[desc EXCEPT !.pos = p] : p \in {desc.pos - 1, desc.pos + 1} \cap 0 .. Len(desc.text)}
      <4>1. PICK p \in 0 .. Len(desc.text) : desc' = [desc EXCEPT !.pos = p]
        BY <3>1, <3>3
      <4> QED BY <2>0, <4>1 DEF DescribeTypeOK, DescribeRecord
    <3>4. CASE d = [desc EXCEPT !.text = <<>>, !.pos = 0, !.killed = IF desc.text = <<>> THEN @ ELSE desc.text]
      <4>1. PICK killed \in Seq(Characters) : desc' = [desc EXCEPT !.text = <<>>, !.pos = 0, !.killed = killed]
        BY <2>0, <3>1, <3>4
      <4>2. desc' \in DescribeRecord /\ desc'.text = <<>> /\ desc'.pos = 0
        BY <2>0, <2>3, <4>1 DEF DescribeRecord
      <4> QED BY <4>2 DEF DescribeTypeOK
    <3> QED BY <3>1, <3>2, <3>3, <3>4 DEF Edits
  <2>6. CASE PasteText
    BY <2>2, <2>3, <2>6 DEF PasteText, DescribeTypeOK
  <2>7. CASE AcceptKey \/ UNCHANGED describeVars
    BY <2>7 DEF AcceptKey, describeVars, DescribeTypeOK
  <2>8. CASE CancelDescribe
    <3>1. Question(<<{<<"discard">>}, QuestionClosed>>, 2, {}) \in DescribeQuestions
      <4>1. {<<"discard">>} \in SUBSET Seq(DescribeAnswers) /\ QuestionClosed \in SUBSET Seq(DescribeAnswers)
        <5>1. "discard" \in DescribeAnswers /\ "question closed" \in DescribeAnswers
          BY DEF DescribeAnswers
        <5>2. <<"discard">> \in Seq(DescribeAnswers) /\ <<"question closed">> \in Seq(DescribeAnswers)
          <6>1. \A x \in DescribeAnswers : <<x>> \in Seq(DescribeAnswers)
            OBVIOUS
          <6> QED BY <5>1, <6>1, Zenon
        <5> QED BY <5>2, Zenon DEF QuestionClosed
      <4> DEFINE options == <<{<<"discard">>}, QuestionClosed>>
      <4>2. options \in Seq(SUBSET Seq(DescribeAnswers))
        BY <4>1
      <4> HIDE DEF options
      <4>3. Question(options, 2, {}) \in DescribeQuestions
        BY <4>2 DEF Question, DescribeQuestions
      <4> QED BY <4>3 DEF options
    <3>2. desc' = desc \/ desc' = [desc EXCEPT !.question = Question(<<{<<"discard">>}, QuestionClosed>>, 2, {})]
      BY <2>8 DEF CancelDescribe, openCancelConfirmation
    <3> QED BY <2>0, <3>1, <3>2 DEF DescribeTypeOK, DescribeRecord
  <2>9. CASE DescribeQuestionKey
    <3>1. PICK k \in QuestionKeys(desc.question) : desc' = [desc EXCEPT !.question = k.q]
      BY <2>9 DEF DescribeQuestionKey
    <3>2. k.q \in DescribeQuestions
      BY <2>0, DescribeQuestionTyped
    <3> QED BY <2>0, <3>1, <3>2 DEF DescribeTypeOK, DescribeRecord
  <2>10. CASE DescribeDeliver
    <3>1. desc' \in {desc, [desc EXCEPT !.question = NoQuestion], [desc EXCEPT !.open = FALSE, !.question = NoQuestion]}
      BY <2>10 DEF DescribeDeliver
    <3> QED BY <1>0, <2>0, <3>1 DEF DescribeTypeOK, DescribeRecord
  <2> QED
    BY <2>4, <2>5, <2>6, <2>7, <2>8, <2>9, <2>10 DEF DescribeNext
<1> QED BY <1>1, <1>2, PTL DEF DescribeSpec

\* Ctrl+Y after Ctrl+K or Ctrl+U gives back the text, for every text and place of the cursor.
THEOREM KillUndone == DescribeSpec => KillIsUndone
<1> DEFINE Undone == \A forward \in BOOLEAN :
                       desc'.text # desc.text /\ KillKey(forward)
                       => InsertString(desc', desc'.killed).text = desc.text
<1>1. DescribeTypeOK /\ [DescribeNext]_describeVars => [Undone]_describeVars
  <2> SUFFICES ASSUME DescribeTypeOK, NEW forward \in BOOLEAN, desc'.text # desc.text, KillKey(forward)
               PROVE  InsertString(desc', desc'.killed).text = desc.text
    OBVIOUS
  <2>1. desc' = Kill(forward)
    BY DEF KillKey
  <2> QED BY <2>1, KillIsNoted
<1> QED BY <1>1, DescribeTyped, PTL DEF DescribeSpec, KillIsUndone

-----------------------------------------------------------------------------
(* The files of a revision.                                                  *)
\* The files of a revision: the list, its filter, the question it may ask and the calls that read it.
DRevs == DRevisions \cup {0}
DetailsAnswers == {"ended", "refresh", "close", "question closed"}

DetailsQuestions ==
  [options : Seq(SUBSET Seq(DetailsAnswers)), esc : Nat, at : Nat,
   about : {{}} \cup [rev : DRevs, files : SUBSET Files], touched : BOOLEAN]

DetailsRecord ==
  [open : BOOLEAN, rev : DRevs, cur : DRevs, files : Seq(FileItems), cursor : Nat,
   filter : {"off", "editing", "applied"}, query : Queries, question : DetailsQuestions,
   shown : [no : Nat, rev : DRevs]]

DetailsLoads == [no : Nat, rev : DRevs, list : SUBSET Files, read : BOOLEAN, selected : SUBSET Files]

\* The cursor is on a visible file whenever there is one.
CursorIsVisible(d) == IF Visible(d) = <<>> THEN d.cursor = 0 ELSE d.cursor \in DOMAIN Visible(d)

\* The last load begun is for the revision of the details that are open, and so is the
\* list once that load is shown.
LatestIsForRevision ==
  /\ \A l \in dLoads : l.no <= dSent
  /\ details.shown.no <= dSent
  /\ details.open => \A l \in dLoads : l.no = dSent => l.rev = details.rev

\* A question nobody has touched is about the files and the revision it was asked about.
QuestionIsAbout(d) ==
  d.question # NoQuestion /\ ~d.question.touched
  => d.question.about = [rev |-> d.rev, files |-> getSelectedFiles(d)]

\* The inductive invariant: with the types, that the last call to read a list is for the revision shown.
DetailsInv ==
  /\ details \in DetailsRecord /\ CursorIsVisible(details) /\ QuestionIsAbout(details)
  /\ dLoads \subseteq DetailsLoads /\ dSent \in 0 .. MaxLoads
  /\ LatestIsForRevision /\ LatestStatusShown

\* The visible files are files of the list that pass the filter.
LEMMA VisibleTyped ==
  ASSUME NEW d \in DetailsRecord
  PROVE  /\ Visible(d) \in Seq(Passing(d)) /\ Len(Visible(d)) \in Nat
         /\ DOMAIN Visible(d) = 1 .. Len(Visible(d))
         /\ Visible(d) = <<>> <=> Len(Visible(d)) = 0
         /\ \A i \in 1 .. Len(Visible(d)) : Visible(d)[i] \in Passing(d)
         /\ Passing(d) \subseteq DOMAIN d.files /\ DOMAIN d.files = 1 .. Len(d.files)
<1>1. d.files \in Seq(FileItems)
  BY DEF DetailsRecord
<1>2. Len(d.files) \in Nat /\ DOMAIN d.files = 1 .. Len(d.files)
  BY <1>1, LenProperties
<1>3. Passing(d) \subseteq 1 .. Len(d.files)
  BY <1>2 DEF Passing
<1>4. InOrder(Passing(d)) \in Seq(Passing(d))
  BY <1>2, <1>3, InOrderElements
<1>5. Visible(d) \in Seq(Passing(d))
  BY <1>4 DEF Visible
<1> HIDE DEF Visible
<1>6. /\ Len(Visible(d)) \in Nat /\ DOMAIN Visible(d) = 1 .. Len(Visible(d))
      /\ \A i \in 1 .. Len(Visible(d)) : Visible(d)[i] \in Passing(d)
  BY <1>5, LenProperties, ElementOfSeq
<1>7. Visible(d) = <<>> <=> Len(Visible(d)) = 0
  BY <1>5, EmptySeq
<1> QED BY <1>2, <1>3, <1>5, <1>6, <1>7

\* Two states of the details with the same list, and what they have in common.
LEMMA SameList ==
  ASSUME NEW d, NEW e, e.files = d.files, e.filter = d.filter, e.query = d.query
  PROVE  /\ Visible(e) = Visible(d)
         /\ e.cursor = d.cursor => getSelectedFiles(e) = getSelectedFiles(d)
<1>1. Visible(e) = Visible(d)
  BY DEF Visible, Passing
<1>2. e.cursor = d.cursor => current(e) = current(d)
  BY <1>1 DEF current
<1>3. e.cursor = d.cursor => currentFile(e) = currentFile(d)
  BY <1>2 DEF currentFile
<1>4. Marked(e) = Marked(d)
  BY DEF Marked
<1> QED BY <1>1, <1>3, <1>4 DEF getSelectedFiles

\* What is marked, under the cursor or selected is files.
LEMMA SelectedTyped ==
  ASSUME NEW d \in DetailsRecord
  PROVE  /\ Marked(d) \subseteq Files /\ currentFile(d) \subseteq Files
         /\ getSelectedFiles(d) \subseteq Files
         /\ current(d) \subseteq DOMAIN d.files
<1>1. d.files \in Seq(FileItems) /\ DOMAIN d.files = 1 .. Len(d.files)
  BY LenProperties DEF DetailsRecord
<1>2. \A i \in DOMAIN d.files : d.files[i].file \in Files
  <2> SUFFICES ASSUME NEW i \in DOMAIN d.files PROVE d.files[i].file \in Files
    OBVIOUS
  <2>1. d.files[i] \in FileItems
    BY <1>1, ElementOfSeq
  <2> QED BY <2>1 DEF FileItems
<1>3. current(d) \subseteq DOMAIN d.files
  BY VisibleTyped DEF current
<1>4. Marked(d) \subseteq Files /\ currentFile(d) \subseteq Files
  BY <1>2, <1>3 DEF Marked, currentFile
<1> QED BY <1>3, <1>4 DEF getSelectedFiles

\* A change of the list alone, that leaves the cursor on a visible file.
ListStep(d, e) ==
  /\ e \in DetailsRecord /\ CursorIsVisible(e)
  /\ e.open = d.open /\ e.rev = d.rev /\ e.cur = d.cur /\ e.question = d.question /\ e.shown = d.shown

\* The cursor that rebuildMatches finds is on a visible file, whatever it was on before.
LEMMA RebuildStep ==
  ASSUME NEW d \in DetailsRecord, NEW preferred
  PROVE  ListStep(d, rebuildMatches(d, preferred))
<1> DEFINE seen == Visible(d)
           found == {i \in DOMAIN seen : d.files[seen[i]].file \in preferred}
           c == IF seen = <<>> THEN 0
                ELSE IF found # {} THEN CHOOSE i \in found : TRUE
                ELSE IF preferred # {} \/ d.cursor = 0 THEN 1
                ELSE IF d.cursor > Len(seen) THEN Len(seen) ELSE d.cursor
           e == rebuildMatches(d, preferred)
<1>1. e = [d EXCEPT !.cursor = c]
  BY DEF rebuildMatches
<1>2. Len(seen) \in Nat /\ DOMAIN seen = 1 .. Len(seen) /\ (seen = <<>> <=> Len(seen) = 0) /\ d.cursor \in Nat
  BY VisibleTyped DEF DetailsRecord
<1>3. found # {} => (CHOOSE i \in found : TRUE) \in 1 .. Len(seen)
  <2>1. found \subseteq 1 .. Len(seen)
    BY <1>2
  <2> HIDE DEF found
  <2> QED BY <2>1
<1> HIDE DEF e, seen, found
<1>4. c \in Nat /\ (IF seen = <<>> THEN c = 0 ELSE c \in 1 .. Len(seen))
  BY <1>2, <1>3
<1> HIDE DEF c
<1>5. /\ e \in DetailsRecord /\ e.cursor = c
      /\ e.files = d.files /\ e.filter = d.filter /\ e.query = d.query
      /\ e.open = d.open /\ e.rev = d.rev /\ e.cur = d.cur /\ e.question = d.question /\ e.shown = d.shown
  BY <1>1, <1>4 DEF DetailsRecord
<1>6. Visible(e) = seen
  BY <1>5, SameList DEF seen
<1>7. CursorIsVisible(e)
  BY <1>2, <1>4, <1>5, <1>6 DEF CursorIsVisible
<1> QED BY <1>5, <1>7 DEF ListStep, e

\* A change of the filter puts the cursor on a visible file.
LEMMA FilterStep ==
  ASSUME NEW d \in DetailsRecord, NEW filter \in {"off", "editing", "applied"}, NEW query \in Queries
  PROVE  ListStep(d, setFilter(d, filter, query))
<1> DEFINE e == [d EXCEPT !.filter = filter, !.query = query]
<1>1. /\ e \in DetailsRecord
      /\ e.open = d.open /\ e.rev = d.rev /\ e.cur = d.cur /\ e.question = d.question /\ e.shown = d.shown
  BY DEF DetailsRecord
<1>2. setFilter(d, filter, query) = rebuildMatches(e, currentFile(d))
  BY DEF setFilter
<1> HIDE DEF e
<1>3. ListStep(e, rebuildMatches(e, currentFile(d)))
  BY <1>1, RebuildStep
<1> QED BY <1>1, <1>2, <1>3 DEF ListStep

\* New files put the cursor on a visible one.
LEMMA ItemsStep ==
  ASSUME NEW d \in DetailsRecord, NEW items \in Seq(FileItems)
  PROVE  ListStep(d, setItems(d, items))
<1> DEFINE e == [d EXCEPT !.files = items]
<1>1. /\ e \in DetailsRecord
      /\ e.open = d.open /\ e.rev = d.rev /\ e.cur = d.cur /\ e.question = d.question /\ e.shown = d.shown
  BY DEF DetailsRecord
<1>2. setItems(d, items) = rebuildMatches(e, currentFile(d))
  BY DEF setItems
<1> HIDE DEF e
<1>3. ListStep(e, rebuildMatches(e, currentFile(d)))
  BY <1>1, RebuildStep
<1> QED BY <1>1, <1>2, <1>3 DEF ListStep

\* The cursor is set within the visible files, wherever a click or a key names.
LEMMA CursorStep ==
  ASSUME NEW d \in DetailsRecord, CursorIsVisible(d), NEW i \in Int
  PROVE  ListStep(d, setListCursor(d, i))
<1> DEFINE e == [d EXCEPT !.cursor = i]
<1>0. ListStep(d, d)
  BY DEF ListStep
<1>1. CASE i \in DOMAIN Visible(d)
  <2>1. i \in Nat /\ Visible(d) # <<>>
    BY <1>1, VisibleTyped
  <2>2. /\ e \in DetailsRecord /\ e.cursor = i
        /\ e.files = d.files /\ e.filter = d.filter /\ e.query = d.query
        /\ e.open = d.open /\ e.rev = d.rev /\ e.cur = d.cur /\ e.question = d.question /\ e.shown = d.shown
    BY <2>1 DEF DetailsRecord
  <2>3. setListCursor(d, i) = e
    BY <1>1 DEF setListCursor
  <2> HIDE DEF e
  <2>4. Visible(e) = Visible(d)
    BY <2>2, SameList
  <2> QED BY <1>1, <2>1, <2>2, <2>3, <2>4 DEF ListStep, CursorIsVisible
<1>2. CASE i \notin DOMAIN Visible(d)
  BY <1>0, <1>2 DEF setListCursor
<1> QED BY <1>1, <1>2

\* A move stops at the ends of the visible files.
LEMMA NavigateStep ==
  ASSUME NEW d \in DetailsRecord, CursorIsVisible(d), NEW step \in Int
  PROVE  ListStep(d, navigate(d, step))
<1>1. Len(Visible(d)) \in Nat /\ d.cursor \in Nat
  BY VisibleTyped DEF DetailsRecord
<1>2. navigate(d, step) = d \/ \E i \in Int : navigate(d, step) = setListCursor(d, i)
  BY <1>1 DEF navigate
<1> QED BY <1>2, CursorStep DEF ListStep

\* Marks do not change what is visible.
LEMMA InvertStep ==
  ASSUME NEW d \in DetailsRecord, CursorIsVisible(d), NEW indices
  PROVE  ListStep(d, Invert(d, indices))
<1> DEFINE items == [i \in DOMAIN d.files |->
                       IF i \in indices THEN [d.files[i] EXCEPT !.selected = ~@] ELSE d.files[i]]
           e == Invert(d, indices)
<1>1. d.files \in Seq(FileItems) /\ DOMAIN d.files = 1 .. Len(d.files) /\ Len(d.files) \in Nat
  BY LenProperties DEF DetailsRecord
<1>2. ASSUME NEW i \in 1 .. Len(d.files) PROVE items[i] \in FileItems /\ items[i].file = d.files[i].file
  <2>1. d.files[i] \in FileItems
    BY <1>1, ElementOfSeq
  <2>2. items[i] = IF i \in indices THEN [d.files[i] EXCEPT !.selected = ~@] ELSE d.files[i]
    BY <1>1
  <2> HIDE DEF items
  <2> QED BY <2>1, <2>2 DEF FileItems
<1>3. items \in [1 .. Len(d.files) -> FileItems]
  BY <1>1, <1>2
<1>4. items \in Seq(FileItems) /\ DOMAIN items = DOMAIN d.files
  BY <1>1, <1>3, SeqDef
<1>5. e = [d EXCEPT !.files = items]
  BY DEF Invert
<1> HIDE DEF items, e
<1>6. /\ e \in DetailsRecord /\ e.cursor = d.cursor
      /\ e.files = items /\ e.filter = d.filter /\ e.query = d.query
      /\ e.open = d.open /\ e.rev = d.rev /\ e.cur = d.cur /\ e.question = d.question /\ e.shown = d.shown
  BY <1>4, <1>5 DEF DetailsRecord
<1>7. Passing(e) = Passing(d)
  BY <1>1, <1>2, <1>4, <1>6 DEF Passing
<1>8. Visible(e) = Visible(d)
  BY <1>7 DEF Visible
<1> QED BY <1>6, <1>8 DEF ListStep, CursorIsVisible, e

\* What is done to the list one after the other.
LEMMA ListSteps ==
  ASSUME NEW d, NEW e, NEW f, ListStep(d, e), ListStep(e, f)
  PROVE  ListStep(d, f)
BY DEF ListStep

\* The filter may be empty.
LEMMA ZeroIsQuery == 0 \in Queries
BY DEF Queries

\* The other operations on the list keep the cursor on a visible file.
LEMMA OtherListSteps ==
  ASSUME NEW d \in DetailsRecord, CursorIsVisible(d)
  PROVE  /\ ListStep(d, d) /\ ListStep(d, clearFilter(d)) /\ ListStep(d, openFilter(d)) /\ ListStep(d, applyFilter(d))
         /\ ListStep(d, toggleSelection(d)) /\ ListStep(d, invertSelection(d))
         /\ \A from, to : ListStep(d, DetailsRange(d, from, to))
<1>1. ListStep(d, d)
  BY DEF ListStep
<1>2. d.query \in Queries
  BY DEF DetailsRecord
<1>3. ListStep(d, clearFilter(d)) /\ ListStep(d, openFilter(d))
  BY <1>2, FilterStep, ZeroIsQuery DEF clearFilter, openFilter
<1>4. ListStep(d, applyFilter(d))
  BY <1>2, <1>3, FilterStep DEF applyFilter
<1>5. ListStep(d, toggleSelection(d)) /\ ListStep(d, invertSelection(d))
  BY <1>1, InvertStep DEF toggleSelection, invertSelection
<1>6. \A from, to : ListStep(d, DetailsRange(d, from, to))
  BY InvertStep DEF DetailsRange
<1> QED BY <1>1, <1>3, <1>4, <1>5, <1>6

\* A question about the list as it is, or none.
LEMMA AskedQuestion ==
  ASSUME NEW d \in DetailsRecord, CursorIsVisible(d), d.question = NoQuestion,
         NEW options \in Seq(SUBSET Seq(DetailsAnswers)), NEW e, e = Ask(d, options).d
  PROVE  /\ e \in DetailsRecord /\ CursorIsVisible(e) /\ QuestionIsAbout(e)
         /\ e.open = d.open /\ e.rev = d.rev /\ e.shown = d.shown
<1> DEFINE about == [rev |-> d.rev, files |-> getSelectedFiles(d)]
           q == Question(options, Len(options), about)
<1>1. about \in [rev : DRevs, files : SUBSET Files] /\ Len(options) \in Nat
  BY SelectedTyped, LenProperties DEF DetailsRecord
<1>2. q \in DetailsQuestions /\ q.about = about
  <2> HIDE DEF about
  <2> QED BY <1>1 DEF Question, DetailsQuestions
<1>3. e = d \/ e = [d EXCEPT !.question = q]
  BY DEF Ask, DOutcome
<1> HIDE DEF q, about
<1>4. CASE e = d
  BY <1>4 DEF QuestionIsAbout
<1>5. CASE e = [d EXCEPT !.question = q]
  <2>1. /\ e \in DetailsRecord /\ e.question = q /\ e.cursor = d.cursor /\ e.files = d.files /\ e.filter = d.filter /\ e.query = d.query
        /\ e.open = d.open /\ e.rev = d.rev /\ e.shown = d.shown
    BY <1>2, <1>5 DEF DetailsRecord
  <2>2. Visible(e) = Visible(d) /\ getSelectedFiles(e) = getSelectedFiles(d)
    BY <2>1, SameList
  <2>3. e.question.about = [rev |-> e.rev, files |-> getSelectedFiles(e)]
    BY <1>2, <2>1, <2>2 DEF about
  <2>4. CursorIsVisible(e)
    BY <2>1, <2>2 DEF CursorIsVisible
  <2> QED BY <2>1, <2>3, <2>4 DEF QuestionIsAbout
<1> QED BY <1>3, <1>4, <1>5

\* What a key or a click of the details may do: the list stays in order, and a question that
\* was not touched is about the marks.
GoodStep(d, e) ==
  /\ e \in DetailsRecord /\ CursorIsVisible(e) /\ QuestionIsAbout(e)
  /\ e.open = d.open /\ e.rev = d.rev /\ e.shown = d.shown

\* While no question is asked, an operation on the list owes nothing to one.
LEMMA UnaskedStep ==
  ASSUME NEW d, NEW e, ListStep(d, e), d.question = NoQuestion
  PROVE  GoodStep(d, e)
BY DEF ListStep, GoodStep, QuestionIsAbout

\* The keys of the filter.
LEMMA FilterKeysStep ==
  ASSUME NEW d \in DetailsRecord, CursorIsVisible(d), d.question = NoQuestion, NEW k \in FilterKeys(d)
  PROVE  GoodStep(d, k.d)
<1>1. \/ \E query \in Queries : k.d = setFilter(d, "editing", query)
      \/ k.d \in {applyFilter(d), clearFilter(d)}
  BY DEF FilterKeys, DOutcome
<1>2. ListStep(d, k.d)
  BY <1>1, FilterStep, OtherListSteps
<1> QED BY <1>2, UnaskedStep

\* The answers of the questions of the details.
LEMMA AnswerOptions ==
  /\ <<{<<"refresh">>, <<"close">>}, {<<"refresh">>, <<"close">>}, QuestionClosed>> \in Seq(SUBSET Seq(DetailsAnswers))
  /\ <<{<<"ended", "refresh">>} \cup QuestionClosed, {<<"refresh">>, <<"close">>}, QuestionClosed>> \in Seq(SUBSET Seq(DetailsAnswers))
  /\ <<{<<"ended", "refresh", "question closed">>}, QuestionClosed>> \in Seq(SUBSET Seq(DetailsAnswers))
<1>1. \A x, y, z \in DetailsAnswers : <<x>> \in Seq(DetailsAnswers) /\ <<x, y>> \in Seq(DetailsAnswers) /\ <<x, y, z>> \in Seq(DetailsAnswers)
  OBVIOUS
<1>2. {"ended", "refresh", "close", "question closed"} \subseteq DetailsAnswers
  BY DEF DetailsAnswers
<1>3. /\ <<"refresh">> \in Seq(DetailsAnswers) /\ <<"close">> \in Seq(DetailsAnswers) /\ <<"question closed">> \in Seq(DetailsAnswers)
      /\ <<"ended", "refresh">> \in Seq(DetailsAnswers) /\ <<"ended", "refresh", "question closed">> \in Seq(DetailsAnswers)
  BY <1>1, <1>2, Zenon
<1> DEFINE All == SUBSET Seq(DetailsAnswers)
<1>4. /\ {<<"refresh">>, <<"close">>} \in All /\ QuestionClosed \in All
      /\ {<<"ended", "refresh">>} \cup QuestionClosed \in All /\ {<<"ended", "refresh", "question closed">>} \in All
  BY <1>3, Zenon DEF QuestionClosed
<1> HIDE DEF All
<1>5. \A x, y, z \in All : <<x, y>> \in Seq(All) /\ <<x, y, z>> \in Seq(All)
  OBVIOUS
<1>6. /\ <<{<<"refresh">>, <<"close">>}, {<<"refresh">>, <<"close">>}, QuestionClosed>> \in Seq(All)
      /\ <<{<<"ended", "refresh">>} \cup QuestionClosed, {<<"refresh">>, <<"close">>}, QuestionClosed>> \in Seq(All)
      /\ <<{<<"ended", "refresh", "question closed">>}, QuestionClosed>> \in Seq(All)
  BY <1>4, <1>5, Zenon
<1> QED BY <1>6 DEF All

\* The keys of the list.
LEMMA ListKeysStep ==
  ASSUME NEW d \in DetailsRecord, CursorIsVisible(d), d.question = NoQuestion, NEW k \in ListKeys(d)
  PROVE  GoodStep(d, k.d)
<1>1. ListStep(d, d) => GoodStep(d, d)
  BY UnaskedStep
<1>2. CASE k.d = d
  BY <1>1, <1>2, OtherListSteps
<1>3. CASE \E step \in {-2, -1, 1, 2} : k.d = navigate(d, step)
  BY <1>3, NavigateStep, UnaskedStep
<1>4. CASE k.d = navigate(toggleSelection(d), 1)
  <2>1. ListStep(d, toggleSelection(d))
    BY OtherListSteps
  <2>2. ListStep(toggleSelection(d), navigate(toggleSelection(d), 1))
    BY <2>1, NavigateStep DEF ListStep
  <2> QED BY <1>4, <2>1, <2>2, ListSteps, UnaskedStep
<1>5. CASE k.d \in {invertSelection(d), openFilter(d)}
  BY <1>5, OtherListSteps, UnaskedStep
<1>6. CASE k \in {detailsSplit(d), detailsRestore(d), detailsAbsorb(d)}
  <2>1. \E options \in Seq(SUBSET Seq(DetailsAnswers)) : k = Ask(d, options)
    BY <1>6, AnswerOptions, Zenon DEF detailsSplit, detailsRestore, detailsAbsorb
  <2> QED BY <2>1, AskedQuestion DEF GoodStep
<1>7. k \in detailsLeave(d) => k.d = d
  <2>1. k \in detailsLeave(d) => \E send : k = DOutcome(d, send)
    BY Zenon DEF detailsLeave
  <2> QED BY <2>1 DEF DOutcome
<1>8. \/ k.d = d \/ \E step \in {-2, -1, 1, 2} : k.d = navigate(d, step)
      \/ k.d = navigate(toggleSelection(d), 1) \/ k.d \in {invertSelection(d), openFilter(d)}
      \/ k \in {detailsSplit(d), detailsRestore(d), detailsAbsorb(d)}
  <2>1. CASE k \in detailsLeave(d)
    BY <1>7, <2>1
  <2>2. CASE k \notin detailsLeave(d)
    BY <2>2 DEF ListKeys, DOutcome
  <2> QED BY <2>1, <2>2
<1> QED BY <1>2, <1>3, <1>4, <1>5, <1>6, <1>8

\* Keys of the question and clicks on its options choose an option, and leave what it is about.
LEMMA QuestionStep ==
  ASSUME NEW d \in DetailsRecord, CursorIsVisible(d), QuestionIsAbout(d), NEW at \in Nat,
         d.question # NoQuestion, NEW e, e = [d EXCEPT !.question = [d.question EXCEPT !.at = at]]
  PROVE  GoodStep(d, e)
<1> DEFINE q == [d.question EXCEPT !.at = at]
<1>1. d.question \in DetailsQuestions
  BY DEF DetailsRecord
<1>2. q \in DetailsQuestions /\ q.about = d.question.about /\ q.touched = d.question.touched
  BY <1>1 DEF DetailsQuestions
<1> HIDE DEF q
<1>3. /\ e \in DetailsRecord /\ e.question = q /\ e.cursor = d.cursor /\ e.files = d.files /\ e.filter = d.filter /\ e.query = d.query
      /\ e.open = d.open /\ e.rev = d.rev /\ e.shown = d.shown
  BY <1>2 DEF DetailsRecord, q
<1>4. Visible(e) = Visible(d) /\ getSelectedFiles(e) = getSelectedFiles(d)
  BY <1>3, SameList
<1>5. CursorIsVisible(e)
  BY <1>3, <1>4 DEF CursorIsVisible
<1>6. QuestionIsAbout(e)
  BY <1>2, <1>3, <1>4 DEF QuestionIsAbout
<1> QED BY <1>3, <1>5, <1>6 DEF GoodStep

\* Every key, wherever it goes: the question, the filter or the list.
LEMMA KeyStep ==
  ASSUME NEW d \in DetailsRecord, CursorIsVisible(d), QuestionIsAbout(d), NEW k \in DetailsKeys(d)
  PROVE  GoodStep(d, k.d)
<1>1. CASE d.question # NoQuestion
  <2>1. PICK j \in QuestionKeys(d.question) : k.d = [d EXCEPT !.question = j.q]
    BY <1>1 DEF DetailsKeys, DOutcome
  <2>2. d.question \in DetailsQuestions
    BY DEF DetailsRecord
  <2>3. d.question.at \in Nat /\ Len(d.question.options) \in Nat
    BY <2>2, LenProperties DEF DetailsQuestions
  <2>4. \E at \in Nat : j.q = [d.question EXCEPT !.at = at]
    <3>1. d.question = [d.question EXCEPT !.at = d.question.at]
      BY <2>2 DEF DetailsQuestions
    <3>2. j.q = d.question \/ \E delta \in {-1, 1} : j.q = moveSelection(d.question, delta)
      BY <2>1 DEF QuestionKeys
    <3>3. ASSUME NEW delta \in {-1, 1}, j.q = moveSelection(d.question, delta)
          PROVE  \E at \in Nat : j.q = [d.question EXCEPT !.at = at]
      <4> DEFINE next == d.question.at + delta
                 at == IF next < 1 THEN 1 ELSE IF next > Len(d.question.options) THEN Len(d.question.options) ELSE next
      <4>1. at \in Nat
        BY <2>3
      <4>2. j.q = [d.question EXCEPT !.at = at]
        BY <3>3 DEF moveSelection
      <4> QED BY <4>1, <4>2
    <3> QED BY <2>3, <3>1, <3>2, <3>3
  <2> QED BY <1>1, <2>1, <2>4, QuestionStep
<1>2. CASE d.question = NoQuestion
  <2>1. k \in FilterKeys(d) \/ k \in ListKeys(d) \/ k.d = clearFilter(d)
    BY <1>2 DEF DetailsKeys, DOutcome
  <2>2. CASE k.d = clearFilter(d)
    BY <1>2, <2>2, OtherListSteps, UnaskedStep
  <2> QED BY <1>2, <2>1, <2>2, FilterKeysStep, ListKeysStep
<1> QED BY <1>1, <1>2

\* A change of the list from outside marks the question.
LEMMA TouchedStep ==
  ASSUME NEW d, NEW e, ListStep(d, e)
  PROVE  /\ GoodStep(d, Touch(e)) /\ Touch(e).cur = d.cur
         /\ \A rev \in DRevs : QuestionIsAbout([Touch(e) EXCEPT !.cur = rev, !.rev = rev])
<1>0. e \in DetailsRecord /\ e.question \in DetailsQuestions
  BY DEF ListStep, DetailsRecord
<1>1. CASE e.question = NoQuestion
  <2>1. Touch(e) = e
    BY <1>1 DEF Touch
  <2>2. \A rev \in DRevs : [e EXCEPT !.cur = rev, !.rev = rev].question = NoQuestion
    BY <1>0, <1>1 DEF DetailsRecord
  <2> QED BY <1>1, <2>1, <2>2 DEF ListStep, GoodStep, QuestionIsAbout
<1>2. CASE e.question # NoQuestion
  <2> DEFINE q == [e.question EXCEPT !.touched = TRUE]
             f == Touch(e)
  <2>1. f = [e EXCEPT !.question = q]
    BY <1>2 DEF Touch
  <2>2. q \in DetailsQuestions /\ q.touched
    BY <1>0 DEF DetailsQuestions
  <2> HIDE DEF q, f
  <2>3. /\ f \in DetailsRecord /\ f.question = q /\ f.cursor = e.cursor /\ f.files = e.files /\ f.filter = e.filter /\ f.query = e.query
        /\ f.open = e.open /\ f.rev = e.rev /\ f.cur = e.cur /\ f.shown = e.shown
    BY <1>0, <2>1, <2>2 DEF DetailsRecord
  <2>4. Visible(f) = Visible(e)
    BY <2>3, SameList
  <2>5. CursorIsVisible(f)
    BY <2>3, <2>4 DEF CursorIsVisible, ListStep
  <2>6. \A rev \in DRevs : [f EXCEPT !.cur = rev, !.rev = rev].question = q
    BY <2>3 DEF DetailsRecord
  <2> QED BY <2>2, <2>3, <2>5, <2>6 DEF ListStep, GoodStep, QuestionIsAbout, f
<1> QED BY <1>1, <1>2

\* A mark put by a script.
LEMMA MarkStep ==
  ASSUME NEW d \in DetailsRecord, CursorIsVisible(d), NEW i \in DOMAIN d.files
  PROVE  ListStep(d, [d EXCEPT !.files[i].selected = TRUE])
<1> DEFINE marked == [d.files[i] EXCEPT !.selected = TRUE]
           items == [d.files EXCEPT ![i] = marked]
<1>1. d.files \in Seq(FileItems) /\ DOMAIN d.files = 1 .. Len(d.files)
  BY LenProperties DEF DetailsRecord
<1>2. d.files[i] \in FileItems
  BY <1>1, ElementOfSeq
<1>3. [d EXCEPT !.files[i].selected = TRUE] = [d EXCEPT !.files = items]
  BY DEF DetailsRecord
<1>4. CASE d.files[i].selected
  <2>1. marked = d.files[i]
    BY <1>2, <1>4 DEF FileItems
  <2> HIDE DEF marked
  <2>2. items = d.files
    <3>1. d.files \in [1 .. Len(d.files) -> FileItems]
      BY <1>1, LenProperties
    <3> QED BY <1>1, <2>1, <3>1
  <2>3. [d EXCEPT !.files = items] = d
    BY <2>2 DEF DetailsRecord
  <2> QED BY <1>3, <2>3, OtherListSteps
<1>5. CASE ~d.files[i].selected
  <2>1. marked = [d.files[i] EXCEPT !.selected = ~@]
    BY <1>2, <1>5 DEF FileItems
  <2> HIDE DEF marked
  <2>2. items = [j \in DOMAIN d.files |-> IF j \in {i} THEN marked ELSE d.files[j]]
    BY <1>1
  <2>3. items = [j \in DOMAIN d.files |-> IF j \in {i} THEN [d.files[j] EXCEPT !.selected = ~@] ELSE d.files[j]]
    BY <2>1, <2>2
  <2>4. [d EXCEPT !.files = items] = Invert(d, {i})
    BY <2>3 DEF Invert
  <2> QED BY <1>3, <2>4, InvertStep
<1> QED BY <1>2, <1>4, <1>5 DEF FileItems

\* The list that jj prints, in order and with the marks that were read.
LEMMA ListItemsTyped ==
  ASSUME NEW list \in SUBSET Files, NEW selected
  PROVE  createListItems(list, selected) \in Seq(FileItems)
<1>1. Cardinality(Files) \in Nat /\ list \subseteq 1 .. Cardinality(Files)
  BY DetailsAssumption, FS_CardinalityType
<1>2. /\ Cardinality(list) \in Nat /\ InOrder(list) \in Seq(list) /\ Len(InOrder(list)) = Cardinality(list)
  BY <1>1, InOrderElements
<1>3. ASSUME NEW i \in 1 .. Cardinality(list) PROVE InOrder(list)[i] \in Files
  BY <1>2, ElementOfSeq
<1>4. createListItems(list, selected) \in [1 .. Cardinality(list) -> FileItems]
  BY <1>3 DEF createListItems, FileItems
<1> QED BY <1>2, <1>4, SeqDef

\* Without a change of the loads a good step keeps the invariant.
LEMMA GoodKeeps ==
  ASSUME DetailsInv, GoodStep(details, details'), UNCHANGED <<dLoads, dSent>>
  PROVE  DetailsInv'
<1>1. /\ details' \in DetailsRecord /\ CursorIsVisible(details') /\ QuestionIsAbout(details')
      /\ details'.open = details.open /\ details'.rev = details.rev /\ details'.shown = details.shown
  BY DEF GoodStep
<1>2. dLoads' = dLoads /\ dSent' = dSent
  OBVIOUS
<1>3. LatestIsForRevision' /\ LatestStatusShown'
  BY <1>1, <1>2 DEF DetailsInv, LatestIsForRevision, LatestStatusShown
<1> QED BY <1>1, <1>2, <1>3 DEF DetailsInv

\* A new load is numbered after all others.
LEMMA DetailsLoadTyped ==
  ASSUME DetailsInv, NEW rev \in DRevs, loadDetails(rev)
  PROVE  /\ dLoads' \subseteq DetailsLoads /\ dSent' = dSent + 1 /\ dSent' \in 0 .. MaxLoads
         /\ \A l \in dLoads' : l.no <= dSent' /\ (l.no = dSent' => l.rev = rev)
<1>0. dSent \in Nat /\ MaxLoads \in Nat /\ dSent <= MaxLoads /\ dLoads \subseteq DetailsLoads /\ \A l \in dLoads : l.no <= dSent
  BY DetailsAssumption DEF DetailsInv, LatestIsForRevision
<1>1. dSent' = dSent + 1 /\ dSent' \in 0 .. MaxLoads /\ dSent' \in Nat
  BY <1>0 DEF loadDetails
<1>2. \A l \in dLoads : l \in DetailsLoads /\ l.no <= dSent' /\ l.no # dSent'
  BY <1>0, <1>1 DEF DetailsLoads
<1>3. \/ dLoads' = dLoads
      \/ \E list \in SUBSET Files :
           dLoads' = dLoads \cup {[no |-> dSent + 1, rev |-> rev, list |-> list, read |-> FALSE, selected |-> {}]}
  BY DEF loadDetails
<1>4. CASE dLoads' = dLoads
  BY <1>0, <1>1, <1>2, <1>4
<1>5. ASSUME NEW list \in SUBSET Files,
             dLoads' = dLoads \cup {[no |-> dSent + 1, rev |-> rev, list |-> list, read |-> FALSE, selected |-> {}]}
      PROVE  /\ dLoads' \subseteq DetailsLoads
             /\ \A l \in dLoads' : l.no <= dSent' /\ (l.no = dSent' => l.rev = rev)
  <2> DEFINE new == [no |-> dSent + 1, rev |-> rev, list |-> list, read |-> FALSE, selected |-> {}]
  <2>1. new \in DetailsLoads /\ new.no = dSent' /\ new.rev = rev /\ new.no <= dSent'
    BY <1>0, <1>1 DEF DetailsLoads
  <2> HIDE DEF new
  <2>2. dLoads' = dLoads \cup {new}
    BY <1>5 DEF new
  <2> QED BY <1>2, <2>1, <2>2
<1> QED BY <1>1, <1>3, <1>4, <1>5

\* A list that has just been opened is empty and asks nothing.
LEMMA NewDetailsTyped ==
  ASSUME NEW rev \in DRevs, NEW d, d = NewDetails(rev) \/ d = [NewDetails(rev) EXCEPT !.open = FALSE]
  PROVE  /\ d \in DetailsRecord /\ CursorIsVisible(d) /\ QuestionIsAbout(d)
         /\ d.rev = rev /\ d.shown.no = 0
<1>1. NoQuestion \in DetailsQuestions
  BY DEF NoQuestion, Question, DetailsQuestions
<1>2. /\ d \in DetailsRecord /\ d.files = <<>> /\ d.cursor = 0 /\ d.question = NoQuestion /\ d.shown.no = 0
      /\ d.rev = rev
  <2> DEFINE shown == [no |-> 0, rev |-> 0]
             items == <<>>
  <2>1. shown \in [no : Nat, rev : DRevs] /\ shown.no = 0 /\ items \in Seq(FileItems)
    BY DEF DRevs
  <2>2. PICK open \in BOOLEAN :
          d = [open |-> open, rev |-> rev, cur |-> rev, files |-> items, cursor |-> 0, filter |-> "off",
               query |-> 0, question |-> NoQuestion, shown |-> shown]
    BY DEF NewDetails
  <2> HIDE DEF shown, items
  <2>3. d \in DetailsRecord
    BY <1>1, <2>1, <2>2, ZeroIsQuery DEF DetailsRecord
  <2>4. d.files = items /\ d.cursor = 0 /\ d.question = NoQuestion /\ d.shown = shown /\ d.rev = rev
    BY <2>2
  <2> QED BY <2>1, <2>3, <2>4 DEF items
<1>3. Passing(d) = {}
  BY <1>2 DEF Passing
<1>4. Cardinality(Passing(d)) = 0
  BY <1>3, FS_EmptySet
<1>5. Len(Visible(d)) = 0
  BY <1>4, <1>3, InOrderElements DEF Visible
<1>6. Visible(d) = <<>>
  BY <1>2, <1>5, VisibleTyped
<1> QED BY <1>2, <1>6 DEF CursorIsVisible, QuestionIsAbout

\* No list is open at first.
LEMMA DetailsInitHolds == DetailsInit => DetailsInv
<1> SUFFICES ASSUME DetailsInit PROVE DetailsInv
  OBVIOUS
<1>1. details = [NewDetails(0) EXCEPT !.open = FALSE] /\ dLoads = {} /\ dSent = 0
  BY DEF DetailsInit, NoDetails
<1>2. 0 \in DRevs /\ 0 \in 0 .. MaxLoads
  BY DetailsAssumption DEF DRevs
<1>3. /\ details \in DetailsRecord /\ CursorIsVisible(details) /\ QuestionIsAbout(details)
      /\ details.shown.no = 0
  BY <1>1, <1>2, NewDetailsTyped
<1>4. details.open = FALSE
  BY <1>1 DEF NewDetails
<1> QED BY <1>1, <1>2, <1>3, <1>4 DEF DetailsInv, LatestIsForRevision, LatestStatusShown

\* Clicks, also on options of a question.
LEMMA DetailsClickKeeps == ASSUME DetailsInv, FileClicked \/ OptionClicked PROVE DetailsInv'
<1>0. details \in DetailsRecord /\ CursorIsVisible(details) /\ QuestionIsAbout(details)
  BY DEF DetailsInv
<1>1. CASE FileClicked
  <2>1. PICK e : /\ details' = Touch(e)
                 /\ \E i \in DOMAIN details.files :
                      e \in {setListCursor(details, i), toggleSelection(setListCursor(details, i)),
                             DetailsRange(setListCursor(details, i), details.cursor, i),
                             [details EXCEPT !.files[i].selected = TRUE]}
    <3> DEFINE Click(i) == {setListCursor(details, i), toggleSelection(setListCursor(details, i)),
                            DetailsRange(setListCursor(details, i), details.cursor, i)}
               Press(i) == [details EXCEPT !.files[i].selected = TRUE]
               Rows == DOMAIN details.files
    <3>1. PICK e \in (UNION {Click(i) : i \in Rows}) \cup {Press(i) : i \in Rows} : details' = Touch(e)
      BY <1>1, Zenon DEF FileClicked
    <3> HIDE DEF Click, Press, Rows
    <3>2. \E i \in Rows : e \in Click(i) \/ e = Press(i)
      BY <3>1, Zenon
    <3> QED BY <3>1, <3>2, Zenon DEF Click, Press, Rows
  <2>2. PICK i \in DOMAIN details.files :
               e \in {setListCursor(details, i), toggleSelection(setListCursor(details, i)),
                      DetailsRange(setListCursor(details, i), details.cursor, i),
                      [details EXCEPT !.files[i].selected = TRUE]}
    BY <2>1
  <2>3. i \in Int
    BY <1>0, VisibleTyped
  <2> DEFINE d == setListCursor(details, i)
  <2>4. ListStep(details, d)
    BY <1>0, <2>3, CursorStep
  <2>5. ListStep(d, toggleSelection(d)) /\ ListStep(d, DetailsRange(d, details.cursor, i))
    BY <2>4, OtherListSteps DEF ListStep
  <2>6. ListStep(details, e)
    BY <1>0, <2>2, <2>4, <2>5, ListSteps, MarkStep
  <2>7. GoodStep(details, details')
    BY <2>1, <2>6, TouchedStep
  <2> QED BY <1>1, <2>7, GoodKeeps DEF FileClicked
<1>2. CASE OptionClicked
  <2>1. PICK i \in DOMAIN details.question.options :
          details' = [details EXCEPT !.question = [details.question EXCEPT !.at = i]]
    BY <1>2 DEF OptionClicked, selectOption
  <2>2. details.question.options \in Seq(SUBSET Seq(DetailsAnswers))
    BY <1>0 DEF DetailsRecord, DetailsQuestions
  <2>3. i \in Nat
    BY <2>2, LenProperties
  <2>4. GoodStep(details, details')
    BY <1>0, <1>2, <2>1, <2>3, QuestionStep DEF OptionClicked
  <2> QED BY <1>2, <2>4, GoodKeeps DEF OptionClicked
<1> QED BY <1>1, <1>2

\* The marks are read while the load is under way.
LEMMA ReadTyped ==
  ASSUME DetailsInv, NEW l \in dLoads
  PROVE  Read(l) \in DetailsLoads /\ Read(l).no = l.no /\ Read(l).rev = l.rev
<1>1. l \in DetailsLoads /\ Marked(details) \in SUBSET Files
  BY SelectedTyped DEF DetailsInv
<1> QED BY <1>1 DEF Read, DetailsLoads

\* A call that reads, and the status that arrives, keep the invariant.
LEMMA DetailsLoadKeeps == ASSUME DetailsInv, LoadReads \/ StatusArrives PROVE DetailsInv'
<1>0. /\ details \in DetailsRecord /\ CursorIsVisible(details) /\ QuestionIsAbout(details)
      /\ dLoads \subseteq DetailsLoads /\ dSent \in 0 .. MaxLoads /\ LatestIsForRevision /\ LatestStatusShown
  BY DEF DetailsInv
<1>1. CASE LoadReads
  <2>1. PICK l \in dLoads : dLoads' = (dLoads \ {l}) \cup {Read(l)} /\ UNCHANGED <<details, dSent>>
    BY <1>1 DEF LoadReads
  <2>2. Read(l) \in DetailsLoads /\ Read(l).no = l.no /\ Read(l).rev = l.rev
    BY ReadTyped
  <2>3. dLoads' \subseteq DetailsLoads
    BY <1>0, <2>1, <2>2
  <2>4. \A m \in dLoads' : \E n \in dLoads : m.no = n.no /\ m.rev = n.rev
    BY <2>1, <2>2
  <2>5. LatestIsForRevision' /\ LatestStatusShown'
    BY <1>0, <2>1, <2>4 DEF LatestIsForRevision, LatestStatusShown
  <2> QED BY <1>0, <2>1, <2>3, <2>5 DEF DetailsInv
<1>2. CASE StatusArrives
  <2>1. PICK l \in dLoads :
          /\ dLoads' = dLoads \ {l} /\ dSent' = dSent
          /\ details' = IF ~details.open THEN details
                        ELSE [Touch(setItems(details, createListItems(l.list, l.selected))) EXCEPT
                                !.shown = [no |-> l.no, rev |-> l.rev]]
    BY <1>2 DEF StatusArrives
  <2>2. l \in DetailsLoads /\ dLoads' \subseteq DetailsLoads
    BY <1>0, <2>1
  <2>3. CASE ~details.open
    <3>1. details' = details
      BY <2>1, <2>3
    <3>2. LatestIsForRevision' /\ LatestStatusShown'
      BY <1>0, <2>1, <3>1 DEF LatestIsForRevision, LatestStatusShown
    <3> QED BY <1>0, <2>1, <2>2, <3>1, <3>2 DEF DetailsInv
  <2>4. CASE details.open
    <3> DEFINE items == createListItems(l.list, l.selected)
               e == Touch(setItems(details, items))
               shown == [no |-> l.no, rev |-> l.rev]
    <3>1. items \in Seq(FileItems)
      BY <2>2, ListItemsTyped DEF DetailsLoads
    <3>2. ListStep(details, setItems(details, items))
      BY <1>0, <3>1, ItemsStep
    <3>3. GoodStep(details, e)
      BY <3>2, TouchedStep
    <3>4. shown \in [no : Nat, rev : DRevs] /\ shown.no = l.no /\ shown.rev = l.rev
      BY <2>2 DEF DetailsLoads
    <3>5. details' = [e EXCEPT !.shown = shown]
      BY <2>1, <2>4
    <3> HIDE DEF items, e, shown
    <3>6. /\ details' \in DetailsRecord /\ details'.shown = shown /\ details'.open = details.open /\ details'.rev = details.rev
          /\ details'.files = e.files /\ details'.filter = e.filter /\ details'.query = e.query
          /\ details'.cursor = e.cursor /\ details'.question = e.question
      BY <3>3, <3>4, <3>5 DEF GoodStep, DetailsRecord
    <3>7. Visible(details') = Visible(e) /\ getSelectedFiles(details') = getSelectedFiles(e)
      BY <3>6, SameList
    <3>8. CursorIsVisible(details') /\ QuestionIsAbout(details')
      BY <3>3, <3>6, <3>7 DEF GoodStep, CursorIsVisible, QuestionIsAbout
    <3>9. l.no <= dSent /\ (l.no = dSent => l.rev = details.rev)
      BY <1>0, <2>4 DEF LatestIsForRevision
    <3>10. LatestIsForRevision'
      BY <1>0, <2>1, <2>4, <3>4, <3>6, <3>9 DEF LatestIsForRevision
    <3>11. LatestStatusShown'
      BY <2>1, <3>4, <3>6, <3>9 DEF LatestStatusShown
    <3> QED BY <1>0, <2>1, <2>2, <3>6, <3>8, <3>10, <3>11 DEF DetailsInv
  <2> QED BY <2>3, <2>4
<1> QED BY <1>1, <1>2

\* Opening the list, and another revision under the cursor, send a call for that revision.
LEMMA DetailsOpenKeeps ==
  ASSUME DetailsInv, NEW rev \in DRevisions, OpenDetails(rev) \/ DetailsSelectionChanged(rev)
  PROVE  DetailsInv'
<1>0. /\ details \in DetailsRecord /\ CursorIsVisible(details) /\ QuestionIsAbout(details)
      /\ dLoads \subseteq DetailsLoads /\ dSent \in Nat /\ LatestIsForRevision /\ LatestStatusShown
      /\ rev \in DRevs
  BY DetailsAssumption DEF DetailsInv, DRevs
<1>1. ASSUME loadDetails(rev), details' \in DetailsRecord, CursorIsVisible(details'), QuestionIsAbout(details'),
             details'.rev = rev, details'.shown.no <= dSent
      PROVE  DetailsInv'
  <2>1. /\ dLoads' \subseteq DetailsLoads /\ dSent' = dSent + 1 /\ dSent' \in 0 .. MaxLoads
        /\ \A l \in dLoads' : l.no <= dSent' /\ (l.no = dSent' => l.rev = rev)
    BY <1>0, <1>1, DetailsLoadTyped
  <2>2. details'.shown.no \in Nat
    BY <1>1 DEF DetailsRecord
  <2>3. details'.shown.no <= dSent' /\ details'.shown.no # dSent'
    BY <1>0, <1>1, <2>1, <2>2
  <2>4. LatestIsForRevision' /\ LatestStatusShown'
    BY <1>1, <2>1, <2>3 DEF LatestIsForRevision, LatestStatusShown
  <2> QED BY <1>1, <2>1, <2>4 DEF DetailsInv
<1>2. CASE OpenDetails(rev)
  <2>1. details' = NewDetails(rev) /\ loadDetails(rev)
    BY <1>2 DEF OpenDetails
  <2>3. /\ details' \in DetailsRecord /\ CursorIsVisible(details') /\ QuestionIsAbout(details')
        /\ details'.rev = rev /\ details'.shown.no = 0
    BY <1>0, <2>1, NewDetailsTyped
  <2> QED BY <1>0, <1>1, <2>1, <2>3
<1>3. CASE DetailsSelectionChanged(rev)
  <2> DEFINE e == Touch(details)
  <2>1. details' = [e EXCEPT !.cur = rev, !.rev = rev]
    BY <1>3 DEF DetailsSelectionChanged
  <2>2. GoodStep(details, e) /\ QuestionIsAbout(details')
    BY <1>0, <2>1, OtherListSteps, TouchedStep
  <2> HIDE DEF e
  <2>3. /\ details' \in DetailsRecord /\ details'.rev = rev /\ details'.shown = details.shown
        /\ details'.files = e.files /\ details'.filter = e.filter /\ details'.query = e.query /\ details'.cursor = e.cursor
        /\ details'.open = details.open
    BY <1>0, <2>1, <2>2 DEF GoodStep, DetailsRecord
  <2>4. CursorIsVisible(details')
    BY <2>2, <2>3, SameList DEF CursorIsVisible, GoodStep
  <2>5. CASE rev = details.rev
    <3>1. GoodStep(details, details') /\ UNCHANGED <<dLoads, dSent>>
      BY <1>3, <2>2, <2>3, <2>4, <2>5 DEF GoodStep, DetailsSelectionChanged
    <3> QED BY <3>1, GoodKeeps
  <2>6. CASE rev # details.rev
    <3>1. loadDetails(rev)
      BY <1>3, <2>6 DEF DetailsSelectionChanged
    <3>2. details'.shown.no <= dSent
      BY <1>0, <2>3 DEF LatestIsForRevision
    <3> QED BY <1>1, <2>2, <2>3, <2>4, <3>1, <3>2
  <2> QED BY <2>5, <2>6
<1> QED BY <1>2, <1>3

\* The messages that wait are delivered.
LEMMA DetailsDeliverKeeps == ASSUME DetailsInv, DetailsDeliver PROVE DetailsInv'
<1>0. /\ details \in DetailsRecord /\ CursorIsVisible(details) /\ QuestionIsAbout(details)
      /\ dLoads \subseteq DetailsLoads /\ dSent \in Nat /\ LatestIsForRevision /\ LatestStatusShown
      /\ 0 \in DRevs /\ dSent \in 0 .. MaxLoads
  BY DetailsAssumption DEF DetailsInv, DRevs
<1>1. \/ DetailsRefresh /\ UNCHANGED details
      \/ details' = NoDetails /\ UNCHANGED dSent /\ dLoads' = {Read(l) : l \in dLoads}
      \/ details' = [details EXCEPT !.question = NoQuestion] /\ UNCHANGED <<dLoads, dSent>>
      \/ UNCHANGED <<details, dLoads, dSent>>
  BY DEF DetailsDeliver
<1>2. CASE UNCHANGED <<details, dLoads, dSent>>
  BY <1>0, <1>2 DEF DetailsInv, LatestIsForRevision, LatestStatusShown
<1>3. CASE DetailsRefresh /\ UNCHANGED details
  <2>1. CASE ~details.open
    BY <1>2, <1>3, <2>1 DEF DetailsRefresh
  <2>2. CASE details.open
    <3>1. loadDetails(details.rev) /\ details.rev \in DRevs
      BY <1>0, <1>3, <2>2 DEF DetailsRefresh, DetailsRecord
    <3>2. /\ dLoads' \subseteq DetailsLoads /\ dSent' = dSent + 1 /\ dSent' \in 0 .. MaxLoads
          /\ \A l \in dLoads' : l.no <= dSent' /\ (l.no = dSent' => l.rev = details.rev)
      BY <3>1, DetailsLoadTyped
    <3>3. details.shown.no \in Nat /\ details.shown.no <= dSent
      BY <1>0 DEF DetailsRecord, LatestIsForRevision
    <3>4. details.shown.no <= dSent' /\ details.shown.no # dSent'
      BY <1>0, <3>2, <3>3
    <3>5. LatestIsForRevision' /\ LatestStatusShown'
      BY <1>3, <3>2, <3>4 DEF LatestIsForRevision, LatestStatusShown
    <3> QED BY <1>0, <1>3, <3>2, <3>5 DEF DetailsInv
  <2> QED BY <2>1, <2>2
<1>4. CASE details' = NoDetails /\ UNCHANGED dSent /\ dLoads' = {Read(l) : l \in dLoads}
  <2>1. /\ details' \in DetailsRecord /\ CursorIsVisible(details') /\ QuestionIsAbout(details')
        /\ details'.open = FALSE /\ details'.shown.no = 0
    <3>1. details' = [NewDetails(0) EXCEPT !.open = FALSE]
      BY <1>4 DEF NoDetails
    <3>2. details'.open = FALSE
      BY <3>1 DEF NewDetails
    <3> QED BY <1>0, <3>1, <3>2, NewDetailsTyped
  <2>2. dLoads' \subseteq DetailsLoads /\ \A m \in dLoads' : m.no <= dSent
    BY <1>0, <1>4, ReadTyped DEF LatestIsForRevision
  <2>3. LatestIsForRevision' /\ LatestStatusShown'
    BY <1>0, <1>4, <2>1, <2>2 DEF LatestIsForRevision, LatestStatusShown
  <2> QED BY <1>0, <1>4, <2>1, <2>2, <2>3 DEF DetailsInv
<1>5. CASE details' = [details EXCEPT !.question = NoQuestion] /\ UNCHANGED <<dLoads, dSent>>
  <2>1. NoQuestion \in DetailsQuestions
    BY DEF NoQuestion, Question, DetailsQuestions
  <2>2. /\ details' \in DetailsRecord /\ details'.question = NoQuestion
        /\ details'.rev = details.rev /\ details'.shown = details.shown /\ details'.open = details.open
        /\ details'.files = details.files /\ details'.filter = details.filter /\ details'.query = details.query
        /\ details'.cursor = details.cursor
    BY <1>0, <1>5, <2>1 DEF DetailsRecord
  <2>3. CursorIsVisible(details')
    BY <1>0, <2>2, SameList DEF CursorIsVisible
  <2>4. GoodStep(details, details')
    BY <2>2, <2>3 DEF GoodStep, QuestionIsAbout
  <2> QED BY <1>5, <2>4, GoodKeeps
<1> QED BY <1>1, <1>2, <1>3, <1>4, <1>5

\* Whatever keys, clicks, loads and messages do, the cursor is on a visible file, the last
\* load begun is for the revision of the details, and a question is about the marks.
THEOREM DetailsInvariance == DetailsSpec => []DetailsInv
<1>1. DetailsInv /\ [DetailsNext]_detailsVars => DetailsInv'
  <2> SUFFICES ASSUME DetailsInv, [DetailsNext]_detailsVars PROVE DetailsInv'
    OBVIOUS
  <2>1. CASE DetailsKey
    <3>1. PICK k \in DetailsKeys(details) : details' = k.d
      BY <2>1 DEF DetailsKey
    <3>2. GoodStep(details, details')
      BY <3>1, KeyStep DEF DetailsInv
    <3> QED BY <2>1, <3>2, GoodKeeps DEF DetailsKey
  <2>2. CASE FileClicked \/ OptionClicked
    BY <2>2, DetailsClickKeeps
  <2>3. CASE LoadReads \/ StatusArrives
    BY <2>3, DetailsLoadKeeps
  <2>4. CASE DetailsDeliver
    BY <2>4, DetailsDeliverKeeps
  <2>5. CASE \E rev \in DRevisions : OpenDetails(rev) \/ DetailsSelectionChanged(rev)
    BY <2>5, DetailsOpenKeeps
  <2>6. CASE UNCHANGED detailsVars
    BY <2>6 DEF detailsVars, DetailsInv, LatestIsForRevision, LatestStatusShown
  <2> QED BY <2>1, <2>2, <2>3, <2>4, <2>5, <2>6 DEF DetailsNext
<1> QED BY <1>1, DetailsInitHolds, PTL DEF DetailsSpec

\* The list is that of the revision the details act on once its last load is shown, its cursor
\* is on a visible file, and a question is about the files marked.
THEOREM DetailsSound == DetailsSpec => []DetailsAreSound
<1>1. DetailsInv => DetailsAreSound
  <2> SUFFICES ASSUME DetailsInv PROVE DetailsAreSound
    OBVIOUS
  <2>1. DetailsTypeOK
    BY DEF DetailsInv, DetailsRecord, CursorIsVisible, DetailsTypeOK
  <2>2. QuestionMatchesMarks
    BY DEF DetailsInv, QuestionIsAbout, QuestionMatchesMarks
  <2> QED BY <2>1, <2>2 DEF DetailsInv, DetailsAreSound
<1> QED BY <1>1, DetailsInvariance, PTL

-----------------------------------------------------------------------------
(* Diffs.                                                                    *)
\* Lines as they are written, lines as they are shown, and the parser between them.
LineKinds == {"diff", "index", "mode", "new file", "deleted file", "rename from", "rename to", "old path", "new path",
              "hunk", "context", "removed", "added", "no newline", "rename"}
RawLines == [kind : LineKinds, path : Paths \cup {0}, words : SUBSET Words, old : Nat, new : Nat, marker : BOOLEAN]
ShownLines == [kind : LineKinds, words : SUBSET Words, old : Nat, new : Nat]
PatchFiles == [old : Paths \cup {0}, new : Paths \cup {0}, lines : Seq(ShownLines)]
Parsers == [files : Seq(PatchFiles), oldLine : Nat, newLine : Nat, inHunk : BOOLEAN]

\* Two lines removed before the same added one are removed before the same added ones.
LEMMA BlockMeets ==
  ASSUME NEW lines, NEW n \in Nat, NEW i \in 1 .. n, NEW j \in 1 .. n, NEW a \in 1 .. n, NEW b \in 1 .. n,
         InOneBlock(lines, i, j), InOneBlock(lines, a, j), InOneBlock(lines, i, b)
  PROVE  InOneBlock(lines, a, b)
<1> DEFINE Removed(k) == lines[k].kind = "removed"
           Added(k) == lines[k].kind = "added"
<1>0. \A k : ~(Removed(k) /\ Added(k))
  OBVIOUS
<1>1. PICK k \in i .. j - 1 : (\A l \in i .. k : Removed(l)) /\ (\A l \in k + 1 .. j : Added(l))
  BY DEF InOneBlock
<1>2. PICK k2 \in a .. j - 1 : (\A l \in a .. k2 : Removed(l)) /\ (\A l \in k2 + 1 .. j : Added(l))
  BY DEF InOneBlock
<1>3. PICK k3 \in i .. b - 1 : (\A l \in i .. k3 : Removed(l)) /\ (\A l \in k3 + 1 .. b : Added(l))
  BY DEF InOneBlock
<1>4. Removed(a) /\ Added(b)
  BY DEF InOneBlock
<1> HIDE DEF Removed, Added
<1>5. k2 = k
  <2>1. ~(k < k2)
    <3> SUFFICES ASSUME k < k2 PROVE FALSE
      OBVIOUS
    <3>1. Removed(k2) /\ Added(k2)
      BY <1>1, <1>2
    <3> QED BY <1>0, <3>1
  <2>2. ~(k2 < k)
    <3> SUFFICES ASSUME k2 < k PROVE FALSE
      OBVIOUS
    <3>1. Removed(k) /\ Added(k)
      BY <1>1, <1>2
    <3> QED BY <1>0, <3>1
  <2> QED BY <2>1, <2>2
<1>6. k3 = k
  <2>1. ~(k < k3)
    <3> SUFFICES ASSUME k < k3 PROVE FALSE
      OBVIOUS
    <3>1. Removed(k + 1) /\ Added(k + 1)
      BY <1>1, <1>3
    <3> QED BY <1>0, <3>1
  <2>2. ~(k3 < k)
    <3> SUFFICES ASSUME k3 < k PROVE FALSE
      OBVIOUS
    <3>1. Removed(k3 + 1) /\ Added(k3 + 1)
      BY <1>1, <1>3
    <3> QED BY <1>0, <3>1
  <2> QED BY <2>1, <2>2
<1>7. a < b /\ k \in a .. b - 1
  BY <1>2, <1>3, <1>5, <1>6
<1>8. (\A l \in a .. k : Removed(l)) /\ (\A l \in k + 1 .. b : Added(l))
  BY <1>2, <1>3, <1>5, <1>6
<1> QED BY <1>4, <1>7, <1>8 DEF InOneBlock, Removed, Added

\* Only one candidate shares more words than each of the others.
LEMMA OneIsBest ==
  ASSUME NEW lines \in Seq(ShownLines), NEW i \in DOMAIN lines, NEW C, C \subseteq DOMAIN lines,
         NEW j \in BestMatch(lines, i, C), NEW k \in BestMatch(lines, i, C)
  PROVE  j = k
<1>1. \A l \in C : sharedLineWords(lines, i, l) \in Nat
  <2> SUFFICES ASSUME NEW l \in C PROVE sharedLineWords(lines, i, l) \in Nat
    OBVIOUS
  <2>1. lines[i].words \subseteq Words
    <3>1. lines[i] \in ShownLines
      BY LenProperties, ElementOfSeq
    <3> QED BY <3>1 DEF ShownLines
  <2>2. lines[i].words \cap lines[l].words \subseteq Words
    BY <2>1
  <2>3. IsFiniteSet(lines[i].words \cap lines[l].words)
    BY <2>2, PatchAssumption, FS_Subset
  <2> QED BY <2>3, FS_CardinalityType DEF sharedLineWords
<1>2. j \in C /\ k \in C
  BY DEF BestMatch
<1>3. ASSUME j # k PROVE FALSE
  <2>1. /\ sharedLineWords(lines, i, k) < sharedLineWords(lines, i, j)
        /\ sharedLineWords(lines, i, j) < sharedLineWords(lines, i, k)
    BY <1>2, <1>3 DEF BestMatch
  <2> QED BY <1>1, <1>2, <2>1
<1> QED BY <1>3

\* A pair is of one block, and each of the two is the best match of the other there.
LEMMA PairIsMutual ==
  ASSUME NEW lines \in Seq(ShownLines), NEW p \in pairChangedBlocks(lines)
  PROVE  /\ p[1] \in DOMAIN lines /\ p[2] \in DOMAIN lines /\ InOneBlock(lines, p[1], p[2])
         /\ p[2] \in BestMatch(lines, p[1], {k \in DOMAIN lines : InOneBlock(lines, p[1], k)})
         /\ p[1] \in BestMatch(lines, p[2], {k \in DOMAIN lines : InOneBlock(lines, k, p[2])})
<1> DEFINE D == DOMAIN lines
           R(j) == {k \in D : InOneBlock(lines, k, j)}
           A(i) == {k \in D : InOneBlock(lines, i, k)}
<1>0. Len(lines) \in Nat /\ D = 1 .. Len(lines)
  BY LenProperties
<1>1. PICK b \in D \X D : InOneBlock(lines, b[1], b[2]) /\ p \in relatedLinePairs(lines, R(b[2]), A(b[1]))
  BY DEF pairChangedBlocks
<1>2. b[1] \in D /\ b[2] \in D
  BY <1>1
<1> HIDE DEF R, A
<1>3. /\ p \in R(b[2]) \X A(b[1])
      /\ p[2] \in BestMatch(lines, p[1], A(b[1])) /\ p[1] \in BestMatch(lines, p[2], R(b[2]))
  BY <1>1 DEF relatedLinePairs
<1>4. /\ p[1] \in D /\ InOneBlock(lines, p[1], b[2])
      /\ p[2] \in D /\ InOneBlock(lines, b[1], p[2])
  BY <1>3 DEF R, A
<1> HIDE DEF D
<1>9. \A x, y, u, v \in D : InOneBlock(lines, x, y) /\ InOneBlock(lines, u, y) /\ InOneBlock(lines, x, v) =>
                              InOneBlock(lines, u, v)
  BY <1>0, BlockMeets
<1>10. InOneBlock(lines, b[1], b[2])
  BY <1>1
<1>5. InOneBlock(lines, p[1], p[2])
  <2>1. \A u, v \in D : InOneBlock(lines, u, b[2]) /\ InOneBlock(lines, b[1], v) => InOneBlock(lines, u, v)
    BY <1>2, <1>9, <1>10
  <2> QED BY <1>4, <2>1
<1>6. \A k \in D : InOneBlock(lines, p[1], k) <=> InOneBlock(lines, b[1], k)
  BY <1>2, <1>4, <1>9, <1>10, Zenon
<1>7. \A k \in D : InOneBlock(lines, k, p[2]) <=> InOneBlock(lines, k, b[2])
  <2>1. \A k \in D : InOneBlock(lines, k, p[2]) => InOneBlock(lines, k, b[2])
    <3>1. \A u, v \in D : InOneBlock(lines, u, p[2]) /\ InOneBlock(lines, b[1], v) => InOneBlock(lines, u, v)
      BY <1>4, <1>2, <1>9
    <3> QED BY <1>2, <1>10, <3>1
  <2>2. \A k \in D : InOneBlock(lines, k, b[2]) => InOneBlock(lines, k, p[2])
    <3>1. \A u, v \in D : InOneBlock(lines, u, b[2]) /\ InOneBlock(lines, b[1], v) => InOneBlock(lines, u, v)
      BY <1>2, <1>9, <1>10
    <3> QED BY <1>4, <3>1
  <2> QED BY <2>1, <2>2
<1>8. A(p[1]) = A(b[1]) /\ R(p[2]) = R(b[2])
  BY <1>6, <1>7, Zenon DEF A, R
<1> QED BY <1>3, <1>4, <1>5, <1>8 DEF A, R, D

\* Whatever the lines, they are paired one to one within a block.
LEMMA PairsMatch ==
  ASSUME NEW lines \in Seq(ShownLines), NEW p \in pairChangedBlocks(lines), NEW q \in pairChangedBlocks(lines)
  PROVE  ((p[1] = q[1]) <=> (p[2] = q[2])) /\ InOneBlock(lines, p[1], p[2])
<1> DEFINE R(j) == {k \in DOMAIN lines : InOneBlock(lines, k, j)}
           A(i) == {k \in DOMAIN lines : InOneBlock(lines, i, k)}
<1>1. /\ p[1] \in DOMAIN lines /\ p[2] \in DOMAIN lines /\ InOneBlock(lines, p[1], p[2])
      /\ p[2] \in BestMatch(lines, p[1], A(p[1])) /\ p[1] \in BestMatch(lines, p[2], R(p[2]))
  BY PairIsMutual
<1>2. q[2] \in BestMatch(lines, q[1], A(q[1])) /\ q[1] \in BestMatch(lines, q[2], R(q[2]))
  BY PairIsMutual
<1>3. A(p[1]) \subseteq DOMAIN lines /\ R(p[2]) \subseteq DOMAIN lines
  BY Zenon
<1> HIDE DEF A, R
<1>4. ASSUME p[1] = q[1] PROVE p[2] = q[2]
  BY <1>1, <1>2, <1>3, <1>4, OneIsBest
<1>5. ASSUME p[2] = q[2] PROVE p[1] = q[1]
  BY <1>1, <1>2, <1>3, <1>5, OneIsBest
<1> QED BY <1>1, <1>4, <1>5

\* A file with one field changed.
LEMMA FileUpdates ==
  ASSUME NEW f \in PatchFiles
  PROVE  /\ \A x \in Paths \cup {0} : [f EXCEPT !.old = x] \in PatchFiles /\ [f EXCEPT !.new = x] \in PatchFiles
         /\ \A s \in Seq(ShownLines) : [f EXCEPT !.lines = s] \in PatchFiles /\ [f EXCEPT !.lines = s].lines = s
BY DEF PatchFiles

\* A parser with other files.
LEMMA FilesSet ==
  ASSUME NEW p \in Parsers, NEW s \in Seq(PatchFiles)
  PROVE  /\ [p EXCEPT !.files = s] \in Parsers /\ [p EXCEPT !.files = s].files = s
         /\ [p EXCEPT !.files = s].oldLine = p.oldLine /\ [p EXCEPT !.files = s].newLine = p.newLine /\ [p EXCEPT !.files = s].inHunk = p.inHunk
BY DEF Parsers

\* A parser with another line number before the change.
LEMMA OldLineSet ==
  ASSUME NEW p \in Parsers, NEW n \in Nat
  PROVE  /\ [p EXCEPT !.oldLine = n] \in Parsers /\ [p EXCEPT !.oldLine = n].oldLine = n
         /\ [p EXCEPT !.oldLine = n].files = p.files /\ [p EXCEPT !.oldLine = n].newLine = p.newLine /\ [p EXCEPT !.oldLine = n].inHunk = p.inHunk
BY DEF Parsers

\* A parser with another line number after the change.
LEMMA NewLineSet ==
  ASSUME NEW p \in Parsers, NEW n \in Nat
  PROVE  /\ [p EXCEPT !.newLine = n] \in Parsers /\ [p EXCEPT !.newLine = n].newLine = n
         /\ [p EXCEPT !.newLine = n].files = p.files /\ [p EXCEPT !.newLine = n].oldLine = p.oldLine /\ [p EXCEPT !.newLine = n].inHunk = p.inHunk
BY DEF Parsers

\* A parser that enters or leaves a hunk.
LEMMA HunkSet ==
  ASSUME NEW p \in Parsers, NEW b \in BOOLEAN
  PROVE  /\ [p EXCEPT !.inHunk = b] \in Parsers /\ [p EXCEPT !.inHunk = b].inHunk = b
         /\ [p EXCEPT !.inHunk = b].files = p.files /\ [p EXCEPT !.inHunk = b].oldLine = p.oldLine /\ [p EXCEPT !.inHunk = b].newLine = p.newLine
BY DEF Parsers

\* The file that is read is the last one.
LEMMA CurrentTyped ==
  ASSUME NEW p \in Parsers, p.files # <<>>
  PROVE  Current(p) \in PatchFiles /\ Len(p.files) \in 1 .. Len(p.files)
<1>1. p.files \in Seq(PatchFiles)
  BY DEF Parsers
<1>2. Len(p.files) \in Nat /\ Len(p.files) # 0 /\ Len(p.files) \in 1 .. Len(p.files)
  BY <1>1, EmptySeq, LenProperties
<1> QED BY <1>1, <1>2, ElementOfSeq DEF Current

\* The parser p with its last file replaced.
LEMMA SetCurrentTyped ==
  ASSUME NEW p \in Parsers, p.files # <<>>, NEW f \in PatchFiles
  PROVE  /\ SetCurrent(p, f) \in Parsers /\ SetCurrent(p, f).files # <<>> /\ Current(SetCurrent(p, f)) = f
         /\ SetCurrent(p, f).oldLine = p.oldLine /\ SetCurrent(p, f).newLine = p.newLine
         /\ SetCurrent(p, f).inHunk = p.inHunk
<1> DEFINE n == Len(p.files)
           s == [p.files EXCEPT ![n] = f]
<1>1. p.files \in Seq(PatchFiles)
  BY DEF Parsers
<1>2. n \in Nat /\ n # 0 /\ n \in 1 .. n
  BY <1>1, EmptySeq, LenProperties
<1>4. s \in Seq(PatchFiles) /\ Len(s) = n /\ s[n] = f /\ s # <<>>
  BY <1>1, <1>2
<1>5. SetCurrent(p, f) = [p EXCEPT !.files = s]
  BY DEF SetCurrent
<1> HIDE DEF s
<1>6. /\ SetCurrent(p, f) \in Parsers /\ SetCurrent(p, f).files = s
      /\ SetCurrent(p, f).oldLine = p.oldLine /\ SetCurrent(p, f).newLine = p.newLine
      /\ SetCurrent(p, f).inHunk = p.inHunk
  BY <1>4, <1>5, FilesSet
<1> QED BY <1>4, <1>6 DEF Current

\* A line is put at the end of the last file.
LEMMA AddLineTyped ==
  ASSUME NEW p \in Parsers, p.files # <<>>, NEW raw \in RawLines, NEW old \in Nat, NEW new \in Nat
  PROVE  /\ AddLine(p, raw, old, new) \in Parsers /\ AddLine(p, raw, old, new).files # <<>>
         /\ Last(Current(AddLine(p, raw, old, new)).lines) = [kind |-> raw.kind, words |-> raw.words, old |-> old, new |-> new]
         /\ AddLine(p, raw, old, new).oldLine = p.oldLine /\ AddLine(p, raw, old, new).newLine = p.newLine
         /\ AddLine(p, raw, old, new).inHunk = p.inHunk
<1> DEFINE line == PatchLine(raw, old, new)
           s == Append(Current(p).lines, line)
           f == [Current(p) EXCEPT !.lines = s]
<1>1. line = [kind |-> raw.kind, words |-> raw.words, old |-> old, new |-> new] /\ line \in ShownLines
  BY DEF PatchLine, RawLines, ShownLines
<1>2. Current(p) \in PatchFiles
  BY CurrentTyped
<1>3. Current(p).lines \in Seq(ShownLines)
  BY <1>2 DEF PatchFiles
<1> HIDE DEF line
<1>4. s \in Seq(ShownLines) /\ Last(s) = line
  BY <1>1, <1>3 DEF Last
<1> HIDE DEF s
<1>5. f \in PatchFiles /\ f.lines = s
  BY <1>2, <1>4, FileUpdates
<1>6. AddLine(p, raw, old, new) = SetCurrent(p, f)
  BY DEF AddLine, s, line
<1> HIDE DEF f
<1>7. /\ SetCurrent(p, f) \in Parsers /\ SetCurrent(p, f).files # <<>> /\ Current(SetCurrent(p, f)) = f
      /\ SetCurrent(p, f).oldLine = p.oldLine /\ SetCurrent(p, f).newLine = p.newLine
      /\ SetCurrent(p, f).inHunk = p.inHunk
  BY <1>5, SetCurrentTyped
<1> QED BY <1>1, <1>4, <1>5, <1>6, <1>7

\* Header lines keep the parser outside hunks, whichever they are.
LEMMA HeaderParsed ==
  ASSUME NEW p \in Parsers, p.files # <<>>, NEW raw \in RawLines
  PROVE  parseHeader(p, raw) \in Parsers /\ parseHeader(p, raw).files # <<>> /\ parseHeader(p, raw).inHunk = p.inHunk
<1> DEFINE file == Current(p)
           Good(q) == q \in Parsers /\ q.files # <<>> /\ q.inHunk = p.inHunk
<1>1. file \in PatchFiles /\ raw.path \in Paths \cup {0} /\ 0 \in Paths \cup {0} /\ 0 \in Nat
  BY CurrentTyped DEF RawLines
<1> HIDE DEF file
<1>2. \A x \in Paths \cup {0} : [file EXCEPT !.old = x] \in PatchFiles /\ [file EXCEPT !.new = x] \in PatchFiles
  BY <1>1, FileUpdates
<1>3. \A f \in PatchFiles : Good(SetCurrent(p, f))
  BY SetCurrentTyped
<1>4. \A q \in Parsers : Good(q) => Good(AddLine(q, raw, 0, 0))
  BY <1>1, AddLineTyped
<1>5. /\ Good(SetCurrent(p, [file EXCEPT !.old = raw.path])) /\ Good(SetCurrent(p, [file EXCEPT !.new = raw.path]))
      /\ Good(AddLine(SetCurrent(p, [file EXCEPT !.old = 0]), raw, 0, 0))
      /\ Good(AddLine(SetCurrent(p, [file EXCEPT !.new = 0]), raw, 0, 0))
      /\ Good(AddLine(p, raw, 0, 0)) /\ Good(p)
  BY <1>1, <1>2, <1>3, <1>4
<1>6. parseHeader(p, raw) \in {SetCurrent(p, [file EXCEPT !.old = raw.path]), SetCurrent(p, [file EXCEPT !.new = raw.path]),
                               AddLine(SetCurrent(p, [file EXCEPT !.old = 0]), raw, 0, 0),
                               AddLine(SetCurrent(p, [file EXCEPT !.new = 0]), raw, 0, 0), AddLine(p, raw, 0, 0), p}
  BY Zenon DEF parseHeader, LooksOld, LooksNew, file
<1> HIDE DEF Good
<1>7. Good(parseHeader(p, raw))
  BY <1>5, <1>6, Zenon
<1> QED BY <1>7 DEF Good

\* The lines of a hunk.
Hunks == Commentables \cup {"no newline"}

\* What parsing a line does to the parser: a hunk sets the numbers, its lines advance them.
LEMMA LineParsed ==
  ASSUME NEW p \in Parsers, NEW raw \in RawLines, raw.kind = "diff" \/ p.files # <<>>
  PROVE  LET q == parseLine(p, raw)
         IN  /\ q \in Parsers /\ q.files # <<>>
             /\ raw.kind = "diff" => q.inHunk = FALSE
             /\ raw.kind = "hunk" => q.inHunk = TRUE /\ q.oldLine = raw.old /\ q.newLine = raw.new
             /\ raw.kind \notin {"diff", "hunk"} /\ p.inHunk = FALSE => q.inHunk = FALSE
             /\ raw.kind \in Hunks /\ p.inHunk = TRUE =>
                  /\ q.inHunk = TRUE
                  /\ q.oldLine = IF raw.kind \in {"context", "removed"} THEN p.oldLine + 1 ELSE p.oldLine
                  /\ q.newLine = IF raw.kind \in {"context", "added"} THEN p.newLine + 1 ELSE p.newLine
             /\ raw.kind \in Commentables /\ p.inHunk = TRUE =>
                  Last(Current(q).lines) = [kind |-> raw.kind, words |-> raw.words,
                                            old |-> IF raw.kind = "added" THEN 0 ELSE p.oldLine,
                                            new |-> IF raw.kind = "removed" THEN 0 ELSE p.newLine]
<1> DEFINE q == parseLine(p, raw)
<1>0. p.oldLine \in Nat /\ p.newLine \in Nat /\ p.inHunk \in BOOLEAN /\ p.files \in Seq(PatchFiles) /\ 0 \in Nat
      /\ p.oldLine + 1 \in Nat /\ p.newLine + 1 \in Nat
  BY DEF Parsers
<1>1. raw.old \in Nat /\ raw.new \in Nat /\ raw.path \in Paths \cup {0} /\ raw.kind \in LineKinds
  BY DEF RawLines
<1>2. CASE raw.kind = "diff"
  <2> DEFINE s == Append(p.files, NewFile(raw.path))
  <2>1. NewFile(raw.path) \in PatchFiles
    BY <1>1 DEF NewFile, PatchFiles
  <2>2. s \in Seq(PatchFiles) /\ s # <<>>
    BY <1>0, <2>1
  <2>3. q = [[p EXCEPT !.files = s] EXCEPT !.inHunk = FALSE]
    BY <1>2 DEF parseLine, Parsers
  <2> HIDE DEF s
  <2>4. q \in Parsers /\ q.files = s /\ q.inHunk = FALSE
    <3>1. [p EXCEPT !.files = s] \in Parsers /\ [p EXCEPT !.files = s].files = s
      BY <2>2, FilesSet
    <3> HIDE DEF q
    <3> QED BY <2>3, <3>1, HunkSet
  <2> QED BY <1>2, <2>2, <2>4 DEF Hunks, Commentables
<1>3. CASE raw.kind = "hunk"
  <2> DEFINE a == AddLine(p, raw, 0, 0)
             b == [a EXCEPT !.oldLine = raw.old]
             c == [b EXCEPT !.newLine = raw.new]
             d == [c EXCEPT !.inHunk = TRUE]
  <2>1. a \in Parsers /\ a.files # <<>>
    BY <1>0, <1>3, AddLineTyped
  <2>2. q = d
    <3>1. q = [a EXCEPT !.oldLine = raw.old, !.newLine = raw.new, !.inHunk = TRUE]
      BY <1>3 DEF parseLine
    <3> HIDE DEF a, q
    <3> QED BY <2>1, <3>1 DEF Parsers
  <2> HIDE DEF a, q
  <2>3. b \in Parsers /\ b.oldLine = raw.old /\ b.files # <<>>
    BY <1>1, <2>1, OldLineSet
  <2> HIDE DEF b
  <2>4. c \in Parsers /\ c.oldLine = raw.old /\ c.newLine = raw.new /\ c.files # <<>>
    BY <1>1, <2>3, NewLineSet
  <2> HIDE DEF c
  <2>5. d \in Parsers /\ d.oldLine = raw.old /\ d.newLine = raw.new /\ d.files # <<>> /\ d.inHunk = TRUE
    BY <2>4, HunkSet
  <2> QED BY <1>3, <2>2, <2>5 DEF Hunks, Commentables, q
<1>4. CASE raw.kind \notin {"diff", "hunk"} /\ p.inHunk = FALSE
  <2>1. q = parseHeader(p, raw)
    BY <1>4 DEF parseLine
  <2>2. p.files # <<>>
    BY <1>4
  <2>3. parseHeader(p, raw) \in Parsers /\ parseHeader(p, raw).files # <<>> /\ parseHeader(p, raw).inHunk = p.inHunk
    BY <2>2, HeaderParsed
  <2> QED BY <1>4, <2>1, <2>3
<1>5. CASE raw.kind \notin {"diff", "hunk"} /\ p.inHunk = TRUE
  <2> DEFINE a(old, new) == AddLine(p, raw, old, new)
  <2>0. q = parseHunkLine(p, raw) /\ p.files # <<>>
    BY <1>5 DEF parseLine
  <2>1. \A old, new \in Nat :
          /\ a(old, new) \in Parsers /\ a(old, new).files # <<>>
          /\ Last(Current(a(old, new)).lines) = [kind |-> raw.kind, words |-> raw.words, old |-> old, new |-> new]
          /\ a(old, new).oldLine = p.oldLine /\ a(old, new).newLine = p.newLine /\ a(old, new).inHunk = TRUE
    BY <1>5, <2>0, AddLineTyped
  <2>2. CASE raw.kind = "context"
    <3> DEFINE x == a(p.oldLine, p.newLine)
               y == [x EXCEPT !.oldLine = p.oldLine + 1]
               z == [y EXCEPT !.newLine = p.newLine + 1]
    <3>1. /\ x \in Parsers /\ x.files # <<>> /\ x.oldLine = p.oldLine /\ x.newLine = p.newLine /\ x.inHunk = TRUE
          /\ Last(Current(x).lines) = [kind |-> raw.kind, words |-> raw.words, old |-> p.oldLine, new |-> p.newLine]
      BY <1>0, <2>1
    <3>2. q = z
      <4>1. q = [x EXCEPT !.oldLine = @ + 1, !.newLine = @ + 1]
        BY <2>0, <2>2 DEF parseHunkLine
      <4> HIDE DEF x, q
      <4> QED BY <3>1, <4>1 DEF Parsers
    <3> HIDE DEF x, q
    <3>3. y \in Parsers /\ y.files = x.files /\ y.oldLine = p.oldLine + 1 /\ y.newLine = p.newLine /\ y.inHunk = TRUE
      BY <1>0, <3>1, OldLineSet
    <3> HIDE DEF y
    <3>4. z \in Parsers /\ z.files = x.files /\ z.oldLine = p.oldLine + 1 /\ z.newLine = p.newLine + 1 /\ z.inHunk = TRUE
      BY <1>0, <3>3, NewLineSet
    <3> HIDE DEF z
    <3>5. Current(z) = Current(x)
      BY <3>4 DEF Current
    <3> QED BY <1>5, <2>2, <3>1, <3>2, <3>4, <3>5 DEF q
  <2>3. CASE raw.kind = "removed"
    <3> DEFINE x == a(p.oldLine, 0)
               y == [x EXCEPT !.oldLine = p.oldLine + 1]
    <3>1. /\ x \in Parsers /\ x.files # <<>> /\ x.oldLine = p.oldLine /\ x.newLine = p.newLine /\ x.inHunk = TRUE
          /\ Last(Current(x).lines) = [kind |-> raw.kind, words |-> raw.words, old |-> p.oldLine, new |-> 0]
      BY <1>0, <2>1
    <3>2. q = y
      <4>1. q = [x EXCEPT !.oldLine = @ + 1]
        BY <2>0, <2>3 DEF parseHunkLine
      <4> HIDE DEF x, q
      <4> QED BY <3>1, <4>1 DEF Parsers
    <3> HIDE DEF x, q
    <3>3. y \in Parsers /\ y.files = x.files /\ y.oldLine = p.oldLine + 1 /\ y.newLine = p.newLine /\ y.inHunk = TRUE
      BY <1>0, <3>1, OldLineSet
    <3> HIDE DEF y
    <3>4. Current(y) = Current(x)
      BY <3>3 DEF Current
    <3> QED BY <1>5, <2>3, <3>1, <3>2, <3>3, <3>4 DEF q
  <2>4. CASE raw.kind = "added"
    <3> DEFINE x == a(0, p.newLine)
               y == [x EXCEPT !.newLine = p.newLine + 1]
    <3>1. /\ x \in Parsers /\ x.files # <<>> /\ x.oldLine = p.oldLine /\ x.newLine = p.newLine /\ x.inHunk = TRUE
          /\ Last(Current(x).lines) = [kind |-> raw.kind, words |-> raw.words, old |-> 0, new |-> p.newLine]
      BY <1>0, <2>1
    <3>2. q = y
      <4>1. q = [x EXCEPT !.newLine = @ + 1]
        BY <2>0, <2>4 DEF parseHunkLine
      <4> HIDE DEF x, q
      <4> QED BY <3>1, <4>1 DEF Parsers
    <3> HIDE DEF x, q
    <3>3. y \in Parsers /\ y.files = x.files /\ y.oldLine = p.oldLine /\ y.newLine = p.newLine + 1 /\ y.inHunk = TRUE
      BY <1>0, <3>1, NewLineSet
    <3> HIDE DEF y
    <3>4. Current(y) = Current(x)
      BY <3>3 DEF Current
    <3> QED BY <1>5, <2>4, <3>1, <3>2, <3>3, <3>4 DEF q
  <2>5. CASE raw.kind = "no newline"
    <3>1. q = a(0, 0)
      BY <2>0, <2>5 DEF parseHunkLine
    <3>2. a(0, 0) \in Parsers /\ a(0, 0).files # <<>> /\ a(0, 0).inHunk = TRUE
          /\ a(0, 0).oldLine = p.oldLine /\ a(0, 0).newLine = p.newLine
      BY <1>0, <2>1
    <3> HIDE DEF a, q
    <3> QED BY <1>5, <2>5, <3>1, <3>2 DEF q, Commentables
  <2>6. CASE raw.kind \notin Hunks
    <3> DEFINE x == a(0, 0)
    <3>1. q = [x EXCEPT !.inHunk = FALSE]
      BY <2>0, <2>6 DEF parseHunkLine, Hunks, Commentables
    <3>2. x \in Parsers /\ x.files # <<>>
      BY <1>0, <2>1
    <3> HIDE DEF x, q
    <3>3. q \in Parsers /\ q.files # <<>>
      BY <3>1, <3>2, HunkSet
    <3> QED BY <1>5, <2>6, <3>3 DEF q, Hunks
  <2> QED BY <2>2, <2>3, <2>4, <2>5, <2>6 DEF Hunks, Commentables
<1> QED BY <1>0, <1>2, <1>3, <1>4, <1>5

\* The first line begins a file; the parser is in a hunk when the diff is, and its numbers are those of
\* the hunk with the lines since.
Counted(lines, h, n, kinds) == Cardinality({j \in h + 1 .. n : lines[j].kind \in kinds})
\* The parser's numbers are those of the hunk and the lines counted since.
InThisHunk(h) ==
  /\ h \in 1 .. Len(written) /\ written[h].kind = "hunk" /\ \A j \in h + 1 .. Len(written) : written[j].kind \in Hunks
  /\ parse.oldLine = written[h].old + Counted(written, h, Len(written), {"context", "removed"})
  /\ parse.newLine = written[h].new + Counted(written, h, Len(written), {"context", "added"})

\* The inductive invariant: with the types, that the parser is in the hunk that is written.
PatchInv ==
  /\ written \in Seq(RawLines) /\ parse \in Parsers
  /\ written # <<>> => written[1].kind = "diff" /\ parse.files # <<>>
  /\ parse.inHunk = InHunk
  /\ InHunk => \E h \in 1 .. Len(written) : InThisHunk(h)
  /\ LineNumbersAreExact

\* The file that is written begins at a line of the diff.
LEMMA LastDiffIs ==
  ASSUME PatchInv, written # <<>>
  PROVE  LastDiff \in 1 .. Len(written) /\ written[LastDiff].path \in Paths \cup {0}
<1>0. written \in Seq(RawLines) /\ Len(written) \in Nat /\ Len(written) # 0 /\ DOMAIN written = 1 .. Len(written)
      /\ written[1].kind = "diff"
  BY EmptySeq, LenProperties DEF PatchInv
<1> DEFINE T == {i \in 1 .. Len(written) : written[i].kind = "diff"}
<1>1. 1 \in T /\ T \subseteq 0 .. Len(written)
  BY <1>0
<1> HIDE DEF T
<1>2. PICK x \in T : \A y \in T : x >= y
  BY <1>0, <1>1, GreatestOf
<1>3. x \in DOMAIN written /\ written[x].kind = "diff" /\ \A j \in x + 1 .. Len(written) : written[j].kind # "diff"
  <2>1. x \in 1 .. Len(written) /\ written[x].kind = "diff"
    BY <1>2 DEF T
  <2>2. ASSUME NEW j \in x + 1 .. Len(written), written[j].kind = "diff" PROVE FALSE
    <3>1. j \in 1 .. Len(written) /\ ~(x >= j)
      BY <1>0, <2>1
    <3> QED BY <1>2, <2>2, <3>1 DEF T
  <2> QED BY <1>0, <2>1, <2>2
<1>4. LastDiff \in DOMAIN written
  BY <1>3 DEF LastDiff
<1>5. written[LastDiff] \in RawLines
  BY <1>0, <1>4, ElementOfSeq
<1> QED BY <1>0, <1>4, <1>5 DEF RawLines

\* What git writes next: lines of changes in hunks only, and a file first.
LEMMA NextLineIs ==
  ASSUME PatchInv, NEW raw \in NextLines
  PROVE  /\ raw \in RawLines
         /\ written = <<>> => raw.kind = "diff"
         /\ raw.kind \in Hunks => InHunk
         /\ raw.kind # "diff" /\ raw.kind # "hunk" /\ InHunk => raw.kind \in Hunks
<1>0. ASSUME NEW kind \in LineKinds, NEW path \in Paths \cup {0} PROVE [Raw(kind) EXCEPT !.path = path] \in RawLines
  BY DEF Raw, RawLines
<1>1. ASSUME NEW kind \in LineKinds PROVE Raw(kind) \in RawLines /\ Raw(kind).kind = kind
  BY DEF Raw, RawLines
<1>2. ASSUME NEW kind, NEW path PROVE [Raw(kind) EXCEPT !.path = path].kind = kind
  BY DEF Raw
<1>3. written = <<>> <=> LastKind = "start"
  <2>1. written # <<>> => LastKind \in LineKinds
    <3> SUFFICES ASSUME written # <<>> PROVE LastKind \in LineKinds
      OBVIOUS
    <3>1. written \in Seq(RawLines) /\ Len(written) \in 1 .. Len(written)
      BY EmptySeq, LenProperties DEF PatchInv
    <3>2. written[Len(written)] \in RawLines
      BY <3>1, ElementOfSeq
    <3> QED BY <3>2 DEF LastKind, Last, RawLines
  <2>2. "start" \notin LineKinds
    BY DEF LineKinds
  <2>3. written = <<>> => LastKind = "start"
    BY DEF LastKind
  <2> QED BY <2>1, <2>2, <2>3
<1>4. CASE \E p \in Paths : raw = [Raw("diff") EXCEPT !.path = p]
  <2>1. PICK p \in Paths : raw = [Raw("diff") EXCEPT !.path = p]
    BY <1>4
  <2>2. "diff" \in LineKinds /\ p \in Paths \cup {0}
    BY DEF LineKinds
  <2>3. raw \in RawLines /\ raw.kind = "diff"
    BY <1>0, <1>2, <2>1, <2>2
  <2> QED BY <2>3 DEF Hunks, Commentables
<1>5. CASE ~InHunk /\ written # <<>> /\ \E k \in {"new file", "deleted file", "mode", "index"} : raw = Raw(k)
  <2>1. PICK k \in {"new file", "deleted file", "mode", "index"} : raw = Raw(k)
    BY <1>5
  <2>2. raw \in RawLines /\ raw.kind = k
    BY <1>1, <2>1 DEF LineKinds
  <2> QED BY <1>5, <2>2 DEF Hunks, Commentables
<1>6. CASE ~InHunk /\ written # <<>> /\ \E k \in {"rename from", "rename to", "old path", "new path"}, x \in Paths \cup {0} : raw = [Raw(k) EXCEPT !.path = x]
  <2>1. PICK k \in {"rename from", "rename to", "old path", "new path"}, x \in Paths \cup {0} : raw = [Raw(k) EXCEPT !.path = x]
    BY <1>6
  <2>2. raw \in RawLines /\ raw.kind = k
    BY <1>0, <1>2, <2>1 DEF LineKinds
  <2> QED BY <1>6, <2>2 DEF Hunks, Commentables
<1>7. CASE written # <<>> /\ raw = [Raw("hunk") EXCEPT !.old = 1, !.new = 2]
  <2>1. raw \in RawLines /\ raw.kind = "hunk"
    BY <1>7 DEF Raw, RawLines, LineKinds
  <2> QED BY <1>7, <2>1 DEF Hunks, Commentables
<1>8. CASE InHunk /\ raw \in {Raw("context"), Raw("no newline")}
  <2>1. raw \in RawLines /\ raw.kind \in Hunks
    BY <1>1, <1>8 DEF LineKinds, Hunks, Commentables
  <2>2. written # <<>>
    BY <1>3, <1>8 DEF InHunk, Commentables
  <2> QED BY <1>8, <2>1, <2>2
<1>9. CASE InHunk /\ \E l \in [kind : {"removed", "added"}, words : SUBSET Words, marker : BOOLEAN] : raw = ChangedLine(l)
  <2>1. PICK l \in [kind : {"removed", "added"}, words : SUBSET Words, marker : BOOLEAN] : raw = ChangedLine(l)
    BY <1>9
  <2>2. raw = [kind |-> l.kind, path |-> 0, words |-> l.words, old |-> 0, new |-> 0, marker |-> l.marker]
    BY <2>1 DEF Raw, ChangedLine
  <2>3. raw \in RawLines /\ raw.kind \in Hunks
    BY <2>2 DEF RawLines, LineKinds, Hunks, Commentables
  <2>4. written # <<>>
    BY <1>3, <1>9 DEF InHunk, Commentables
  <2> QED BY <1>9, <2>3, <2>4
<1>10. written # <<>> => /\ Last(written).path \in Paths \cup {0} /\ written[LastDiff].path \in Paths \cup {0}
                         /\ parse.files[Len(parse.files)].new \in Paths \cup {0}
  <2> SUFFICES ASSUME written # <<>>
               PROVE  /\ Last(written).path \in Paths \cup {0} /\ written[LastDiff].path \in Paths \cup {0}
                      /\ parse.files[Len(parse.files)].new \in Paths \cup {0}
    OBVIOUS
  <2>1. written \in Seq(RawLines) /\ Len(written) \in 1 .. Len(written)
    BY EmptySeq, LenProperties DEF PatchInv
  <2>2. written[Len(written)] \in RawLines
    BY <2>1, ElementOfSeq
  <2>3. Current(parse) \in PatchFiles
    BY CurrentTyped DEF PatchInv
  <2> QED BY <2>2, <2>3, LastDiffIs DEF RawLines, Last, PatchFiles, Current
<1>11. InHunk => LastKind \notin Headers \cup {"old path", "new path", "start"}
  BY DEF InHunk, Headers, Commentables
<1> HIDE DEF InHunk, LastKind
<1>12. \/ \E p \in Paths : raw = [Raw("diff") EXCEPT !.path = p]
       \/ LastKind \in Headers /\ \E k \in {"new file", "deleted file", "mode", "index"} : raw = Raw(k)
       \/ LastKind \in Headers \cup {"old path", "new path"} /\
            \E k \in {"rename from", "rename to", "old path", "new path"}, x \in Paths \cup {0} : raw = [Raw(k) EXCEPT !.path = x]
       \/ (LastKind = "new path" \/ InHunk) /\ raw = [Raw("hunk") EXCEPT !.old = 1, !.new = 2]
       \/ InHunk /\ raw \in {Raw("context"), Raw("no newline")}
       \/ InHunk /\ \E l \in [kind : {"removed", "added"}, words : SUBSET Words, marker : BOOLEAN] : raw = ChangedLine(l)
  <2>0. "diff" \in Headers /\ "rename from" \in Headers /\ "index" \in Headers
    BY DEF Headers
  <2> DEFINE
        S1 == {[Raw("diff") EXCEPT !.path = p] : p \in IF LastKind \in {"start"} \cup (Headers \ {"diff", "rename from"}) \/ InHunk THEN Paths ELSE {}}
        S2 == IF LastKind = "diff" THEN {Raw("new file"), Raw("deleted file"), Raw("mode")} ELSE {}
        S3 == IF LastKind = "diff" THEN {[Raw("rename from") EXCEPT !.path = Last(written).path]} ELSE {}
        S4 == IF LastKind = "rename from" THEN {[Raw("rename to") EXCEPT !.path = p] : p \in Paths} ELSE {}
        S5 == IF LastKind \in Headers \ {"rename from", "index"} THEN {Raw("index")} ELSE {}
        P6 == IF Wrote("new file") THEN 0 ELSE written[LastDiff].path
        S6 == IF LastKind = "index" THEN {[Raw("old path") EXCEPT !.path = P6]} ELSE {}
        P7 == IF Wrote("deleted file") THEN 0
              ELSE IF Wrote("rename to") THEN parse.files[Len(parse.files)].new ELSE written[LastDiff].path
        S7 == IF LastKind = "old path" THEN {[Raw("new path") EXCEPT !.path = P7]} ELSE {}
        S8 == IF LastKind = "new path" \/ InHunk THEN {[Raw("hunk") EXCEPT !.old = 1, !.new = 2]} ELSE {}
        S9 == IF InHunk THEN {Raw("context"), Raw("no newline")} ELSE {}
        S10 == IF InHunk THEN {ChangedLine(l) : l \in [kind : {"removed", "added"}, words : SUBSET Words, marker : BOOLEAN]} ELSE {}
  <2>1. raw \in S1 \cup S2 \cup S3 \cup S4 \cup S5 \cup S6 \cup S7 \cup S8 \cup S9 \cup S10
    BY Zenon DEF NextLines
  <2>2. LastKind # "start" => written # <<>>
    BY <1>3
  <2>3. ASSUME raw \in S1 PROVE \E p \in Paths : raw = [Raw("diff") EXCEPT !.path = p]
    BY <2>3
  <2>4. ASSUME raw \in S2 PROVE LastKind \in Headers /\ \E k \in {"new file", "deleted file", "mode", "index"} : raw = Raw(k)
    BY <2>0, <2>4
  <2>5. ASSUME raw \in S5 PROVE LastKind \in Headers /\ \E k \in {"new file", "deleted file", "mode", "index"} : raw = Raw(k)
    BY <2>0, <2>5
  <2>6. ASSUME raw \in S3 \cup S4 \cup S6 \cup S7
        PROVE  LastKind \in Headers \cup {"old path", "new path"} /\
            \E k \in {"rename from", "rename to", "old path", "new path"}, x \in Paths \cup {0} : raw = [Raw(k) EXCEPT !.path = x]
    <3>1. CASE raw \in S3
      <4>1. LastKind = "diff" /\ raw = [Raw("rename from") EXCEPT !.path = Last(written).path]
        BY <3>1
      <4>2. Last(written).path \in Paths \cup {0}
        BY <1>10, <2>2, <4>1
      <4> QED BY <2>0, <4>1, <4>2
    <3>2. CASE raw \in S4
      <4>1. PICK p \in Paths : LastKind = "rename from" /\ raw = [Raw("rename to") EXCEPT !.path = p]
        BY <3>2
      <4> QED BY <2>0, <4>1
    <3>3. CASE raw \in S6
      <4>1. LastKind = "index" /\ raw = [Raw("old path") EXCEPT !.path = P6]
        BY <3>3
      <4>2. P6 \in Paths \cup {0}
        BY <1>10, <2>2, <4>1
      <4> QED BY <2>0, <4>1, <4>2
    <3>4. CASE raw \in S7
      <4>1. LastKind = "old path" /\ raw = [Raw("new path") EXCEPT !.path = P7]
        BY <3>4
      <4>2. P7 \in Paths \cup {0}
        BY <1>10, <2>2, <4>1
      <4> QED BY <2>0, <4>1, <4>2
    <3> HIDE DEF S3, S4, S6, S7
    <3> QED BY <2>6, <3>1, <3>2, <3>3, <3>4
  <2>7. ASSUME raw \in S8 PROVE (LastKind = "new path" \/ InHunk) /\ raw = [Raw("hunk") EXCEPT !.old = 1, !.new = 2]
    BY <2>7
  <2>8. ASSUME raw \in S9 PROVE InHunk /\ raw \in {Raw("context"), Raw("no newline")}
    BY <2>8
  <2>9. ASSUME raw \in S10
        PROVE  InHunk /\ \E l \in [kind : {"removed", "added"}, words : SUBSET Words, marker : BOOLEAN] : raw = ChangedLine(l)
    BY <2>9
  <2> HIDE DEF S1, S2, S3, S4, S5, S6, S7, S8, S9, S10
  <2>10. CASE raw \in S3 \cup S4 \cup S6 \cup S7
    BY <2>6, <2>10, Zenon
  <2>11. CASE raw \in S1 \cup S2 \cup S5 \cup S8 \cup S9 \cup S10
    BY <2>3, <2>4, <2>5, <2>7, <2>8, <2>9, <2>11, Zenon
  <2> QED BY <2>1, <2>10, <2>11, Zenon
<1>13. LastKind \in Headers \cup {"old path", "new path"} => ~InHunk /\ written # <<>>
  <2>1. "start" \notin Headers \cup {"old path", "new path"}
    BY DEF Headers
  <2> QED BY <1>3, <1>11, <2>1
<1>14. InHunk => written # <<>>
  BY <1>3, <1>11
<1> QED BY <1>4, <1>5, <1>6, <1>7, <1>8, <1>9, <1>12, <1>13, <1>14

\* The lines of some kinds in a hunk, when a line is written.
LEMMA CountedNext ==
  ASSUME NEW w \in Seq(RawLines), NEW raw \in RawLines, NEW h \in 1 .. Len(w), NEW K
  PROVE  /\ Counted(w, h, Len(w), K) \in Nat
         /\ Counted(Append(w, raw), h, Len(w), K) = Counted(w, h, Len(w), K)
         /\ Counted(Append(w, raw), h, Len(w) + 1, K) =
              IF raw.kind \in K THEN Counted(w, h, Len(w), K) + 1 ELSE Counted(w, h, Len(w), K)
<1> DEFINE n == Len(w)
           v == Append(w, raw)
           S == {j \in h + 1 .. n : w[j].kind \in K}
           T == {j \in h + 1 .. n + 1 : v[j].kind \in K}
<1>1. n \in Nat /\ h \in Nat /\ h <= n /\ h >= 1
  OBVIOUS
<1>2. (\A j \in 1 .. n : v[j] = w[j]) /\ v[n + 1] = raw
  OBVIOUS
<1>3. \A j \in h + 1 .. n : j \in 1 .. n
  BY <1>1
<1>4. IsFiniteSet(S) /\ Cardinality(S) \in Nat
  <2>1. IsFiniteSet(h + 1 .. n)
    BY <1>1, FS_Interval
  <2> QED BY <2>1, FS_Subset, FS_CardinalityType
<1> HIDE DEF v, n
<1>5. {j \in h + 1 .. n : v[j].kind \in K} = S
  BY <1>2, <1>3
<1>6. \A j : j \in h + 1 .. n + 1 <=> j \in h + 1 .. n \/ j = n + 1
  BY <1>1
<1>7. n + 1 \notin S
  BY <1>1
<1>8. T = IF raw.kind \in K THEN S \cup {n + 1} ELSE S
  <2>1. CASE raw.kind \in K
    BY <1>2, <1>3, <1>6, <2>1
  <2>2. CASE raw.kind \notin K
    BY <1>2, <1>3, <1>6, <2>2
  <2> QED BY <2>1, <2>2
<1> HIDE DEF S, T
<1>9. Cardinality(T) = IF raw.kind \in K THEN Cardinality(S) + 1 ELSE Cardinality(S)
  BY <1>4, <1>7, <1>8, FS_AddElement
<1> QED BY <1>4, <1>5, <1>9 DEF Counted, S, T, n, v

\* Writing a line: what is parsed follows what is written.
LEMMA WriteKeeps == ASSUME PatchInv, WriteLine PROVE PatchInv'
<1>1. PICK raw \in NextLines : written' = Append(written, raw) /\ parse' = parseLine(parse, raw)
  BY DEF WriteLine
<1>2. /\ raw \in RawLines
      /\ written = <<>> => raw.kind = "diff"
      /\ raw.kind \in Hunks => InHunk
      /\ raw.kind # "diff" /\ raw.kind # "hunk" /\ InHunk => raw.kind \in Hunks
  BY NextLineIs
<1>0. PICK n : n = Len(written)
  OBVIOUS
<1>3. written \in Seq(RawLines) /\ n \in Nat /\ parse \in Parsers /\ parse.inHunk = InHunk /\ InHunk \in BOOLEAN
      /\ parse.inHunk \in BOOLEAN /\ raw.old \in Nat /\ raw.new \in Nat
  <2>1. written \in Seq(RawLines) /\ parse \in Parsers /\ parse.inHunk = InHunk
    BY DEF PatchInv
  <2>2. InHunk \in BOOLEAN
    BY DEF InHunk
  <2>3. raw.old \in Nat /\ raw.new \in Nat
    BY <1>2 DEF RawLines
  <2> QED BY <1>0, <2>1, <2>2, <2>3
<1>4. /\ written' \in Seq(RawLines) /\ written' # <<>> /\ Len(written') = n + 1 /\ written'[n + 1] = raw
      /\ \A j \in 1 .. n : written'[j] = written[j]
  BY <1>0, <1>1, <1>2, <1>3
<1>5. raw.kind = "diff" \/ parse.files # <<>>
  BY <1>2 DEF PatchInv
<1> DEFINE q == parseLine(parse, raw)
<1>6. q \in Parsers /\ q.files # <<>>
      /\ (raw.kind = "diff" => q.inHunk = FALSE)
      /\ (raw.kind = "hunk" => q.inHunk = TRUE /\ q.oldLine = raw.old /\ q.newLine = raw.new)
      /\ (raw.kind \notin {"diff", "hunk"} /\ parse.inHunk = FALSE => q.inHunk = FALSE)
      /\ (raw.kind \in Hunks /\ parse.inHunk = TRUE =>
            /\ q.inHunk = TRUE
            /\ q.oldLine = IF raw.kind \in {"context", "removed"} THEN parse.oldLine + 1 ELSE parse.oldLine
            /\ q.newLine = IF raw.kind \in {"context", "added"} THEN parse.newLine + 1 ELSE parse.newLine)
      /\ (raw.kind \in Commentables /\ parse.inHunk = TRUE =>
            Last(Current(q).lines) = [kind |-> raw.kind, words |-> raw.words,
                                      old |-> IF raw.kind = "added" THEN 0 ELSE parse.oldLine,
                                      new |-> IF raw.kind = "removed" THEN 0 ELSE parse.newLine])
  BY <1>2, <1>3, <1>5, LineParsed
<1> HIDE DEF q
<1>7. parse' = q
  BY <1>1 DEF q
<1>8. LastKind' = raw.kind /\ (InHunk' <=> raw.kind \in Hunks \cup {"hunk"})
  BY <1>4 DEF LastKind, Last, InHunk, Hunks
<1>9. parse'.inHunk = InHunk'
  <2>1. "diff" \notin Hunks \cup {"hunk"} /\ InHunk' \in BOOLEAN
    BY DEF Hunks, Commentables, InHunk
  <2>2. CASE raw.kind \in {"diff", "hunk"}
    BY <1>6, <1>7, <1>8, <2>1, <2>2
  <2>3. CASE raw.kind \notin {"diff", "hunk"} /\ parse.inHunk = FALSE
    BY <1>2, <1>3, <1>6, <1>7, <1>8, <2>1, <2>3
  <2>4. CASE raw.kind \notin {"diff", "hunk"} /\ parse.inHunk = TRUE
    BY <1>2, <1>3, <1>6, <1>7, <1>8, <2>1, <2>4
  <2> QED BY <1>3, <2>2, <2>3, <2>4
<1>10. written'[1].kind = "diff"
  <2>1. CASE written = <<>>
    <3>1. n = 0
      BY <1>0, <2>1
    <3>2. raw.kind = "diff"
      BY <1>2, <2>1
    <3> QED BY <1>4, <3>1, <3>2
  <2>2. CASE written # <<>>
    <3>1. 1 \in 1 .. n
      BY <1>0, <1>3, <2>2, EmptySeq
    <3> QED BY <1>4, <2>2, <3>1 DEF PatchInv
  <2> QED BY <2>1, <2>2
<1>11. CASE raw.kind = "hunk"
  <2>1. \A K : Counted(written', n + 1, n + 1, K) = 0
    <3>1. n + 2 .. n + 1 = {}
      BY <1>3
    <3>2. \A K : {j \in n + 1 + 1 .. n + 1 : written'[j].kind \in K} = {}
      BY <1>3
    <3> QED BY <3>2, FS_EmptySet DEF Counted
  <2>2. InThisHunk(n + 1)'
    <3>1. /\ n + 1 \in 1 .. Len(written') /\ written'[n + 1].kind = "hunk"
          /\ \A j \in n + 1 + 1 .. Len(written') : written'[j].kind \in Hunks
      BY <1>3, <1>4, <1>11
    <3>2. /\ parse'.oldLine = written'[n + 1].old + 0 /\ parse'.newLine = written'[n + 1].new + 0
      BY <1>3, <1>4, <1>6, <1>7, <1>11
    <3> QED BY <1>4, <2>1, <3>1, <3>2 DEF InThisHunk
  <2>3. n + 1 \in 1 .. Len(written')
    BY <1>3, <1>4
  <2>4. LineNumbersAreExact'
    <3>1. LastKind' \notin Commentables
      BY <1>8, <1>11 DEF Commentables
    <3> QED BY <3>1 DEF LineNumbersAreExact
  <2>5. InHunk' => \E h \in 1 .. Len(written') : InThisHunk(h)'
    BY <2>2, <2>3
  <2> QED BY <1>4, <1>6, <1>7, <1>9, <1>10, <2>4, <2>5 DEF PatchInv
<1>12. CASE raw.kind \in Hunks
  <2>1. InHunk /\ parse.inHunk = TRUE
    BY <1>2, <1>3, <1>12
  <2>2. PICK h \in 1 .. n : InThisHunk(h)
    BY <1>0, <2>1 DEF PatchInv
  <2> DEFINE Old == {"context", "removed"}
             New == {"context", "added"}
  <2>3. /\ written[h].kind = "hunk" /\ \A j \in h + 1 .. n : written[j].kind \in Hunks
        /\ parse.oldLine = written[h].old + Counted(written, h, n, Old)
        /\ parse.newLine = written[h].new + Counted(written, h, n, New)
    BY <1>0, <2>2 DEF InThisHunk
  <2>4. \A K : /\ Counted(written, h, n, K) \in Nat
               /\ Counted(written', h, n, K) = Counted(written, h, n, K)
               /\ Counted(written', h, n + 1, K) =
                    IF raw.kind \in K THEN Counted(written, h, n, K) + 1 ELSE Counted(written, h, n, K)
    BY <1>0, <1>1, <1>2, <1>3, CountedNext
  <2>5. written[h].old \in Nat /\ written[h].new \in Nat
    <3>1. written[h] \in RawLines
      BY <1>0, <1>3, ElementOfSeq
    <3> QED BY <3>1 DEF RawLines
  <2>6. h \in 1 .. n + 1 /\ written'[h] = written[h] /\ \A j \in h + 1 .. n + 1 : written'[j].kind \in Hunks
    <3>1. h \in 1 .. n + 1 /\ h \in Nat /\ h >= 1
      BY <1>3
    <3>2. ASSUME NEW j \in h + 1 .. n + 1 PROVE written'[j].kind \in Hunks
      <4>1. (j \in h + 1 .. n /\ j \in 1 .. n) \/ j = n + 1
        BY <1>3, <3>1
      <4> QED BY <1>4, <1>12, <2>3, <4>1
    <3> QED BY <1>4, <3>1, <3>2
  <2>7. /\ parse'.oldLine = written'[h].old + Counted(written', h, n + 1, Old)
        /\ parse'.newLine = written'[h].new + Counted(written', h, n + 1, New)
    <3>1. Counted(written, h, n, Old) \in Nat /\ Counted(written, h, n, New) \in Nat
      BY <2>4
    <3>2. /\ q.oldLine = IF raw.kind \in Old THEN parse.oldLine + 1 ELSE parse.oldLine
          /\ q.newLine = IF raw.kind \in New THEN parse.newLine + 1 ELSE parse.newLine
      BY <1>6, <1>12, <2>1
    <3>3. /\ Counted(written', h, n + 1, Old) = IF raw.kind \in Old THEN Counted(written, h, n, Old) + 1 ELSE Counted(written, h, n, Old)
          /\ Counted(written', h, n + 1, New) = IF raw.kind \in New THEN Counted(written, h, n, New) + 1 ELSE Counted(written, h, n, New)
      BY <2>4
    <3> HIDE DEF Old, New
    <3>4. parse'.oldLine = written'[h].old + Counted(written', h, n + 1, Old)
      BY <1>7, <2>3, <2>5, <2>6, <3>1, <3>2, <3>3
    <3>5. parse'.newLine = written'[h].new + Counted(written', h, n + 1, New)
      BY <1>7, <2>3, <2>5, <2>6, <3>1, <3>2, <3>3
    <3> QED BY <3>4, <3>5
  <2>8. InThisHunk(h)'
    BY <1>4, <2>3, <2>6, <2>7 DEF InThisHunk
  <2>9. LineNumbersAreExact'
    <3> SUFFICES ASSUME raw.kind \in Commentables PROVE LineNumbersAreExact'
      BY <1>8 DEF LineNumbersAreExact
    <3> DEFINE Is(g) == g \in DOMAIN written' /\ written'[g].kind = "hunk" /\ \A j \in g + 1 .. n + 1 : written'[j].kind # "hunk"
               hunk == CHOOSE g \in DOMAIN written' : written'[g].kind = "hunk" /\ \A j \in g + 1 .. n + 1 : written'[j].kind # "hunk"
    <3>1. DOMAIN written' = 1 .. n + 1
      BY <1>4, LenProperties
    <3>2. Is(h)
      <4>1. "hunk" \notin Hunks
        BY DEF Hunks, Commentables
      <4> QED BY <2>3, <2>6, <3>1, <4>1
    <3>3. \A g : Is(g) => g = h
      <4> SUFFICES ASSUME NEW g, Is(g), g # h PROVE FALSE
        OBVIOUS
      <4>1. g \in 1 .. n + 1 /\ h \in 1 .. n + 1
        BY <2>6, <3>1
      <4>2. g \in h + 1 .. n + 1 \/ h \in g + 1 .. n + 1
        BY <1>3, <4>1
      <4> QED BY <3>2, <4>2
    <3>4. hunk = h
      <4>1. Is(hunk)
        BY <3>2
      <4> HIDE DEF hunk, Is
      <4> QED BY <3>3, <4>1
    <3>5. Last(Current(q).lines) = [kind |-> raw.kind, words |-> raw.words,
                                      old |-> IF raw.kind = "added" THEN 0 ELSE parse.oldLine,
                                      new |-> IF raw.kind = "removed" THEN 0 ELSE parse.newLine]
      BY <1>6, <2>1
    <3>6. /\ parse.oldLine = written'[h].old + Counted(written', h, n, Old)
          /\ parse.newLine = written'[h].new + Counted(written', h, n, New)
      BY <2>3, <2>4, <2>6
    <3>7. Len(written') - 1 = n /\ Len(written') = n + 1
      BY <1>3, <1>4
    <3> DEFINE line == Last(Current(parse').lines)
    <3>8. /\ line.kind = raw.kind
          /\ line.old = IF raw.kind = "added" THEN 0 ELSE written'[hunk].old + Cardinality({j \in hunk + 1 .. Len(written') - 1 : written'[j].kind \in Old})
          /\ line.new = IF raw.kind = "removed" THEN 0 ELSE written'[hunk].new + Cardinality({j \in hunk + 1 .. Len(written') - 1 : written'[j].kind \in New})
      <4> HIDE DEF hunk, Old, New
      <4>1. /\ line.kind = raw.kind
            /\ line.old = IF raw.kind = "added" THEN 0 ELSE parse.oldLine
            /\ line.new = IF raw.kind = "removed" THEN 0 ELSE parse.newLine
        BY <1>7, <3>5
      <4> HIDE DEF line
      <4>2. \A K : {j \in hunk + 1 .. Len(written') - 1 : written'[j].kind \in K} = {j \in h + 1 .. n : written'[j].kind \in K}
        BY <3>4, <3>7
      <4>3. \A K : Cardinality({j \in hunk + 1 .. Len(written') - 1 : written'[j].kind \in K}) = Counted(written', h, n, K)
        BY <4>2 DEF Counted
      <4>4. /\ parse.oldLine = written'[hunk].old + Cardinality({j \in hunk + 1 .. Len(written') - 1 : written'[j].kind \in Old})
            /\ parse.newLine = written'[hunk].new + Cardinality({j \in hunk + 1 .. Len(written') - 1 : written'[j].kind \in New})
        BY <3>4, <3>6, <4>3
      <4> QED BY <4>1, <4>4
    <3> HIDE DEF line
    <3>9. (Last(Current(parse).lines))' = line
      BY Zenon DEF line, Current, Last
    <3> QED BY <1>8, <3>7, <3>8, <3>9 DEF LineNumbersAreExact
  <2>10. InHunk' => \E g \in 1 .. Len(written') : InThisHunk(g)'
    BY <1>4, <2>6, <2>8
  <2> QED BY <1>4, <1>6, <1>7, <1>9, <1>10, <2>9, <2>10 DEF PatchInv
<1>13. CASE raw.kind \notin Hunks \cup {"hunk"}
  <2>1. ~InHunk' /\ LastKind' \notin Commentables
    BY <1>8, <1>13 DEF Hunks
  <2>2. LineNumbersAreExact'
    BY <2>1 DEF LineNumbersAreExact
  <2> QED BY <1>4, <1>6, <1>7, <1>9, <1>10, <2>1, <2>2 DEF PatchInv
<1> QED BY <1>11, <1>12, <1>13

\* The inductive invariant of the parser holds for every diff.
THEOREM PatchInvariance == PatchSpec => []PatchInv
<1>1. PatchInit => PatchInv
  <2> SUFFICES ASSUME PatchInit PROVE PatchInv
    OBVIOUS
  <2>1. written = <<>> /\ parse = [files |-> <<>>, oldLine |-> 0, newLine |-> 0, inHunk |-> FALSE]
    BY DEF PatchInit
  <2>2. LastKind = "start"
    BY <2>1 DEF LastKind
  <2>3. LastKind \notin Commentables /\ InHunk = FALSE
    BY <2>2 DEF Commentables, InHunk
  <2>4. parse \in Parsers /\ parse.inHunk = FALSE /\ written \in Seq(RawLines)
    BY <2>1 DEF Parsers
  <2> QED BY <2>1, <2>3, <2>4 DEF PatchInv, LineNumbersAreExact
<1>2. PatchInv /\ [PatchNext]_patchVars => PatchInv'
  <2> SUFFICES ASSUME PatchInv, [PatchNext]_patchVars PROVE PatchInv'
    OBVIOUS
  <2>1. CASE PatchNext
    BY <2>1, WriteKeeps DEF PatchNext
  <2>2. CASE UNCHANGED patchVars
    <3>1. written' = written /\ parse' = parse
      BY <2>2 DEF patchVars
    <3>2. LastKind' = LastKind /\ InHunk' = InHunk
      BY <3>1 DEF LastKind, InHunk
    <3>3. LineNumbersAreExact'
      BY <3>1, <3>2 DEF LineNumbersAreExact, Current, PatchInv
    <3>4. \A h : InThisHunk(h) => InThisHunk(h)'
      BY <3>1 DEF InThisHunk
    <3> QED BY <3>1, <3>2, <3>3, <3>4 DEF PatchInv
  <2> QED BY <2>1, <2>2
<1> QED BY <1>1, <1>2, PTL DEF PatchSpec

\* Every changed line keeps its numbers before and after the change, and changed lines are paired one to one
\* within a block (patch.go parseGitDiff, pairChangedBlocks): for diffs of any length, paths and words.
THEOREM PatchExact == PatchSpec => []PatchIsExact
<1>1. PatchInv => PatchIsExact
  <2> SUFFICES ASSUME PatchInv PROVE PatchIsExact
    OBVIOUS
  <2>1. PairsAreMatching
    <3> SUFFICES ASSUME written # <<>>, NEW p \in pairChangedBlocks(Shown(Current(parse))),
                        NEW q \in pairChangedBlocks(Shown(Current(parse)))
                 PROVE  ((p[1] = q[1]) <=> (p[2] = q[2])) /\ InOneBlock(Shown(Current(parse)), p[1], p[2])
      BY DEF PairsAreMatching
    <3>1. Current(parse) \in PatchFiles
      BY CurrentTyped DEF PatchInv
    <3>2. Current(parse).lines \in Seq(ShownLines)
      BY <3>1 DEF PatchFiles
    <3>3. PatchLine(Raw("rename"), 0, 0) \in ShownLines
      BY DEF PatchLine, Raw, ShownLines, LineKinds
    <3>4. Shown(Current(parse)) \in Seq(ShownLines)
      <4> DEFINE first == PatchLine(Raw("rename"), 0, 0)
                 lines == Current(parse).lines
      <4>1. first \in ShownLines /\ lines \in Seq(ShownLines)
        BY <3>2, <3>3
      <4>2. Shown(Current(parse)) \in {<<first>> \o lines, lines}
        BY DEF Shown
      <4> HIDE DEF first, lines
      <4>3. <<first>> \in Seq(ShownLines)
        BY <4>1
      <4>4. <<first>> \o lines \in Seq(ShownLines)
        BY <4>1, <4>3
      <4> QED BY <4>1, <4>2, <4>4
    <3> QED BY <3>4, PairsMatch
  <2> QED BY <2>1 DEF PatchIsExact, PatchInv
<1> QED BY <1>1, PatchInvariance, PTL

-----------------------------------------------------------------------------
(* The status line.                                                          *)
\* What lines can be: typed, of another instance, of a path or the editor's.
Lines == TypedTexts \cup OtherLines \cup {Blank, EditLine} \cup {PathText(i) : i \in 1 .. PathCount}

\* The input, its list and the messages it waits for.
ListRecord ==
  [kind : {"none", "files", "history"}, entries : Seq(Lines), matches : Seq(Nat), cursor : Int,
   preview : BOOLEAN, tag : Nat, revset : Nat, suggest : {"off", "fuzzy", "regex"}]
MatchesAreEntries(l) == \A i \in 1 .. Len(l.matches) : l.matches[i] \in 1 .. Len(l.entries)
StatusLists == {l \in ListRecord : MatchesAreEntries(l)}

StatusRecord ==
  [focus : {"none", "input", "quick", "file"}, mode : {"revisions", "search", "exec", "rev file", ""},
   value : Lines, list : StatusLists]

StatusMessages == [kind : {"init", "exec", "search"}, value : Lines] \cup [kind : {"files", "tick"}, value : Nat]

Histories == [HistoryModes -> [read : BOOLEAN, loaded : Seq(Lines), append : Seq(Lines)]]

StatusTypeOK ==
  /\ status \in StatusRecord /\ statusMsgs \subseteq StatusMessages
  /\ revsets \in Seq(Nat) /\ currentRevset \in Nat /\ decided \in Nat
  /\ histories \in Histories /\ files \in [HistoryModes -> Seq(Lines)] /\ kept \subseteq HistoryModes \X Lines

\* No line twice.
Distinct(s) == \A i, j \in DOMAIN s : s[i] = s[j] => i = j

\* A history adds to what it has read, and only then; the input that is open has read its own.
HistoriesInv(hs) ==
  \A m \in HistoryModes : Distinct(hs[m].loaded \o hs[m].append) /\ (~hs[m].read => hs[m].append = <<>>)
InputHasRead == status.focus # "none" /\ status.mode \in HistoryModes => histories[status.mode].read

\* A file search, asked for or open, goes back to the revset decided on before it.
SearchGoesBack ==
  /\ status.list.kind = "files" => status.list.revset = decided
  /\ \A m \in statusMsgs : m.kind = "files" => m.value = decided /\ status.focus # "file"

\* The inductive invariant: with the types, that a history is read before it is added to and that a search goes back.
StatusInv ==
  /\ StatusTypeOK /\ HistoriesInv(histories) /\ InputHasRead /\ SearchGoesBack
  /\ ListBelongsToInput /\ PreviewIsUndone /\ LinesAreKept

\* A list without repetitions to which a line it does not hold is added.
LEMMA DistinctAppend ==
  ASSUME NEW S, NEW s \in Seq(S), NEW t \in Seq(S), NEW x \in S, Distinct(s \o t), x \notin ToSet(s) \cup ToSet(t)
  PROVE  Distinct(s \o Append(t, x)) /\ Append(t, x) \in Seq(S)
<1>1. /\ Append(t, x) \in Seq(S) /\ s \o Append(t, x) \in Seq(S) /\ s \o t \in Seq(S)
      /\ Len(s) \in Nat /\ Len(t) \in Nat
      /\ Len(s \o Append(t, x)) = Len(s) + Len(t) + 1 /\ Len(s \o t) = Len(s) + Len(t)
      /\ DOMAIN s = 1 .. Len(s) /\ DOMAIN t = 1 .. Len(t)
  OBVIOUS
<1>2. /\ \A i \in 1 .. Len(s) + Len(t) : (s \o Append(t, x))[i] = (s \o t)[i]
      /\ (s \o Append(t, x))[Len(s) + Len(t) + 1] = x
      /\ \A i \in 1 .. Len(s) + Len(t) : (s \o t)[i] = IF i <= Len(s) THEN s[i] ELSE t[i - Len(s)]
  OBVIOUS
<1>3. \A i \in 1 .. Len(s) + Len(t) : (s \o t)[i] # x
  <2> SUFFICES ASSUME NEW i \in 1 .. Len(s) + Len(t) PROVE (s \o t)[i] # x
    OBVIOUS
  <2>1. CASE i <= Len(s)
    <3>1. i \in DOMAIN s /\ (s \o t)[i] = s[i]
      BY <1>1, <1>2, <2>1
    <3>2. s[i] \in ToSet(s)
      BY <3>1, Zenon DEF ToSet
    <3> QED BY <3>1, <3>2
  <2>2. CASE ~(i <= Len(s))
    <3>1. i - Len(s) \in DOMAIN t /\ (s \o t)[i] = t[i - Len(s)]
      BY <1>1, <1>2, <2>2
    <3>2. t[i - Len(s)] \in ToSet(t)
      BY <3>1, Zenon DEF ToSet
    <3> QED BY <3>1, <3>2
  <2> QED BY <2>1, <2>2
<1>4. DOMAIN (s \o t) = 1 .. Len(s) + Len(t) /\ DOMAIN (s \o Append(t, x)) = 1 .. Len(s) + Len(t) + 1
  BY <1>1, LenProperties
<1>5. Distinct(s \o Append(t, x))
  <2> SUFFICES ASSUME NEW i \in 1 .. Len(s) + Len(t) + 1, NEW j \in 1 .. Len(s) + Len(t) + 1,
                      (s \o Append(t, x))[i] = (s \o Append(t, x))[j]
               PROVE  i = j
    BY <1>4 DEF Distinct
  <2>1. \A k \in 1 .. Len(s) + Len(t) + 1 : k \in 1 .. Len(s) + Len(t) \/ k = Len(s) + Len(t) + 1
    BY <1>1
  <2>2. \A k, l \in 1 .. Len(s) + Len(t) : (s \o t)[k] = (s \o t)[l] => k = l
    BY <1>4 DEF Distinct
  <2> QED BY <1>2, <1>3, <2>1, <2>2
<1> QED BY <1>1, <1>5

\* Of equal lines the first one stays.
LEMMA DedupIsDistinct ==
  ASSUME NEW S, NEW s \in Seq(S)
  PROVE  dedup(s) \in Seq(S) /\ Distinct(dedup(s))
<1> DEFINE firsts == {i \in DOMAIN s : \A j \in 1 .. i - 1 : s[j] /= s[i]}
<1>1. dedup(s) = Kept(s, firsts)
  BY DEF dedup
<1>2. firsts \subseteq DOMAIN s /\ DOMAIN s = 1 .. Len(s) /\ Len(s) \in Nat
  OBVIOUS
<1>3. \A i, j \in firsts : s[i] = s[j] => i = j
  <2> SUFFICES ASSUME NEW i \in firsts, NEW j \in firsts, s[i] = s[j], i # j PROVE FALSE
    OBVIOUS
  <2>1. i \in Nat /\ j \in Nat /\ i >= 1 /\ j >= 1
    BY <1>2
  <2>2. i \in 1 .. j - 1 \/ j \in 1 .. i - 1
    BY <2>1
  <2> QED BY <2>2
<1> HIDE DEF firsts
<1>4. Kept(s, firsts) \in Seq(S) /\ Distinct(Kept(s, firsts))
  BY <1>2, <1>3, KeptElements DEF Distinct
<1> QED BY <1>1, <1>4

\* A history that is loaded consists of lines.
LEMMA HistoryLoadTyped ==
  ASSUME StatusTypeOK, NEW m \in HistoryModes
  PROVE  load(m) \in Seq(Lines)
<1>1. files[m] \in Seq(Lines) /\ Blank \in Lines
  BY DEF StatusTypeOK, Lines
<1> QED BY <1>1 DEF load

\* Reading a history for the first time gives no line twice.
LEMMA EnteredIsDistinct ==
  ASSUME StatusTypeOK, HistoriesInv(histories), NEW m \in HistoryModes
  PROVE  /\ Entered(m) \in [read : BOOLEAN, loaded : Seq(Lines), append : Seq(Lines)]
         /\ Entered(m).read /\ Distinct(Entered(m).loaded \o Entered(m).append)
         /\ Entries(m) \in Seq(Lines) /\ Distinct(Entries(m))
<1>1. histories[m] \in [read : BOOLEAN, loaded : Seq(Lines), append : Seq(Lines)]
  BY DEF StatusTypeOK, Histories
<1>2. /\ Entered(m) \in [read : BOOLEAN, loaded : Seq(Lines), append : Seq(Lines)]
      /\ Entered(m).read /\ Distinct(Entered(m).loaded \o Entered(m).append)
  <2>1. CASE histories[m].read
    BY <1>1, <2>1 DEF HistoriesInv, Entered
  <2>2. CASE ~histories[m].read
    <3> DEFINE d == dedup(load(m))
    <3>1. d \in Seq(Lines) /\ Distinct(d)
      BY HistoryLoadTyped, DedupIsDistinct
    <3>2. Entered(m) = [histories[m] EXCEPT !.read = TRUE, !.loaded = d]
      BY <2>2 DEF Entered
    <3>3. histories[m].append = <<>>
      BY <2>2 DEF HistoriesInv
    <3> HIDE DEF d
    <3>4. d \o <<>> = d
      BY <3>1
    <3> QED BY <1>1, <3>1, <3>2, <3>3, <3>4
  <2> QED BY <2>1, <2>2
<1>3. Entries(m) = Entered(m).loaded \o Entered(m).append
  BY DEF Entries
<1> QED BY <1>2, <1>3

\* Starting an input reads its history.
LEMMA LoadingKeeps ==
  ASSUME StatusTypeOK, HistoriesInv(histories), NEW m, loadEditingSuggestions(m)
  PROVE  /\ histories' \in Histories /\ HistoriesInv(histories')
         /\ m \in HistoryModes => histories'[m].read
         /\ Entries(m) \in Seq(Lines)
<1>0. histories \in Histories
  BY DEF StatusTypeOK
<1>1. CASE m \in HistoryModes
  <2>1. histories' = [histories EXCEPT ![m] = Entered(m)]
    BY <1>1 DEF loadEditingSuggestions
  <2>2. /\ Entered(m) \in [read : BOOLEAN, loaded : Seq(Lines), append : Seq(Lines)]
        /\ Entered(m).read /\ Distinct(Entered(m).loaded \o Entered(m).append) /\ Entries(m) \in Seq(Lines)
    BY <1>1, EnteredIsDistinct
  <2>3. histories' \in Histories /\ histories'[m] = Entered(m)
    BY <1>0, <1>1, <2>1, <2>2 DEF Histories
  <2>4. \A k \in HistoryModes \ {m} : histories'[k] = histories[k]
    BY <1>0, <1>1, <2>1 DEF Histories
  <2>5. HistoriesInv(histories')
    BY <2>2, <2>3, <2>4 DEF HistoriesInv
  <2> QED BY <2>2, <2>3, <2>5
<1>2. CASE m \notin HistoryModes
  <2>1. histories' = histories /\ Entries(m) = <<>>
    BY <1>2 DEF loadEditingSuggestions, Entries
  <2> QED BY <1>0, <1>2, <2>1
<1> QED BY <1>1, <1>2

\* A line that is used is added once.
LEMMA SavingKeeps ==
  ASSUME StatusInv, status.focus # "none", NEW line \in Lines, saveEditingSuggestions(status.mode, line)
  PROVE  histories' \in Histories /\ HistoriesInv(histories')
<1> DEFINE m == status.mode
           h == histories[m]
<1>0. histories \in Histories /\ HistoriesInv(histories)
  BY DEF StatusInv, StatusTypeOK
<1>1. CASE line = Blank \/ m \notin HistoryModes
  BY <1>0, <1>1 DEF saveEditingSuggestions
<1>2. CASE line # Blank /\ m \in HistoryModes
  <2>1. histories' = [histories EXCEPT ![m] = AppendLine(m, line)]
    BY <1>2 DEF saveEditingSuggestions
  <2>2. h \in [read : BOOLEAN, loaded : Seq(Lines), append : Seq(Lines)] /\ h.read /\ Distinct(h.loaded \o h.append)
    BY <1>0, <1>2 DEF Histories, HistoriesInv, StatusInv, InputHasRead
  <2>3. /\ AppendLine(m, line) \in [read : BOOLEAN, loaded : Seq(Lines), append : Seq(Lines)]
        /\ AppendLine(m, line).read /\ Distinct(AppendLine(m, line).loaded \o AppendLine(m, line).append)
    <3> HIDE DEF m
    <3>1. CASE line \in ToSet(h.append) \cup ToSet(h.loaded)
      BY <2>2, <3>1 DEF AppendLine
    <3>2. CASE line \notin ToSet(h.append) \cup ToSet(h.loaded)
      <4>1. AppendLine(m, line) = [h EXCEPT !.append = Append(h.append, line)]
        BY <3>2 DEF AppendLine
      <4> HIDE DEF h
      <4>2. Distinct(h.loaded \o Append(h.append, line)) /\ Append(h.append, line) \in Seq(Lines)
        BY <2>2, <3>2, DistinctAppend
      <4> QED BY <2>2, <4>1, <4>2
    <3> QED BY <3>1, <3>2
  <2>4. histories' \in Histories /\ histories'[m] = AppendLine(m, line)
    BY <1>0, <1>2, <2>1, <2>3 DEF Histories
  <2>5. \A k \in HistoryModes \ {m} : histories'[k] = histories[k]
    BY <1>0, <1>2, <2>1 DEF Histories
  <2>6. HistoriesInv(histories')
    BY <1>0, <2>3, <2>4, <2>5 DEF HistoriesInv
  <2> QED BY <2>4, <2>6
<1> QED BY <1>1, <1>2

\* What a list offers is a line, and the revset of a path or the one to go back to is a revset.
LEMMA ListOffers ==
  ASSUME NEW l \in StatusLists
  PROVE  SelectedMatch(l) \in Lines /\ updateRevSet(l) \in Nat
<1>1. /\ l.entries \in Seq(Lines) /\ l.matches \in Seq(Nat) /\ l.cursor \in Int /\ l.revset \in Nat
      /\ \A i \in 1 .. Len(l.matches) : l.matches[i] \in 1 .. Len(l.entries)
  BY DEF StatusLists, ListRecord, MatchesAreEntries
<1>2. Blank \in Lines
  BY DEF Lines
<1>3. CASE l.cursor \in 0 .. (Len(l.matches) - 1)
  <2>1. l.cursor + 1 \in 1 .. Len(l.matches) /\ Len(l.matches) \in Nat
    BY <1>1, <1>3
  <2>2. l.matches[l.cursor + 1] \in 1 .. Len(l.entries) /\ l.matches[l.cursor + 1] \in Nat
    BY <1>1, <2>1
  <2>3. l.entries[l.matches[l.cursor + 1]] \in Lines
    BY <1>1, <2>2, ElementOfSeq
  <2> QED BY <1>3, <2>2, <2>3 DEF SelectedMatch, updateRevSet
<1>4. CASE ~(l.cursor \in 0 .. (Len(l.matches) - 1))
  BY <1>1, <1>2, <1>4 DEF SelectedMatch, updateRevSet
<1> QED BY <1>3, <1>4

\* What the keys change of a list, one field at a time.
LEMMA ListUpdates ==
  /\ \A l \in ListRecord, n \in Int : [l EXCEPT !.cursor = n] \in ListRecord
  /\ \A l \in ListRecord, s \in Seq(Nat) : [l EXCEPT !.matches = s] \in ListRecord
  /\ \A l \in ListRecord, b \in BOOLEAN : [l EXCEPT !.preview = b] \in ListRecord
  /\ \A l \in ListRecord, n \in Nat : [l EXCEPT !.tag = n] \in ListRecord
  /\ \A l \in ListRecord, m \in {"off", "fuzzy", "regex"} : [l EXCEPT !.suggest = m] \in ListRecord
<1>1. \A l \in ListRecord, n \in Int : [l EXCEPT !.cursor = n] \in ListRecord
  BY DEF ListRecord
<1>2. \A l \in ListRecord, s \in Seq(Nat) : [l EXCEPT !.matches = s] \in ListRecord
  BY DEF ListRecord
<1>3. \A l \in ListRecord, b \in BOOLEAN : [l EXCEPT !.preview = b] \in ListRecord
  BY DEF ListRecord
<1>4. \A l \in ListRecord, n \in Nat : [l EXCEPT !.tag = n] \in ListRecord
  BY DEF ListRecord
<1>5. \A l \in ListRecord, m \in {"off", "fuzzy", "regex"} : [l EXCEPT !.suggest = m] \in ListRecord
  BY DEF ListRecord
<1> QED BY <1>1, <1>2, <1>3, <1>4, <1>5, Zenon

\* The list after a search has the same entries, and matches among them.
LEMMA SearchedTyped ==
  ASSUME NEW l \in StatusLists, NEW text
  PROVE  /\ Searched(l, text) \in StatusLists /\ Searched(l, text).kind = l.kind
         /\ Searched(l, text).revset = l.revset /\ Searched(l, text).tag = l.tag
<1> DEFINE n == Len(l.entries)
           found == Searched(l, text).matches
<1>1. /\ l.entries \in Seq(Lines) /\ n \in Nat /\ DOMAIN l.entries = 1 .. n
      /\ l.kind \in {"none", "files", "history"}
  BY DEF StatusLists, ListRecord
<1>2. found \in Seq(Nat) /\ \A i \in 1 .. Len(found) : found[i] \in 1 .. n
  <2>1. CASE l.kind = "files" /\ text = Blank
    <3>1. found = [i \in 1 .. n |-> i]
      BY <1>1, <2>1 DEF Searched, StatusLists, ListRecord
    <3> QED BY <1>1, <3>1
  <2>2. CASE l.kind = "history" /\ (text = Blank \/ l.suggest = "off")
    <3>1. found = <<>>
      BY <2>2 DEF Searched, StatusLists, ListRecord
    <3> QED BY <3>1
  <2>3. CASE ~(l.kind = "files" /\ text = Blank) /\ ~(l.kind = "history" /\ (text = Blank \/ l.suggest = "off"))
    <3> DEFINE S == {i \in DOMAIN l.entries : <<text, l.entries[i]>> \in Alike}
    <3>1. found = InOrder(S)
      BY <2>3 DEF Searched, StatusLists, ListRecord, Matching
    <3>2. S \subseteq 1 .. n
      BY <1>1
    <3> HIDE DEF S
    <3>3. InOrder(S) \in Seq(S)
      BY <1>1, <3>2, InOrderElements
    <3>4. \A i \in 1 .. Len(InOrder(S)) : InOrder(S)[i] \in S
      BY <3>3, ElementOfSeq
    <3>5. S \subseteq Nat
      BY <1>1, <3>2
    <3>6. InOrder(S) \in Seq(Nat)
      BY <3>3, <3>5, SeqMonotonic
    <3> QED BY <3>1, <3>2, <3>4, <3>6
  <2> QED BY <2>1, <2>2, <2>3
<1>3. Searched(l, text) = [[l EXCEPT !.cursor = 0] EXCEPT !.matches = found]
  BY DEF Searched, StatusLists, ListRecord
<1>4. l \in ListRecord
  BY DEF StatusLists
<1> HIDE DEF found
<1>5. Searched(l, text) \in ListRecord
  <2>1. 0 \in Int /\ found \in Seq(Nat)
    BY <1>2
  <2>2. [l EXCEPT !.cursor = 0] \in ListRecord
    BY <1>4, <2>1, ListUpdates, ZenonT(60)
  <2> QED BY <1>3, <2>1, <2>2, ListUpdates, ZenonT(60)
<1>6. Searched(l, text).matches = found /\ Searched(l, text).entries = l.entries
      /\ Searched(l, text).kind = l.kind /\ Searched(l, text).revset = l.revset /\ Searched(l, text).tag = l.tag
  BY <1>3, <1>4 DEF ListRecord
<1>7. MatchesAreEntries(Searched(l, text))
  BY <1>2, <1>6 DEF MatchesAreEntries
<1> QED BY <1>5, <1>6, <1>7 DEF StatusLists

\* The lists an input starts with.
LEMMA NewLists ==
  /\ NoList \in StatusLists
  /\ \A r \in Nat : NewFiles(r) \in StatusLists /\ NewFiles(r).kind = "files" /\ NewFiles(r).revset = r
  /\ \A e \in Seq(Lines) : NewInput(e) \in StatusLists /\ NewInput(e).kind = "history"
<1>1. /\ NoList \in ListRecord /\ NoList.matches = <<>> /\ Len(<<>>) = 0
      /\ \A l \in ListRecord : l.matches = <<>> => l \in StatusLists
  <2>1. NoList \in ListRecord /\ NoList.matches = <<>> /\ Len(<<>>) = 0
    BY DEF NoList, ListRecord
  <2>2. 1 .. 0 = {}
    OBVIOUS
  <2> QED BY <2>1, <2>2 DEF StatusLists, MatchesAreEntries
<1>2. ASSUME NEW r \in Nat
      PROVE  NewFiles(r) \in StatusLists /\ NewFiles(r).kind = "files" /\ NewFiles(r).revset = r
  <2> DEFINE names == [i \in 1 .. PathCount |-> PathText(i)]
  <2>1. names \in [1 .. PathCount -> Lines]
    BY Zenon DEF Lines
  <2>2. PathCount \in Nat
    BY StatusAssumption
  <2>3. NewFiles(r) = [NoList EXCEPT !.kind = "files", !.entries = names, !.revset = r]
    BY DEF NewFiles
  <2> HIDE DEF names
  <2>4. names \in Seq(Lines)
    BY <2>1, <2>2, SeqDef
  <2>5. NewFiles(r) \in ListRecord /\ NewFiles(r).matches = <<>> /\ NewFiles(r).kind = "files" /\ NewFiles(r).revset = r
    BY <1>1, <2>3, <2>4 DEF ListRecord
  <2> QED BY <1>1, <2>5
<1>3. ASSUME NEW e \in Seq(Lines) PROVE NewInput(e) \in StatusLists /\ NewInput(e).kind = "history"
  <2>1. NewInput(e) \in ListRecord /\ NewInput(e).matches = <<>> /\ NewInput(e).kind = "history"
    BY <1>1, StatusAssumption DEF NewInput, ListRecord
  <2> QED BY <1>1, <2>1
<1> QED BY <1>1, <1>2, <1>3

\* A message that sets the revset is the last to come.
LEMMA RevsetIsLast ==
  ASSUME StatusTypeOK
  PROVE  /\ \A r \in Nat : UpdateRevSet(r) /\ UNCHANGED currentRevset =>
              revsets' \in Seq(Nat) /\ RevsetToCome' = r
         /\ UNCHANGED <<revsets, currentRevset>> => revsets' \in Seq(Nat) /\ RevsetToCome' = RevsetToCome
         /\ RevsetArrives => revsets' \in Seq(Nat) /\ currentRevset' \in Nat /\ RevsetToCome' = RevsetToCome
<1>0. revsets \in Seq(Nat) /\ currentRevset \in Nat
  BY DEF StatusTypeOK
<1>1. ASSUME NEW r \in Nat, UpdateRevSet(r) PROVE revsets' \in Seq(Nat) /\ RevsetToCome' = r
  <2>1. revsets' = Append(revsets, r)
    BY <1>1 DEF UpdateRevSet
  <2>2. revsets' \in Seq(Nat) /\ revsets' # <<>> /\ Len(revsets') = Len(revsets) + 1 /\ revsets'[Len(revsets')] = r
    BY <1>0, <2>1
  <2> QED BY <2>2 DEF RevsetToCome, Last
<1>2. UNCHANGED <<revsets, currentRevset>> => revsets' \in Seq(Nat) /\ RevsetToCome' = RevsetToCome
  BY <1>0 DEF RevsetToCome
<1>3. ASSUME RevsetArrives PROVE revsets' \in Seq(Nat) /\ currentRevset' \in Nat /\ RevsetToCome' = RevsetToCome
  <2>1. revsets # <<>> /\ currentRevset' = Head(revsets) /\ revsets' = Tail(revsets)
    BY <1>3 DEF RevsetArrives
  <2>2. Len(revsets) \in Nat \ {0} /\ currentRevset' = revsets[1] /\ revsets' \in Seq(Nat)
        /\ Len(revsets') = Len(revsets) - 1 /\ \A i \in 1 .. Len(revsets) - 1 : revsets'[i] = revsets[i + 1]
    BY <1>0, <2>1
  <2>3. CASE Len(revsets) = 1
    <3>1. revsets' = <<>>
      BY <2>2, <2>3, EmptySeq
    <3> QED BY <1>0, <2>1, <2>2, <2>3, <3>1 DEF RevsetToCome, Last
  <2>4. CASE Len(revsets) # 1
    <3>1. revsets' # <<>> /\ revsets'[Len(revsets')] = revsets[Len(revsets)]
      BY <2>2, <2>4
    <3> QED BY <1>0, <2>1, <2>2, <3>1 DEF RevsetToCome, Last
  <2> QED BY <2>2, <2>3, <2>4
<1> QED BY <1>1, <1>2, <1>3

\* A step of the input that is open, and of messages that are not lists of files.
LEMMA SameInputKeeps ==
  ASSUME StatusInv, status' \in StatusRecord,
         status'.focus = status.focus, status'.mode = status.mode,
         status'.list.kind = status.list.kind, status'.list.revset = status.list.revset,
         statusMsgs' \subseteq StatusMessages, \A m \in statusMsgs' : m.kind = "files" => m \in statusMsgs,
         UNCHANGED <<currentRevset, decided, historyVars>>,
         \/ UNCHANGED revsets
         \/ status.list.kind = "files" /\ \E r \in Nat : UpdateRevSet(r)
  PROVE  StatusInv'
<1> USE DEF StatusInv
<1>1. revsets' \in Seq(Nat) /\ (status.list.kind # "files" => RevsetToCome' = RevsetToCome)
  BY RevsetIsLast
<1>2. StatusTypeOK'
  BY <1>1 DEF StatusTypeOK, historyVars
<1>3. HistoriesInv(histories)' /\ InputHasRead' /\ LinesAreKept'
  BY DEF HistoriesInv, InputHasRead, LinesAreKept, historyVars
<1>4. SearchGoesBack'
  BY DEF SearchGoesBack
<1>5. ListBelongsToInput'
  BY DEF ListBelongsToInput
<1>6. PreviewIsUndone'
  BY <1>1 DEF PreviewIsUndone
<1> QED BY <1>2, <1>3, <1>4, <1>5, <1>6

\* Nothing is typed or read at first.
LEMMA StatusInitHolds == StatusInit => StatusInv
<1> SUFFICES ASSUME StatusInit PROVE StatusInv
  OBVIOUS
<1> USE DEF StatusInit
<1>1. status \in StatusRecord
  BY NewLists DEF NewStatus, StatusRecord, Lines
<1>2. histories \in Histories /\ HistoriesInv(histories)
  <2>1. \A m \in HistoryModes : histories[m] = [read |-> FALSE, loaded |-> <<>>, append |-> <<>>]
    BY DEF NewHistories
  <2>2. histories \in Histories
    BY DEF NewHistories, Histories
  <2>3. Distinct(<<>> \o <<>>)
    BY DEF Distinct
  <2>4. \A m \in HistoryModes : /\ histories[m].loaded \o histories[m].append = <<>> \o <<>>
                                /\ histories[m].append = <<>>
    BY <2>1
  <2> QED BY <2>2, <2>3, <2>4, Zenon DEF HistoriesInv
<1>3. StatusTypeOK
  BY <1>1, <1>2 DEF StatusTypeOK
<1>4. InputHasRead /\ SearchGoesBack /\ ListBelongsToInput /\ PreviewIsUndone /\ LinesAreKept
  BY DEF InputHasRead, SearchGoesBack, ListBelongsToInput, PreviewIsUndone, LinesAreKept, NewStatus, NoList, RevsetToCome
<1> QED BY <1>2, <1>3, <1>4 DEF StatusInv

\* The list of the input with one field changed is a list, and the input stays the same.
LEMMA ListStepTyped ==
  ASSUME StatusInv, NEW l \in StatusLists, l.kind = status.list.kind, l.revset = status.list.revset,
         status' = [status EXCEPT !.list = l]
  PROVE  /\ status' \in StatusRecord /\ status'.focus = status.focus /\ status'.mode = status.mode
         /\ status'.list.kind = status.list.kind /\ status'.list.revset = status.list.revset
BY DEF StatusInv, StatusTypeOK, StatusRecord

\* A list with its matches, of which a field other than these changes.
LEMMA SameMatches ==
  ASSUME NEW l \in StatusLists, NEW k \in ListRecord, k.matches = l.matches, k.entries = l.entries
  PROVE  k \in StatusLists
BY DEF StatusLists, MatchesAreEntries

\* The arrows, typing, the preview of a file search and the modes of suggestions.
LEMMA InputKeysKeep ==
  ASSUME StatusInv,
         \/ \E text \in TypedTexts \cup {Blank} : StatusType(text)
         \/ \E delta \in {-1, 1} : FileSearchNavigate(delta) \/ SuggestNavigate(delta)
         \/ FileSearchTogglePreview \/ FileSearchEdit \/ SuggestCycle
  PROVE  StatusInv'
<1>0. /\ status \in StatusRecord /\ status.list \in StatusLists /\ status.list \in ListRecord
      /\ statusMsgs \subseteq StatusMessages
      /\ status.list.cursor \in Int /\ status.list.entries \in Seq(Lines) /\ status.list.matches \in Seq(Nat)
      /\ status.list.preview \in BOOLEAN /\ status.list.suggest \in {"off", "fuzzy", "regex"}
  <2>1. status \in StatusRecord /\ statusMsgs \subseteq StatusMessages
    BY DEF StatusInv, StatusTypeOK
  <2>2. status.list \in StatusLists
    BY <2>1 DEF StatusRecord
  <2>3. status.list \in ListRecord
    BY <2>2 DEF StatusLists
  <2> QED BY <2>1, <2>2, <2>3 DEF ListRecord
<1> DEFINE l == status.list
<1>1. ASSUME NEW text \in TypedTexts \cup {Blank}, StatusType(text) PROVE StatusInv'
  <2>1. text \in Lines
    BY DEF Lines
  <2>2. /\ status' = [status EXCEPT !.value = text] /\ UNCHANGED <<revsetVars, historyVars>>
        /\ statusMsgs' \subseteq statusMsgs \cup {Message("search", text)}
    BY <1>1 DEF StatusType, Send, Exchange
  <2>3. Message("search", text) \in StatusMessages /\ Message("search", text).kind = "search"
    BY <2>1 DEF Message, StatusMessages
  <2>4. /\ status' \in StatusRecord /\ status'.focus = status.focus /\ status'.mode = status.mode
        /\ status'.list = status.list
    BY <1>0, <2>1, <2>2 DEF StatusRecord
  <2>5. statusMsgs' \subseteq StatusMessages /\ \A m \in statusMsgs' : m.kind = "files" => m \in statusMsgs
    BY <1>0, <2>2, <2>3
  <2> QED BY <2>2, <2>4, <2>5, SameInputKeeps DEF revsetVars
<1>2. ASSUME NEW delta \in {-1, 1}, FileSearchNavigate(delta) PROVE StatusInv'
  <2> DEFINE n == Wrap(l.cursor + delta, Len(l.matches) - 1)
             k == [l EXCEPT !.cursor = n]
  <2>1. status' = [status EXCEPT !.list = k] /\ UNCHANGED <<statusMsgs, revsetVars, historyVars>>
    BY <1>0, <1>2 DEF FileSearchNavigate, StatusRecord
  <2>2. n \in Int
    BY <1>0 DEF Wrap
  <2> HIDE DEF n
  <2>3. k \in ListRecord
    BY <1>0, <2>2, ListUpdates, Zenon
  <2>4. k.matches = l.matches /\ k.entries = l.entries /\ k.kind = l.kind /\ k.revset = l.revset
    BY <1>0 DEF ListRecord
  <2> HIDE DEF k, l
  <2>5. k \in StatusLists
    BY <1>0, <2>3, <2>4, SameMatches DEF l
  <2> QED BY <1>0, <2>1, <2>4, <2>5, ListStepTyped, SameInputKeeps DEF revsetVars, l
<1>3. ASSUME NEW delta \in {-1, 1}, SuggestNavigate(delta) PROVE StatusInv'
  <2> DEFINE size == IF l.suggest = "off" THEN Len(l.entries) ELSE Len(l.matches)
             last == (IF size < ListMax THEN size ELSE ListMax) - 1
             n == IF l.cursor + delta < 0 THEN last ELSE IF l.cursor + delta > last THEN 0 ELSE l.cursor + delta
             value == IF l.suggest /= "off" THEN status.value
                      ELSE IF l.entries = <<>> THEN Blank ELSE l.entries[n + 1]
             k == [l EXCEPT !.cursor = n]
  <2>1. /\ status' = [[status EXCEPT !.list = k] EXCEPT !.value = value]
        /\ UNCHANGED <<statusMsgs, revsetVars, historyVars>>
    BY <1>0, <1>3 DEF SuggestNavigate, StatusRecord
  <2>2. Len(l.entries) \in Nat /\ Len(l.matches) \in Nat /\ ListMax \in Nat \ {0} /\ l.cursor \in Int
    <3>1. ListMax \in Nat \ {0}
      BY StatusAssumption
    <3> QED BY <1>0, <3>1, LenProperties
  <2>3. n \in Int
    BY <2>2
  <2>4. value \in Lines
    <3>1. status.value \in Lines /\ Blank \in Lines
      BY <1>0 DEF StatusRecord, Lines
    <3>2. CASE l.suggest = "off" /\ l.entries # <<>>
      <4>1. Len(l.entries) > 0
        BY <1>0, <2>2, <3>2, EmptySeq
      <4>2. last \in 0 .. Len(l.entries) - 1
        BY <2>2, <3>2, <4>1
      <4>3. n \in 0 .. last
        <5> HIDE DEF last
        <5> QED BY <2>2, <4>2
      <4> HIDE DEF n, last
      <4>4. n + 1 \in 1 .. Len(l.entries)
        BY <2>2, <4>2, <4>3
      <4>5. l.entries[n + 1] \in Lines
        BY <1>0, <4>4, ElementOfSeq
      <4> QED BY <3>2, <4>5
    <3> HIDE DEF n
    <3> QED BY <3>1, <3>2
  <2> HIDE DEF n, value
  <2>5. k \in ListRecord
    BY <1>0, <2>3, ListUpdates, Zenon
  <2>6. k.matches = l.matches /\ k.entries = l.entries /\ k.kind = l.kind /\ k.revset = l.revset
    BY <1>0 DEF ListRecord
  <2> HIDE DEF k, l
  <2>7. k \in StatusLists
    BY <1>0, <2>5, <2>6, SameMatches DEF l
  <2>8. /\ status' \in StatusRecord /\ status'.focus = status.focus /\ status'.mode = status.mode
        /\ status'.list = k
    BY <1>0, <2>1, <2>4, <2>7 DEF StatusRecord
  <2> QED BY <1>0, <2>1, <2>6, <2>8, SameInputKeeps DEF revsetVars, l
<1>4. ASSUME FileSearchTogglePreview PROVE StatusInv'
  <2> DEFINE k == [l EXCEPT !.preview = ~l.preview]
  <2>1. /\ status' = [status EXCEPT !.list = k] /\ l.kind = "files" /\ UpdateRevSet(updateRevSet(l))
        /\ UNCHANGED <<statusMsgs, currentRevset, decided, historyVars>>
    BY <1>0, <1>4 DEF FileSearchTogglePreview, StatusRecord
  <2>2. k \in ListRecord
    BY <1>0, ListUpdates, Zenon
  <2>3. k.matches = l.matches /\ k.entries = l.entries /\ k.kind = l.kind /\ k.revset = l.revset
    BY <1>0 DEF ListRecord
  <2> HIDE DEF k, l
  <2>4. k \in StatusLists
    BY <1>0, <2>2, <2>3, SameMatches DEF l
  <2>5. updateRevSet(l) \in Nat
    BY <1>0, ListOffers DEF l
  <2>6. status.list.kind = "files" /\ \E r \in Nat : UpdateRevSet(r)
    BY <2>1, <2>5 DEF l
  <2> QED BY <1>0, <2>1, <2>3, <2>4, <2>6, ListStepTyped, SameInputKeeps DEF l
<1>5. ASSUME FileSearchEdit PROVE StatusInv'
  <2>1. EditLine \in Lines
    BY DEF Lines
  <2>2. /\ UNCHANGED <<status, revsetVars, historyVars>>
        /\ statusMsgs' \subseteq statusMsgs \cup {Message("exec", EditLine)}
    BY <1>5 DEF FileSearchEdit, Send, Exchange
  <2>3. Message("exec", EditLine) \in StatusMessages /\ Message("exec", EditLine).kind = "exec"
    BY <2>1 DEF Message, StatusMessages
  <2>4. statusMsgs' \subseteq StatusMessages /\ \A m \in statusMsgs' : m.kind = "files" => m \in statusMsgs
    BY <1>0, <2>2, <2>3
  <2> QED BY <1>0, <2>2, <2>4, SameInputKeeps DEF revsetVars
<1>6. ASSUME SuggestCycle PROVE StatusInv'
  <2> DEFINE k == CASE l.suggest = "off"   -> [l EXCEPT !.suggest = "fuzzy"]
                    [] l.suggest = "fuzzy" -> [l EXCEPT !.suggest = "regex"]
                    [] OTHER               -> [l EXCEPT !.suggest = "off", !.cursor = 0, !.matches = <<>>]
  <2>1. status' = [status EXCEPT !.list = k] /\ UNCHANGED <<statusMsgs, revsetVars, historyVars>>
    BY <1>6 DEF SuggestCycle
  <2>2. k \in StatusLists /\ k.kind = l.kind /\ k.revset = l.revset
    <3>1. ASSUME NEW m \in {"fuzzy", "regex"}, k = [l EXCEPT !.suggest = m]
          PROVE  k \in StatusLists /\ k.kind = l.kind /\ k.revset = l.revset
      <4>1. [l EXCEPT !.suggest = m] \in ListRecord
        BY <1>0, ListUpdates, Zenon
      <4>2. k.matches = l.matches /\ k.entries = l.entries /\ k.kind = l.kind /\ k.revset = l.revset
        BY <1>0, <3>1 DEF ListRecord
      <4> HIDE DEF k, l
      <4> QED BY <1>0, <3>1, <4>1, <4>2, SameMatches DEF l
    <3>2. CASE l.suggest = "off"
      BY <3>1, <3>2
    <3>3. CASE l.suggest = "fuzzy"
      BY <3>1, <3>3
    <3>4. CASE l.suggest = "regex"
      <4>1. k = [[[l EXCEPT !.suggest = "off"] EXCEPT !.cursor = 0] EXCEPT !.matches = <<>>]
        BY <1>0, <3>4 DEF ListRecord
      <4>2. 0 \in Int /\ <<>> \in Seq(Nat) /\ "off" \in {"off", "fuzzy", "regex"}
        OBVIOUS
      <4>3. [l EXCEPT !.suggest = "off"] \in ListRecord
        BY <1>0, <4>2, ListUpdates, Zenon
      <4>4. [[l EXCEPT !.suggest = "off"] EXCEPT !.cursor = 0] \in ListRecord
        BY <4>2, <4>3, ListUpdates, Zenon
      <4>5. [[[l EXCEPT !.suggest = "off"] EXCEPT !.cursor = 0] EXCEPT !.matches = <<>>] \in ListRecord
        BY <4>2, <4>4, ListUpdates, Zenon
      <4>6. k.kind = l.kind /\ k.revset = l.revset /\ k.matches = <<>>
        BY <1>0, <4>1 DEF ListRecord
      <4>7. 1 .. Len(<<>>) = {}
        OBVIOUS
      <4> HIDE DEF k
      <4>8. k \in ListRecord /\ MatchesAreEntries(k)
        BY <4>1, <4>5, <4>6, <4>7 DEF MatchesAreEntries
      <4> QED BY <4>6, <4>8 DEF StatusLists
    <3> QED BY <1>0, <3>2, <3>3, <3>4
  <2> HIDE DEF k, l
  <2> QED BY <1>0, <2>1, <2>2, ListStepTyped, SameInputKeeps DEF revsetVars, l
<1> QED BY <1>1, <1>2, <1>3, <1>4, <1>5, <1>6

\* A step that opens or closes an input.
LEMMA StatusInputKeeps ==
  ASSUME StatusInv, status' \in StatusRecord, ListBelongsToInput', InputHasRead',
         histories' \in Histories, HistoriesInv(histories'), UNCHANGED <<files, kept>>,
         statusMsgs' \subseteq StatusMessages, SearchGoesBack', decided' \in Nat,
         revsets' \in Seq(Nat), currentRevset' \in Nat, PreviewIsUndone'
  PROVE  StatusInv'
<1>1. StatusTypeOK'
  BY DEF StatusInv, StatusTypeOK
<1>2. LinesAreKept'
  BY DEF StatusInv, LinesAreKept
<1> QED BY <1>1, <1>2 DEF StatusInv

\* Without an input nothing is previewed, and what comes is what was decided on.
LEMMA NoSearch ==
  ASSUME StatusInv, status.focus # "file"
  PROVE  status.list.kind # "files" /\ RevsetToCome = decided
<1>1. status.focus \in {"none", "input", "quick", "file"}
  BY DEF StatusInv, StatusTypeOK, StatusRecord
<1> QED BY <1>1 DEF StatusInv, ListBelongsToInput, PreviewIsUndone

\* Opening a prompt or a quick search, and asking for the files of a revision.
LEMMA StatusStartKeeps ==
  ASSUME StatusInv, Settled, StartExec \/ StartQuickSearch \/ FileSearchToggle
  PROVE  StatusInv'
<1>0. /\ status \in StatusRecord /\ statusMsgs \subseteq StatusMessages /\ status.list \in StatusLists
      /\ revsets \in Seq(Nat) /\ currentRevset \in Nat /\ decided \in Nat
      /\ histories \in Histories /\ HistoriesInv(histories) /\ status.focus = "none"
      /\ StatusTypeOK /\ status.list.kind # "files" /\ RevsetToCome = decided
  <2>1. status.focus = "none"
    BY DEF StartExec, StartQuickSearch, FileSearchToggle
  <2>2. status.list.kind # "files" /\ RevsetToCome = decided
    BY <2>1, NoSearch
  <2> QED BY <2>1, <2>2 DEF StatusInv, StatusTypeOK, StatusRecord
<1>1. CASE StartExec
  <2>1. /\ status' = [status EXCEPT !.focus = "input", !.mode = "exec", !.list = NewInput(Entries("exec"))]
        /\ loadEditingSuggestions("exec") /\ UNCHANGED <<revsetVars, files, kept>>
        /\ statusMsgs' = statusMsgs \cup {Message("init", 0)}
    BY <1>1 DEF StartExec, Start, Send, Exchange
  <2>2. /\ histories' \in Histories /\ HistoriesInv(histories') /\ ("exec" \in HistoryModes => histories'["exec"].read)
        /\ Entries("exec") \in Seq(Lines)
    BY <1>0, <2>1, LoadingKeeps
  <2>3. NewInput(Entries("exec")) \in StatusLists /\ NewInput(Entries("exec")).kind = "history"
    BY <2>2, NewLists
  <2>4. /\ status' \in StatusRecord /\ status'.focus = "input" /\ status'.mode = "exec"
        /\ status'.list.kind = "history"
    BY <1>0, <2>1, <2>3 DEF StatusRecord
  <2>5. ListBelongsToInput' /\ InputHasRead'
    BY <2>2, <2>4 DEF ListBelongsToInput, InputHasRead
  <2>6. Message("init", 0) \in StatusMessages /\ Message("init", 0).kind = "init"
    BY DEF Message, StatusMessages, Lines, Blank
  <2>7. statusMsgs' \subseteq StatusMessages /\ SearchGoesBack'
    BY <1>0, <2>1, <2>4, <2>6 DEF SearchGoesBack, StatusInv, revsetVars
  <2>8. UNCHANGED <<revsets, currentRevset, decided>> /\ RevsetToCome' = RevsetToCome
    BY <1>0, <2>1, RevsetIsLast DEF revsetVars
  <2>9. PreviewIsUndone'
    BY <1>0, <2>8 DEF PreviewIsUndone
  <2> QED BY <1>0, <2>1, <2>2, <2>4, <2>5, <2>7, <2>8, <2>9, StatusInputKeeps
<1>2. CASE StartQuickSearch
  <2>1. /\ status' = [status EXCEPT !.focus = "quick", !.mode = "search", !.list = status.list]
        /\ loadEditingSuggestions("search") /\ UNCHANGED <<revsetVars, statusMsgs, files, kept>>
    BY <1>2 DEF StartQuickSearch, Start
  <2>2. /\ histories' \in Histories /\ HistoriesInv(histories') /\ ("search" \in HistoryModes => histories'["search"].read)
    BY <1>0, <2>1, LoadingKeeps
  <2>3. /\ status' \in StatusRecord /\ status'.focus = "quick" /\ status'.mode = "search"
        /\ status'.list = status.list
    BY <1>0, <2>1 DEF StatusRecord
  <2>4. status.list.kind = "none"
    BY <1>0 DEF StatusInv, ListBelongsToInput
  <2>5. ListBelongsToInput' /\ InputHasRead'
    BY <2>2, <2>3, <2>4 DEF ListBelongsToInput, InputHasRead
  <2>6. statusMsgs' \subseteq StatusMessages /\ SearchGoesBack'
    BY <1>0, <2>1, <2>3, <2>4 DEF SearchGoesBack, StatusInv, revsetVars
  <2>7. UNCHANGED <<revsets, currentRevset, decided>> /\ RevsetToCome' = RevsetToCome
    BY <1>0, <2>1, RevsetIsLast DEF revsetVars
  <2>8. PreviewIsUndone'
    BY <1>0, <2>7 DEF PreviewIsUndone
  <2> QED BY <1>0, <2>1, <2>2, <2>3, <2>5, <2>6, <2>7, <2>8, StatusInputKeeps
<1>3. CASE FileSearchToggle
  <2>1. UNCHANGED <<status, revsetVars, historyVars>> /\ statusMsgs' = statusMsgs \cup {Message("files", currentRevset)}
    BY <1>3 DEF FileSearchToggle, Send, Exchange
  <2>2. currentRevset = decided
    BY <1>0 DEF Settled, RevsetToCome
  <2>3. Message("files", decided) \in StatusMessages /\ Message("files", decided).value = decided
    BY <1>0 DEF Message, StatusMessages
  <2>4. statusMsgs' \subseteq StatusMessages /\ SearchGoesBack'
    BY <1>0, <2>1, <2>2, <2>3 DEF SearchGoesBack, StatusInv, revsetVars
  <2>5. UNCHANGED <<revsets, currentRevset, decided>> /\ RevsetToCome' = RevsetToCome
    BY <1>0, <2>1, RevsetIsLast DEF revsetVars
  <2>6. PreviewIsUndone'
    BY <1>0, <2>5 DEF PreviewIsUndone
  <2>7. ListBelongsToInput' /\ InputHasRead'
    BY <2>1 DEF ListBelongsToInput, InputHasRead, StatusInv, historyVars
  <2> QED BY <1>0, <2>1, <2>4, <2>5, <2>6, <2>7, StatusInputKeeps DEF historyVars
<1> QED BY <1>1, <1>2, <1>3

\* Leaving an input and using it.
LEMMA StatusLeaveKeeps ==
  ASSUME StatusInv, Settled, StatusCancel \/ StatusApply
  PROVE  StatusInv'
<1>0. /\ status \in StatusRecord /\ statusMsgs \subseteq StatusMessages /\ status.list \in StatusLists
      /\ revsets \in Seq(Nat) /\ currentRevset \in Nat /\ decided \in Nat
      /\ histories \in Histories /\ HistoriesInv(histories) /\ StatusTypeOK
      /\ status.mode \in {"revisions", "search", "exec", "rev file", ""}
      /\ status.focus \in {"none", "input", "quick", "file"}
  BY DEF StatusInv, StatusTypeOK, StatusRecord
<1>1. /\ status.list.revset \in Nat /\ updateRevSet(status.list) \in Nat
      /\ SelectedMatch(status.list) \in Lines /\ status.value \in Lines
  BY <1>0, ListOffers DEF StatusLists, ListRecord, StatusRecord
<1>2. \A m \in statusMsgs : m.kind # "files"
  BY DEF Settled
<1>3. status.focus # "none"
  BY DEF StatusCancel, StatusApply
<1>4. status.list.kind = "files" <=> status.list.kind # "none" /\ status.mode = "rev file"
  BY <1>0, <1>3 DEF StatusInv, ListBelongsToInput
<1>5. ASSUME NEW mode \in {"revisions", "search", "exec", "rev file", ""}, status' = Unfocused(mode)
      PROVE  /\ status' \in StatusRecord /\ status'.focus = "none" /\ status'.list = NoList
             /\ ListBelongsToInput' /\ InputHasRead'
  <2>1. NoList \in StatusLists /\ Blank \in Lines /\ NoList.kind = "none"
    BY NewLists DEF Lines, NoList
  <2>2. status' \in StatusRecord /\ status'.focus = "none" /\ status'.list = NoList
    BY <1>0, <1>5, <2>1 DEF Unfocused, StatusRecord
  <2> QED BY <2>1, <2>2 DEF ListBelongsToInput, InputHasRead
<1>6. NoList.kind = "none"
  BY DEF NoList
<1>7. CASE StatusCancel
  <2>1. /\ status' = Unfocused(status.mode) /\ UNCHANGED <<statusMsgs, currentRevset, decided, historyVars>>
        /\ IF status.list.kind = "files" THEN UpdateRevSet(status.list.revset) ELSE UNCHANGED revsets
    BY <1>4, <1>7 DEF StatusCancel
  <2>2. /\ status' \in StatusRecord /\ status'.focus = "none" /\ status'.list = NoList
        /\ ListBelongsToInput' /\ InputHasRead'
    BY <1>0, <1>5, <2>1
  <2>3. revsets' \in Seq(Nat) /\ RevsetToCome' = decided
    BY <1>0, <1>1, <2>1, RevsetIsLast DEF StatusInv, SearchGoesBack, PreviewIsUndone
  <2>4. PreviewIsUndone' /\ SearchGoesBack'
    BY <1>2, <1>6, <2>1, <2>2, <2>3 DEF PreviewIsUndone, SearchGoesBack
  <2> QED BY <1>0, <2>1, <2>2, <2>3, <2>4, StatusInputKeeps DEF historyVars
<1>8. CASE StatusApply
  <2> DEFINE line == IF SelectedMatch(status.list) /= Blank THEN SelectedMatch(status.list) ELSE status.value
             sent == IF status.mode = "exec" THEN {Message("exec", line)} ELSE {}
  <2>1. /\ saveEditingSuggestions(status.mode, line) /\ status' = Unfocused("")
        /\ statusMsgs' = statusMsgs \cup sent /\ UNCHANGED <<currentRevset, files, kept>>
        /\ IF status.list.kind = "files" THEN UpdateRevSet(updateRevSet(status.list)) ELSE UNCHANGED revsets
        /\ decided' = IF status.list.kind = "files" THEN updateRevSet(status.list) ELSE decided
    <3>1. status.list.kind = "files" <=> status.mode = "rev file" /\ status.list.kind = "files"
      BY <1>4
    <3> QED BY <1>8, <3>1 DEF StatusApply, Send, Exchange
  <2>2. line \in Lines
    BY <1>1
  <2>3. histories' \in Histories /\ HistoriesInv(histories')
    BY <1>3, <2>1, <2>2, SavingKeeps
  <2>4. /\ status' \in StatusRecord /\ status'.focus = "none" /\ status'.list = NoList
        /\ ListBelongsToInput' /\ InputHasRead'
    BY <1>5, <2>1
  <2>5. sent \subseteq StatusMessages /\ \A m \in sent : m.kind = "exec"
    <3> HIDE DEF line
    <3> QED BY <2>2 DEF StatusMessages, Message
  <2> HIDE DEF sent, line
  <2>6. revsets' \in Seq(Nat) /\ decided' \in Nat /\ RevsetToCome' = decided'
    BY <1>0, <1>1, <2>1, RevsetIsLast DEF StatusInv, PreviewIsUndone
  <2>7. PreviewIsUndone' /\ SearchGoesBack' /\ statusMsgs' \subseteq StatusMessages
    BY <1>0, <1>2, <1>6, <2>1, <2>4, <2>5, <2>6 DEF PreviewIsUndone, SearchGoesBack
  <2> QED BY <1>0, <2>1, <2>3, <2>4, <2>6, <2>7, StatusInputKeeps
<1> QED BY <1>7, <1>8

\* The messages that arrive, at any time.
LEMMA StatusMessagesKeep ==
  ASSUME StatusInv, NEW m \in statusMsgs,
         FilesArrive(m) \/ SearchArrives(m) \/ TickArrives(m) \/ \E failed \in BOOLEAN : ExecCompletes(m, failed)
  PROVE  StatusInv'
<1>0. /\ status \in StatusRecord /\ statusMsgs \subseteq StatusMessages /\ status.list \in StatusLists
      /\ revsets \in Seq(Nat) /\ currentRevset \in Nat /\ decided \in Nat
      /\ histories \in Histories /\ HistoriesInv(histories) /\ StatusTypeOK /\ SearchGoesBack
      /\ status.focus \in {"none", "input", "quick", "file"}
  BY DEF StatusInv, StatusTypeOK, StatusRecord
<1>1. /\ m \in StatusMessages
      /\ m.kind = "files" => m.value \in Nat /\ m.value = decided
      /\ m.kind = "exec" => m.value \in Lines
  BY <1>0 DEF StatusMessages, SearchGoesBack
<1>2. Message("init", 0) \in StatusMessages /\ Message("init", 0).kind = "init"
  BY DEF Message, StatusMessages, Lines, Blank
<1>3. CASE FilesArrive(m)
  <2>1. /\ m.kind = "files" /\ loadEditingSuggestions("rev file") /\ UNCHANGED <<revsetVars, files, kept>>
        /\ status' = [status EXCEPT !.focus = "file", !.mode = "rev file", !.list = NewFiles(m.value)]
        /\ statusMsgs' = (statusMsgs \ {m}) \cup {Message("init", 0)}
    BY <1>3 DEF FilesArrive, Start, Exchange
  <2>2. /\ histories' \in Histories /\ HistoriesInv(histories')
        /\ "rev file" \in HistoryModes => histories'["rev file"].read
    BY <1>0, <2>1, LoadingKeeps
  <2>3. NewFiles(decided) \in StatusLists /\ NewFiles(decided).kind = "files" /\ NewFiles(decided).revset = decided
    BY <1>0, NewLists
  <2>4. /\ status' \in StatusRecord /\ status'.focus = "file" /\ status'.mode = "rev file"
        /\ status'.list = NewFiles(decided)
    BY <1>0, <1>1, <2>1, <2>3 DEF StatusRecord
  <2>5. ListBelongsToInput' /\ InputHasRead'
    BY <2>2, <2>3, <2>4 DEF ListBelongsToInput, InputHasRead
  <2>6. \A k \in statusMsgs : k.kind = "files" => k = m
    <3>1. \A k \in StatusMessages : k.kind = "files" => k = [kind |-> "files", value |-> k.value]
      BY DEF StatusMessages
    <3>2. \A k \in statusMsgs : k.kind = "files" => k.value = decided
      BY <1>0 DEF SearchGoesBack
    <3> QED BY <1>0, <2>1, <3>1, <3>2
  <2>7. statusMsgs' \subseteq StatusMessages /\ SearchGoesBack' /\ PreviewIsUndone'
    BY <1>0, <1>2, <2>1, <2>3, <2>4, <2>6 DEF SearchGoesBack, PreviewIsUndone, revsetVars
  <2> QED BY <1>0, <2>1, <2>2, <2>4, <2>5, <2>7, StatusInputKeeps DEF revsetVars
<1>4. CASE SearchArrives(m)
  <2> DEFINE text == IF m.kind = "init" THEN Blank ELSE m.value
             found == Searched(status.list, text)
             counted == m.kind = "search" /\ found.kind = "files" /\ found.preview
             k == IF counted THEN [found EXCEPT !.tag = @ + 1] ELSE found
             sent == IF counted THEN {Message("tick", found.tag + 1)} ELSE {}
  <2>1. /\ status' = IF found.kind = "none" THEN status ELSE [status EXCEPT !.list = k]
        /\ statusMsgs' = (statusMsgs \ {m}) \cup sent /\ UNCHANGED <<revsetVars, historyVars>>
    BY <1>4 DEF SearchArrives, Exchange
  <2>2. found \in StatusLists /\ found.kind = status.list.kind /\ found.revset = status.list.revset
    BY <1>0, SearchedTyped
  <2> HIDE DEF text, found
  <2>3. found \in ListRecord /\ found.tag \in Nat /\ found.tag + 1 \in Nat
    BY <2>2 DEF StatusLists, ListRecord
  <2>4. sent \subseteq StatusMessages /\ \A x \in sent : x.kind = "tick"
    BY <2>3 DEF StatusMessages, Message
  <2>5. k \in StatusLists /\ k.kind = status.list.kind /\ k.revset = status.list.revset
    <3>1. CASE counted
      <4> DEFINE t == [found EXCEPT !.tag = found.tag + 1]
      <4>1. t \in ListRecord
        BY <2>3, ListUpdates, Zenon
      <4>2. t.matches = found.matches /\ t.entries = found.entries /\ t.kind = found.kind /\ t.revset = found.revset
        BY <2>3 DEF ListRecord
      <4>3. k = t
        BY <3>1
      <4> HIDE DEF t, k
      <4>4. t \in StatusLists
        BY <2>2, <4>1, <4>2, SameMatches
      <4> QED BY <2>2, <4>2, <4>3, <4>4
    <3> QED BY <2>2, <3>1
  <2> HIDE DEF sent, k
  <2>6. statusMsgs' \subseteq StatusMessages /\ \A x \in statusMsgs' : x.kind = "files" => x \in statusMsgs
    BY <1>0, <2>1, <2>4
  <2>7. /\ status' \in StatusRecord /\ status'.focus = status.focus /\ status'.mode = status.mode
        /\ status'.list.kind = status.list.kind /\ status'.list.revset = status.list.revset
    BY <1>0, <2>1, <2>5, ListStepTyped
  <2> QED BY <2>1, <2>6, <2>7, SameInputKeeps DEF revsetVars
<1>5. CASE TickArrives(m)
  <2>1. /\ statusMsgs' = (statusMsgs \ {m}) \cup {} /\ UNCHANGED <<status, currentRevset, decided, historyVars>>
        /\ \/ UNCHANGED revsets
           \/ status.list.kind = "files" /\ UpdateRevSet(updateRevSet(status.list))
    BY <1>5 DEF TickArrives, Exchange
  <2>2. updateRevSet(status.list) \in Nat
    BY <1>0, ListOffers
  <2>3. \/ UNCHANGED revsets
        \/ status.list.kind = "files" /\ \E r \in Nat : UpdateRevSet(r)
    BY <2>1, <2>2
  <2>4. statusMsgs' \subseteq StatusMessages /\ \A x \in statusMsgs' : x.kind = "files" => x \in statusMsgs
    BY <1>0, <2>1
  <2> QED BY <1>0, <2>1, <2>3, <2>4, SameInputKeeps
<1>6. ASSUME NEW failed \in BOOLEAN, ExecCompletes(m, failed) PROVE StatusInv'
  <2>1. m.kind = "exec" /\ m.value \in Lines
    BY <1>1, <1>6 DEF ExecCompletes
  <2>2. CASE ~failed
    <3>1. statusMsgs' = (statusMsgs \ {m}) \cup {} /\ UNCHANGED <<status, revsets, currentRevset, decided, historyVars>>
      BY <1>6, <2>2 DEF ExecCompletes, Exchange, historyVars
    <3>2. statusMsgs' \subseteq StatusMessages /\ \A x \in statusMsgs' : x.kind = "files" => x \in statusMsgs
      BY <1>0, <3>1
    <3> QED BY <1>0, <3>1, <3>2, SameInputKeeps
  <2>3. CASE failed
    <3>1. /\ status' = [status EXCEPT !.focus = "input", !.mode = "exec", !.value = m.value,
                          !.list = NewInput(Entries("exec"))]
          /\ loadEditingSuggestions("exec") /\ UNCHANGED <<revsets, currentRevset, files, kept>>
          /\ statusMsgs' = (statusMsgs \ {m}) \cup {Message("init", 0), Message("search", m.value)}
          /\ decided' = IF status.focus = "file" THEN RevsetToCome ELSE decided
      BY <1>6, <2>3 DEF ExecCompletes, Exchange
    <3>2. /\ histories' \in Histories /\ HistoriesInv(histories') /\ ("exec" \in HistoryModes => histories'["exec"].read)
          /\ Entries("exec") \in Seq(Lines)
      BY <1>0, <3>1, LoadingKeeps
    <3>3. NewInput(Entries("exec")) \in StatusLists /\ NewInput(Entries("exec")).kind = "history"
      BY <3>2, NewLists
    <3>4. /\ status' \in StatusRecord /\ status'.focus = "input" /\ status'.mode = "exec"
          /\ status'.list.kind = "history"
      BY <1>0, <2>1, <3>1, <3>3 DEF StatusRecord
    <3>5. ListBelongsToInput' /\ InputHasRead'
      BY <3>2, <3>4 DEF ListBelongsToInput, InputHasRead
    <3>6. Message("search", m.value) \in StatusMessages /\ Message("search", m.value).kind = "search"
      BY <2>1 DEF Message, StatusMessages
    <3>7. statusMsgs' \subseteq StatusMessages /\ \A x \in statusMsgs' : x.kind = "files" => x \in statusMsgs
      BY <1>0, <1>2, <3>1, <3>6
    <3>8. RevsetToCome' = RevsetToCome /\ RevsetToCome \in Nat
      <4>1. revsets # <<>> => Last(revsets) \in Nat
        BY <1>0 DEF Last
      <4> QED BY <1>0, <3>1, <4>1, RevsetIsLast DEF RevsetToCome
    <3>9. RevsetToCome' = decided' /\ decided' \in Nat
      BY <1>0, <3>1, <3>8, NoSearch
    <3>10. PreviewIsUndone' /\ SearchGoesBack'
      BY <1>0, <3>1, <3>4, <3>7, <3>9 DEF PreviewIsUndone, SearchGoesBack
    <3> QED BY <1>0, <3>1, <3>2, <3>4, <3>5, <3>7, <3>9, <3>10, StatusInputKeeps
  <2> QED BY <2>2, <2>3
<1> QED BY <1>3, <1>4, <1>5, <1>6

\* The lines of a session are in the file once it has ended, with those that were there.
LEMMA FlushedLines ==
  ASSUME StatusInv, NEW m \in HistoryModes
  PROVE  flushed(m) \in Seq(Lines) /\ ToSet(files[m]) \cup NewLines(m) \subseteq ToSet(flushed(m))
<1> DEFINE added == histories[m].append
           P == {i \in DOMAIN added : added[i] /= Blank}
           t == Kept(added, P)
<1>1. files[m] \in Seq(Lines) /\ added \in Seq(Lines)
  BY DEF StatusInv, StatusTypeOK, Histories
<1>2. t \in Seq(Lines) /\ ToSet(t) = {added[i] : i \in P}
  BY <1>1, KeptElements
<1>3. flushed(m) = files[m] \o t
  BY DEF flushed
<1>4. NewLines(m) \subseteq ToSet(t)
  BY <1>2 DEF NewLines, ToSet
<1> HIDE DEF t
<1>5. flushed(m) \in Seq(Lines)
  BY <1>1, <1>2, <1>3
<1>6. ToSet(files[m]) \subseteq ToSet(files[m] \o t) /\ ToSet(t) \subseteq ToSet(files[m] \o t)
  <2>1. /\ DOMAIN files[m] = 1 .. Len(files[m]) /\ DOMAIN t = 1 .. Len(t)
        /\ DOMAIN (files[m] \o t) = 1 .. Len(files[m]) + Len(t) /\ Len(files[m]) \in Nat /\ Len(t) \in Nat
        /\ \A i \in 1 .. Len(files[m]) : (files[m] \o t)[i] = files[m][i]
        /\ \A i \in 1 .. Len(t) : (files[m] \o t)[Len(files[m]) + i] = t[i]
    BY <1>1, <1>2
  <2>2. /\ \A i \in 1 .. Len(files[m]) : i \in 1 .. Len(files[m]) + Len(t)
        /\ \A i \in 1 .. Len(t) : Len(files[m]) + i \in 1 .. Len(files[m]) + Len(t)
    BY <2>1
  <2> QED BY <2>1, <2>2 DEF ToSet
<1> QED BY <1>3, <1>4, <1>5, <1>6

\* The program ends or is killed and starts again; another one saves a line.
LEMMA SessionsKeep ==
  ASSUME StatusInv, Exit \/ Crash \/ \E m \in HistoryModes, line \in OtherLines : OtherExits(m, line)
  PROVE  StatusInv'
<1>0. files \in [HistoryModes -> Seq(Lines)] /\ kept \subseteq HistoryModes \X Lines /\ LinesAreKept /\ histories \in Histories
  BY DEF StatusInv, StatusTypeOK
<1>1. ASSUME NewSession, files' \in [HistoryModes -> Seq(Lines)], kept' \subseteq HistoryModes \X Lines, LinesAreKept'
      PROVE  StatusInv'
  <2>1. /\ status' = NewStatus /\ statusMsgs' = {} /\ revsets' = <<>> /\ currentRevset' = 0 /\ decided' = 0
        /\ histories' = NewHistories
    BY <1>1 DEF NewSession
  <2>2. status' \in StatusRecord
    BY <2>1, NewLists DEF NewStatus, StatusRecord, Lines
  <2>3. histories' \in Histories /\ HistoriesInv(histories')
    <3>1. \A m \in HistoryModes : histories'[m] = [read |-> FALSE, loaded |-> <<>>, append |-> <<>>]
      BY <2>1 DEF NewHistories
    <3>2. histories' \in Histories
      BY <2>1 DEF NewHistories, Histories
    <3>3. Distinct(<<>> \o <<>>)
      BY DEF Distinct
    <3>4. \A m \in HistoryModes : /\ histories'[m].loaded \o histories'[m].append = <<>> \o <<>>
                                  /\ histories'[m].append = <<>>
      BY <3>1
    <3> QED BY <3>2, <3>3, <3>4, Zenon DEF HistoriesInv
  <2>4. StatusTypeOK'
    BY <1>1, <2>1, <2>2, <2>3 DEF StatusTypeOK
  <2>5. InputHasRead' /\ SearchGoesBack' /\ ListBelongsToInput' /\ PreviewIsUndone'
    BY <2>1 DEF InputHasRead, SearchGoesBack, ListBelongsToInput, PreviewIsUndone, NewStatus, NoList, RevsetToCome
  <2> QED BY <1>1, <2>3, <2>4, <2>5 DEF StatusInv
<1>2. CASE Exit
  <2> DEFINE new == UNION {{m} \X NewLines(m) : m \in HistoryModes}
  <2>1. files' = [m \in HistoryModes |-> flushed(m)] /\ kept' = kept \cup new /\ NewSession
    BY <1>2 DEF Exit
  <2>2. \A m \in HistoryModes : flushed(m) \in Seq(Lines) /\ ToSet(files[m]) \cup NewLines(m) \subseteq ToSet(flushed(m))
    BY FlushedLines
  <2>3. files' \in [HistoryModes -> Seq(Lines)]
    BY <2>1, <2>2
  <2>4. \A x \in new : x[1] \in HistoryModes /\ x[2] \in NewLines(x[1]) /\ x = <<x[1], x[2]>>
    OBVIOUS
  <2>5. \A m \in HistoryModes : NewLines(m) \subseteq Lines
    BY <1>0 DEF NewLines, ToSet, Histories
  <2>6. kept' \subseteq HistoryModes \X Lines
    <3> HIDE DEF new
    <3>1. \A x \in new : x \in HistoryModes \X Lines
      BY <2>4, <2>5
    <3> QED BY <1>0, <2>1, <3>1
  <2> HIDE DEF new
  <2>7. LinesAreKept'
    <3>1. ASSUME NEW x \in kept' PROVE x[2] \in ToSet(files'[x[1]])
      <4>1. CASE x \in kept
        <5>1. x[1] \in HistoryModes /\ x[2] \in ToSet(files[x[1]])
          BY <1>0, <4>1 DEF LinesAreKept
        <5> QED BY <2>1, <2>2, <5>1
      <4>2. CASE x \in new
        <5>1. x[1] \in HistoryModes /\ x[2] \in NewLines(x[1])
          BY <2>4, <4>2
        <5> QED BY <2>1, <2>2, <5>1
      <4> QED BY <2>1, <4>1, <4>2
    <3> QED BY <3>1 DEF LinesAreKept
  <2> QED BY <1>1, <2>1, <2>3, <2>6, <2>7
<1>3. CASE Crash
  <2>1. NewSession /\ UNCHANGED <<files, kept>>
    BY <1>3 DEF Crash
  <2>2. LinesAreKept'
    BY <1>0, <2>1 DEF LinesAreKept
  <2> QED BY <1>0, <1>1, <2>1, <2>2
<1>4. ASSUME NEW m \in HistoryModes, NEW line \in OtherLines, OtherExits(m, line) PROVE StatusInv'
  <2>1. /\ files' = [files EXCEPT ![m] = Append(files[m], line)] /\ kept' = kept \cup {<<m, line>>}
        /\ UNCHANGED <<status, statusMsgs, revsets, currentRevset, decided, histories>>
    BY <1>0, <1>4 DEF OtherExits, revsetVars
  <2>2. line \in Lines
    BY DEF Lines
  <2>3. files' \in [HistoryModes -> Seq(Lines)] /\ kept' \subseteq HistoryModes \X Lines
    BY <1>0, <2>1, <2>2
  <2>4. ToSet(files[m]) \cup {line} \subseteq ToSet(files'[m])
    <3> DEFINE s == files[m]
    <3>1. s \in Seq(Lines) /\ files'[m] = Append(s, line)
      BY <1>0, <2>1
    <3> HIDE DEF s
    <3>2. /\ DOMAIN s = 1 .. Len(s) /\ Len(s) \in Nat /\ DOMAIN Append(s, line) = 1 .. Len(s) + 1
          /\ \A i \in 1 .. Len(s) : Append(s, line)[i] = s[i] /\ i \in 1 .. Len(s) + 1
          /\ Append(s, line)[Len(s) + 1] = line /\ Len(s) + 1 \in 1 .. Len(s) + 1
      BY <2>2, <3>1
    <3> QED BY <3>1, <3>2 DEF ToSet, s
  <2>5. \A k \in HistoryModes \ {m} : files'[k] = files[k]
    BY <1>0, <2>1
  <2>6. LinesAreKept'
    <3>1. ASSUME NEW x \in kept' PROVE x[2] \in ToSet(files'[x[1]])
      <4>1. CASE x \in kept
        <5>1. x[1] \in HistoryModes /\ x[2] \in ToSet(files[x[1]])
          BY <1>0, <4>1 DEF LinesAreKept
        <5> QED BY <2>4, <2>5, <5>1
      <4>2. CASE x = <<m, line>>
        BY <2>4, <4>2
      <4> QED BY <2>1, <4>1, <4>2
    <3> QED BY <3>1 DEF LinesAreKept
  <2>7. StatusTypeOK'
    BY <2>1, <2>3 DEF StatusTypeOK, StatusInv
  <2>8. HistoriesInv(histories)' /\ InputHasRead' /\ SearchGoesBack' /\ ListBelongsToInput'
    BY <2>1 DEF StatusInv, HistoriesInv, InputHasRead, SearchGoesBack, ListBelongsToInput
  <2>9. PreviewIsUndone'
    BY <2>1 DEF StatusInv, PreviewIsUndone, RevsetToCome
  <2> QED BY <2>6, <2>7, <2>8, <2>9 DEF StatusInv
<1> QED BY <1>2, <1>3, <1>4

\* The inductive invariant holds, whatever order keys, messages and sessions come in.
THEOREM StatusInvariance == StatusSpec => []StatusInv
<1>1. StatusInv /\ [StatusNext]_statusVars => StatusInv'
  <2> SUFFICES ASSUME StatusInv, [StatusNext]_statusVars PROVE StatusInv'
    OBVIOUS
  <2>1. CASE Settled /\ StatusKeys
    <3>1. CASE StartExec \/ StartQuickSearch \/ FileSearchToggle
      BY <2>1, <3>1, StatusStartKeeps
    <3>2. CASE StatusCancel \/ StatusApply
      BY <2>1, <3>2, StatusLeaveKeeps
    <3>3. CASE \/ \E text \in TypedTexts \cup {Blank} : StatusType(text)
               \/ \E delta \in {-1, 1} : FileSearchNavigate(delta) \/ SuggestNavigate(delta)
               \/ FileSearchTogglePreview \/ FileSearchEdit \/ SuggestCycle
      BY <3>3, InputKeysKeep
    <3> QED BY <2>1, <3>1, <3>2, <3>3, Zenon DEF StatusKeys
  <2>2. CASE \E m \in statusMsgs :
               FilesArrive(m) \/ SearchArrives(m) \/ TickArrives(m) \/ \E failed \in BOOLEAN : ExecCompletes(m, failed)
    BY <2>2, StatusMessagesKeep
  <2>3. CASE RevsetArrives
    <3>1. StatusTypeOK
      BY DEF StatusInv
    <3>2. revsets' \in Seq(Nat) /\ currentRevset' \in Nat /\ RevsetToCome' = RevsetToCome
      BY <2>3, <3>1, RevsetIsLast
    <3>3. UNCHANGED <<status, statusMsgs, decided, historyVars>>
      BY <2>3 DEF RevsetArrives
    <3>4. ListBelongsToInput' /\ InputHasRead' /\ SearchGoesBack' /\ PreviewIsUndone'
      BY <3>2, <3>3 DEF StatusInv, ListBelongsToInput, InputHasRead, SearchGoesBack, PreviewIsUndone, historyVars
    <3> QED BY <3>2, <3>3, <3>4, StatusInputKeeps DEF StatusInv, StatusTypeOK, historyVars
  <2>4. CASE setModeFromScopes
    <3>1. status.focus = "none" /\ status' = [status EXCEPT !.mode = "revisions"] /\ UNCHANGED <<statusMsgs, revsetVars, historyVars>>
      BY <2>4 DEF setModeFromScopes
    <3>2. status \in StatusRecord
      BY DEF StatusInv, StatusTypeOK
    <3>3. status' \in StatusRecord /\ status'.focus = "none" /\ status'.list = status.list
      BY <3>1, <3>2 DEF StatusRecord
    <3>4. RevsetToCome' = RevsetToCome
      BY <3>1 DEF RevsetToCome, revsetVars
    <3>5. ListBelongsToInput' /\ InputHasRead' /\ SearchGoesBack' /\ PreviewIsUndone'
      BY <3>1, <3>3, <3>4 DEF StatusInv, ListBelongsToInput, InputHasRead, SearchGoesBack, PreviewIsUndone, revsetVars
    <3> QED BY <3>1, <3>3, <3>5, StatusInputKeeps DEF StatusInv, StatusTypeOK, historyVars, revsetVars
  <2>5. CASE Exit \/ Crash \/ \E m \in HistoryModes, line \in OtherLines : OtherExits(m, line)
    BY <2>5, SessionsKeep
  <2>6. CASE UNCHANGED statusVars
    <3>1. UNCHANGED <<status, statusMsgs, revsets, currentRevset, decided, historyVars>>
      BY <2>6 DEF statusVars, revsetVars
    <3> QED BY <3>1, SameInputKeeps DEF StatusInv, StatusTypeOK
  <2> QED BY <2>1, <2>2, <2>3, <2>4, <2>5, <2>6 DEF StatusNext
<1> QED BY <1>1, StatusInitHolds, PTL DEF StatusSpec

\* The status line keeps its input, list and mode together, undoes what a file search previewed, and
\* neither repeats nor loses lines of its histories (status.go Update, history.go): for any lines, paths
\* and histories, and any number of messages under way.
THEOREM StatusSound == StatusSpec => []StatusIsSound
<1>1. StatusInv => StatusIsSound
  <2> SUFFICES ASSUME StatusInv PROVE StatusIsSound
    OBVIOUS
  <2>1. \A m \in HistoryModes : Distinct(Entries(m))
    BY EnteredIsDistinct DEF StatusInv
  <2>2. LinesAreDistinct
    BY <2>1 DEF LinesAreDistinct, IsInjective, Distinct
  <2> QED BY <2>2 DEF StatusIsSound, StatusInv
<1> QED BY <1>1, StatusInvariance, PTL

-----------------------------------------------------------------------------
(* The review view.                                                          *)
\* A finite set of numbers that is not empty has a greatest one.
LEMMA GreatestOfFinite ==
  ASSUME NEW S, S \subseteq Nat, IsFiniteSet(S), S # {}
  PROVE  \E x \in S : \A y \in S : x >= y
<1> DEFINE Bad(T) == T \subseteq Nat /\ IsFiniteSet(T) /\ T # {} /\ ~ \E x \in T : \A y \in T : x >= y
           K == {k \in Nat : \E T \in SUBSET Nat : Bad(T) /\ Cardinality(T) = k}
<1>1. SUFFICES ASSUME K # {} PROVE FALSE
  <2>1. Cardinality(S) \in Nat
    BY FS_CardinalityType
  <2>2. Bad(S) => Cardinality(S) \in K
    BY <2>1
  <2> QED BY <1>1, <2>2
<1>2. PICK k \in K : \A l \in K : k <= l
  <2>1. K \subseteq Nat
    OBVIOUS
  <2> HIDE DEF K
  <2> QED BY <1>1, <2>1, LeastOf
<1>3. PICK T \in SUBSET Nat : Bad(T) /\ Cardinality(T) = k
  BY <1>2
<1>4. PICK x \in T : TRUE
  BY <1>3
<1>5. IsFiniteSet(T \ {x}) /\ Cardinality(T \ {x}) = k - 1 /\ k \in Nat /\ k - 1 \in Nat
  <2>1. IsFiniteSet(T \ {x}) /\ Cardinality(T \ {x}) = Cardinality(T) - 1
    BY <1>3, <1>4, FS_RemoveElement
  <2>2. Cardinality(T \ {x}) \in Nat /\ Cardinality(T) \in Nat
    BY <1>3, <2>1, FS_CardinalityType
  <2> QED BY <1>3, <2>1, <2>2
<1>6. ~Bad(T \ {x})
  <2>1. k - 1 \notin K
    <3>1. ~(k <= k - 1)
      BY <1>5
    <3> HIDE DEF K
    <3> QED BY <1>2, <3>1
  <2> QED BY <1>5, <2>1
<1>7. CASE T \ {x} = {}
  <2>1. T = {x} /\ x \in Nat /\ x >= x
    BY <1>3, <1>4, <1>7
  <2> QED BY <1>3, <2>1
<1>8. CASE T \ {x} # {}
  <2>1. PICK y \in T \ {x} : \A z \in T \ {x} : y >= z
    BY <1>3, <1>5, <1>6, <1>8
  <2>2. x \in Nat /\ \A z \in T : z \in Nat
    BY <1>3, <1>4
  <2>3. CASE x >= y
    <3>1. \A z \in T : x >= z
      BY <2>1, <2>2, <2>3
    <3> QED BY <1>3, <1>4, <3>1
  <2>4. CASE ~(x >= y)
    <3>1. \A z \in T : y >= z
      BY <2>1, <2>2, <2>4
    <3> QED BY <1>3, <2>1, <3>1
  <2> QED BY <2>3, <2>4
<1> QED BY <1>7, <1>8

\* The least and the greatest number of a finite set.
LEMMA MinMaxOf ==
  ASSUME NEW S, S \subseteq Nat, IsFiniteSet(S), S # {}
  PROVE  /\ Min(S) \in S /\ Max(S) \in S
         /\ \A y \in S : Min(S) <= y /\ y <= Max(S)
<1>1. PICK x \in S : \A y \in S : x <= y
  BY LeastOf
<1>2. Min(S) \in S /\ \A y \in S : Min(S) =< y
  BY <1>1 DEF Min
<1>3. PICK z \in S : \A y \in S : z >= y
  BY GreatestOfFinite
<1>4. Max(S) \in S /\ \A y \in S : Max(S) >= y
  BY <1>3 DEF Max
<1>5. \A y \in S : y <= Max(S)
  BY <1>4
<1> QED BY <1>2, <1>4, <1>5

\* Of two numbers.
LEMMA MinMaxOfTwo ==
  ASSUME NEW x \in Nat, NEW y \in Nat
  PROVE  /\ Min({x, y}) = (IF x <= y THEN x ELSE y)
         /\ Max({x, y}) = (IF x <= y THEN y ELSE x)
<1>1. {x, y} \subseteq Nat /\ {x, y} # {} /\ x \in {x, y} /\ y \in {x, y}
  OBVIOUS
<1>2. IsFiniteSet({x, y})
  <2>1. IsFiniteSet({x}) /\ {x, y} = {x} \cup {y}
    BY FS_Singleton
  <2> QED BY <2>1, FS_AddElement
<1>3. Min({x, y}) \in {x, y} /\ Min({x, y}) <= x /\ Min({x, y}) <= y
  BY <1>1, <1>2, MinMaxOf
<1>4. Max({x, y}) \in {x, y} /\ x <= Max({x, y}) /\ y <= Max({x, y})
  BY <1>1, <1>2, MinMaxOf
<1> DEFINE lo == Min({x, y}) hi == Max({x, y})
<1>5. lo \in {x, y} /\ lo <= x /\ lo <= y /\ hi \in {x, y} /\ x <= hi /\ y <= hi
  BY <1>3, <1>4
<1> HIDE DEF lo, hi
<1>6. lo = (IF x <= y THEN x ELSE y) /\ hi = (IF x <= y THEN y ELSE x)
  BY <1>5
<1> QED BY <1>6 DEF lo, hi

\* A comment of the store, the view and the messages.
AComment == [id : Nat, rev : ARevisions, path : APaths, old : Nat \X Nat, new : Nat \X Nat]

\* What a view may be.
AViews ==
  [rev : ARevisions, loadingRev : ARevisions \cup {0}, files : Seq(AFile), file : Nat,
   pres : {"diff", "file"}, loading : BOOLEAN, items : SUBSET AComment, made : Nat, dirty : BOOLEAN,
   question : BOOLEAN, cursor : Nat, anchor : Nat, editing : BOOLEAN, focus : Nat,
   loadReq : Nat, targetsReq : Nat, nextReq : Nat]

\* A path is listed once.
PathsDiffer(fs) == \A i, j \in DOMAIN fs : fs[i].path = fs[j].path => i = j

\* Comments have ids of their own and ranges in order.
CommentsAreApart(a) ==
  \A n \in a.items : n.id \in 1 .. a.made /\ Find(a, n.id) = {n} /\ IsRange(n.old) /\ IsRange(n.new)

\* What holds of the view whatever is under way.
Sane(a) ==
  /\ a \in AViews /\ a.cursor > 0
  /\ a.editing => HasFile(a)
  /\ CommentsAreApart(a)
  /\ PathsDiffer(a.files)
  /\ a.loading => a.items = {} /\ a.files = <<>>

\* What a message is about.
PickIsOK(pick) ==
  /\ pick = [payload |-> pick.payload, items |-> pick.items]
  /\ pick.payload = "revision" => pick.items \subseteq ARevisions
  /\ pick.payload = "comment" => pick.items \subseteq Nat

\* What a message may be.
MsgIsOK(m) ==
  /\ m.type \in {"revision", "targets", "file", "picked", "close", "open"}
  /\ m.type \in {"revision", "targets", "file"} => m.rev \in ARevisions
  /\ m.type = "open" => PickIsOK(m.pick)
  /\ m.type = "picked" /\ m.pick.payload = "revision" => m.arg \in ARevisions
  /\ m.type = "picked" /\ m.pick.payload = "comment" => m.arg \in Nat
  /\ m.type \in {"open", "picked"} => m.pick.payload \in {"file", "comment", "revision"}

\* The focus is under the cursor, or waits for a load or one of the messages.
FocusIsIn(a, msgs) ==
  a.focus # 0 =>
    \/ a.loadingRev # 0 /\ ~a.editing
    \/ /\ a.pres = "file" /\ ~a.editing
       /\ \E m \in msgs, n \in Find(a, a.focus) :
            IsHere(a, n) /\ m.type = "file" /\ m.rev = a.rev /\ m.arg = n.path
    \/ Focused(a) # {}

\* A load that is waited for is one of the messages.
LoadIsIn(a, msgs) ==
  a.loading \/ a.loadingRev # 0 =>
    \E m \in msgs : /\ m.type = "revision" /\ m.req = a.loadReq
                    /\ m.rev = IF a.loadingRev # 0 THEN a.loadingRev ELSE a.rev

\* The inductive invariant.
AnnotationInv ==
  /\ Sane(ann) /\ IsABag(aMsgs) /\ (\A m \in DOMAIN aMsgs : MsgIsOK(m))
  /\ PickIsOK(aPicker) /\ aPicker.payload \in {"none", "file", "comment", "revision"}
  /\ aPicker.payload = "none" => aPicker = NoPicker
  /\ FocusIsIn(ann, DOMAIN aMsgs) /\ LoadIsIn(ann, DOMAIN aMsgs)

\* The lines shown are some number of lines, those of a file there is.
LEMMA SourceTyped ==
  ASSUME NEW a \in AViews
  PROVE  /\ SourceLen(a) \in Nat
         /\ HasFile(a) => File(a) \in AFile /\ a.file \in 1 .. Len(a.files)
         /\ ~HasFile(a) => SourceLen(a) = 0
<1>1. a.files \in Seq(AFile)
  BY DEF AViews
<1>2. HasFile(a) => File(a) \in AFile /\ a.file \in 1 .. Len(a.files)
  BY <1>1 DEF HasFile, File
<1>3. HasFile(a) => File(a).held \in Nat /\ Len(File(a).lines) \in Nat
  BY <1>2 DEF AFile
<1> QED BY <1>2, <1>3 DEF SourceLen

\* The next line to comment on is numbered from 1, whichever way it is looked for.
LEMMA NextIsLine ==
  ASSUME NEW a \in AViews, NEW from \in Nat, NEW direction \in {-1, 1}
  PROVE  nextCommentable(a, from, direction) \in Nat \ {0}
<1> DEFINE ahead == {i \in 1 .. SourceLen(a) :
                  Commentable(a, i) /\ (IF direction > 0 THEN i > from ELSE i < from /\ from <= SourceLen(a) + 1)}
<1>1. SourceLen(a) \in Nat
  BY SourceTyped
<1>2. ahead \subseteq 1 .. SourceLen(a) /\ IsFiniteSet(ahead) /\ ahead \subseteq Nat
  <2>1. ahead \subseteq 1 .. SourceLen(a) /\ IsFiniteSet(1 .. SourceLen(a)) /\ 1 .. SourceLen(a) \subseteq Nat
    BY <1>1, FS_Interval
  <2> HIDE DEF ahead
  <2> QED BY <2>1, FS_Subset
<1>3. nextCommentable(a, from, direction) =
        IF ahead # {} THEN (IF direction > 0 THEN Min(ahead) ELSE Max(ahead))
        ELSE Max({1, Min({from, SourceLen(a)})})
  BY DEF nextCommentable
<1> HIDE DEF ahead
<1>4. CASE ahead # {}
  <2>1. Min(ahead) \in ahead /\ Max(ahead) \in ahead
    BY <1>2, <1>4, MinMaxOf
  <2>2. \A i \in 1 .. SourceLen(a) : i \in Nat \ {0}
    BY <1>1
  <2>3. Min(ahead) \in Nat \ {0} /\ Max(ahead) \in Nat \ {0}
    BY <1>2, <2>1, <2>2
  <2> QED BY <1>3, <1>4, <2>3
<1>5. CASE ahead = {}
  <2> DEFINE lo == Min({from, SourceLen(a)})
  <2>1. lo \in Nat
    BY <1>1, MinMaxOfTwo
  <2> HIDE DEF lo
  <2>2. Max({1, lo}) \in Nat \ {0}
    BY <2>1, MinMaxOfTwo
  <2> QED BY <1>3, <1>5, <2>2 DEF lo
<1> QED BY <1>4, <1>5

\* The position is at the start, and nothing is being written.
LEMMA ResetIs ==
  ASSUME NEW a \in AViews
  PROVE  \E c \in Nat \ {0} : resetPosition(a) = [a EXCEPT !.cursor = c, !.anchor = 0, !.editing = FALSE]
<1> DEFINE b == [a EXCEPT !.cursor = 1, !.anchor = 0, !.editing = FALSE]
<1>1. b \in AViews
  BY DEF AViews
<1>2. nextCommentable(b, 0, 1) \in Nat \ {0}
  BY <1>1, NextIsLine
<1> DEFINE c == nextCommentable(b, 0, 1)
<1>3. c \in Nat \ {0}
  BY <1>2
<1>4. resetPosition(a) = b \/ resetPosition(a) = [b EXCEPT !.cursor = c]
  BY DEF resetPosition
<1> HIDE DEF c
<1>5. [b EXCEPT !.cursor = c] = [a EXCEPT !.cursor = c, !.anchor = 0, !.editing = FALSE]
  BY DEF AViews
<1>6. CASE resetPosition(a) = b
  <2>1. 1 \in Nat \ {0}
    OBVIOUS
  <2> QED BY <1>6, <2>1, Zenon
<1>7. CASE resetPosition(a) = [b EXCEPT !.cursor = c]
  BY <1>3, <1>5, <1>7
<1> QED BY <1>4, <1>6, <1>7

\* A view with some of the comments and the same files is as sane.
LEMMA SaneKeeps ==
  ASSUME NEW a, Sane(a), NEW b \in AViews, b.cursor > 0, b.editing => HasFile(b),
         b.items \subseteq a.items, b.made = a.made, PathsDiffer(b.files),
         b.loading => a.loading /\ b.files = <<>>
  PROVE  Sane(b)
<1>1. a \in AViews /\ CommentsAreApart(a)
  BY DEF Sane
<1>2. ASSUME NEW n \in b.items
      PROVE  n.id \in 1 .. b.made /\ Find(b, n.id) = {n} /\ IsRange(n.old) /\ IsRange(n.new)
  <2>1. n \in a.items
    BY <1>2
  <2>2. n.id \in 1 .. a.made /\ Find(a, n.id) = {n} /\ IsRange(n.old) /\ IsRange(n.new)
    BY <1>1, <2>1 DEF CommentsAreApart
  <2>3. Find(b, n.id) = {n}
    BY <1>2, <2>2 DEF Find
  <2> QED BY <2>2, <2>3
<1>3. b.loading => b.items = {} /\ b.files = <<>>
  BY DEF Sane
<1> QED BY <1>2, <1>3 DEF Sane, CommentsAreApart

\* What a key or a message makes of the view: comments are only taken away, and what is sent is sound.
Outcome(a, k) ==
  /\ Sane(k.a) /\ k.a.items \subseteq a.items
  /\ \A m \in k.send : MsgIsOK(m) /\ m.type # "picked"

\* The loads are the same ones.
SameLoad(a, b) ==
  b.loading = a.loading /\ b.loadingRev = a.loadingRev /\ b.loadReq = a.loadReq /\ b.rev = a.rev

\* Nothing that the focus depends on is changed.
SamePlace(a, b) ==
  /\ b.rev = a.rev /\ b.files = a.files /\ b.file = a.file /\ b.pres = a.pres /\ b.items = a.items
  /\ b.cursor = a.cursor /\ b.focus = a.focus /\ b.loadingRev = a.loadingRev /\ b.editing = a.editing

\* The focus needs no more messages than there are.
FocusSettled(k) == \A msgs : FocusIsIn(k.a, msgs \cup k.send)
\* The focus is right after the step if it was before.
FocusStays(a, k) == \A msgs : FocusIsIn(a, msgs) => FocusIsIn(k.a, msgs \cup k.send)
\* A load that is waited for stays under way.
LoadStays(a, k) == \A msgs : LoadIsIn(a, msgs) => LoadIsIn(k.a, msgs \cup k.send)

\* The parts of an outcome.
LEMMA OutIs == ASSUME NEW a, NEW s PROVE AOut(a, s).a = a /\ AOut(a, s).send = s
BY DEF AOut

\* With the same loads, what was waited for is still under way.
LEMMA SameLoadStays ==
  ASSUME NEW a, NEW k, SameLoad(a, k.a)
  PROVE  LoadStays(a, k)
BY DEF SameLoad, LoadStays, LoadIsIn

\* With nothing changed that it depends on, the focus is as it was.
LEMMA SamePlaceStays ==
  ASSUME NEW a, NEW k, SamePlace(a, k.a)
  PROVE  FocusStays(a, k)
<1>1. \A id : Find(k.a, id) = Find(a, id)
  BY DEF SamePlace, Find
<1>2. HasFile(k.a) = HasFile(a) /\ File(k.a) = File(a)
  BY DEF SamePlace, HasFile, File
<1>3. SourceLen(k.a) = SourceLen(a)
  BY <1>2 DEF SamePlace, SourceLen
<1>4. \A n : AnnotationContains(k.a, k.a.cursor, n) = AnnotationContains(a, a.cursor, n)
  BY <1>2, <1>3 DEF SamePlace, AnnotationContains, IsHere, AnnotationLines
<1>5. Focused(k.a) = Focused(a)
  BY <1>1, <1>4 DEF Focused, SamePlace
<1>6. \A n : IsHere(k.a, n) = IsHere(a, n)
  BY <1>2 DEF SamePlace, IsHere
<1> QED BY <1>1, <1>5, <1>6 DEF FocusStays, FocusIsIn, SamePlace

\* No focus, or one that is under the cursor, waits for nothing.
LEMMA NoFocusSettled ==
  ASSUME NEW k, k.a.focus = 0 \/ Focused(k.a) # {}
  PROVE  FocusSettled(k)
BY DEF FocusSettled, FocusIsIn

\* A focus that waits for nothing is kept.
LEMMA SettledStays == ASSUME NEW a, NEW k, FocusSettled(k) PROVE FocusStays(a, k)
BY DEF FocusSettled, FocusStays

\* Messages.
LEMMA LoadFileSound ==
  ASSUME NEW a \in AViews
  PROVE  /\ \A m \in LoadFile(a) : MsgIsOK(m) /\ m.type = "file" /\ m.rev = a.rev /\ m.arg = File(a).path
         /\ LoadFile(a) # {} <=> HasFile(a) /\ File(a).loaded = "no"
<1>1. a.rev \in ARevisions
  BY DEF AViews
<1>2. \A m \in LoadFile(a) : m.type = "file" /\ m.rev = a.rev /\ m.arg = File(a).path
  BY DEF LoadFile, AMsg
<1> QED BY <1>1, <1>2 DEF MsgIsOK, LoadFile

\* A picker is opened on revisions or on ids, and the view is left alone.
LEMMA PickerSound ==
  ASSUME NEW a, Sane(a), NEW payload \in {"file", "comment", "revision"}, NEW items,
         payload = "revision" => items \subseteq ARevisions, payload = "comment" => items \subseteq Nat
  PROVE  LET k == OpenPicker(a, payload, items)
         IN  k.a = a /\ Outcome(a, k) /\ FocusStays(a, k) /\ LoadStays(a, k)
<1> DEFINE k == OpenPicker(a, payload, items)
<1>1. k.a = a /\ \A m \in k.send : m.type = "open" /\ m.pick = [payload |-> payload, items |-> items]
  BY DEF OpenPicker, AOut, AMsg
<1>2. \A m \in k.send : MsgIsOK(m) /\ m.type # "picked"
  BY <1>1 DEF MsgIsOK, PickIsOK
<1>3. SamePlace(a, k.a) /\ SameLoad(a, k.a)
  BY <1>1 DEF SamePlace, SameLoad
<1> HIDE DEF k
<1>4. FocusStays(a, k) /\ LoadStays(a, k)
  BY <1>3, SamePlaceStays, SameLoadStays
<1> QED BY <1>1, <1>2, <1>4 DEF Outcome, k

\* clearFocus changes the focus alone.
LEMMA ClearFocusIs ==
  ASSUME NEW a, Sane(a)
  PROVE  /\ Sane(clearFocus(a)) /\ clearFocus(a).focus = 0 /\ clearFocus(a).items = a.items
         /\ SameLoad(a, clearFocus(a)) /\ clearFocus(a).files = a.files /\ clearFocus(a).file = a.file
         /\ clearFocus(a).pres = a.pres /\ clearFocus(a).cursor = a.cursor /\ clearFocus(a).anchor = a.anchor
         /\ clearFocus(a).editing = a.editing /\ clearFocus(a).made = a.made /\ clearFocus(a).nextReq = a.nextReq
         /\ clearFocus(a).question = a.question
<1> DEFINE b == [a EXCEPT !.focus = 0]
<1>1. a \in AViews /\ a.cursor > 0 /\ (a.editing => HasFile(a)) /\ PathsDiffer(a.files) /\ (a.loading => a.files = <<>>)
  BY DEF Sane
<1>2. b \in AViews /\ SameLoad(a, b) /\ b.items = a.items /\ b.files = a.files /\ b.file = a.file
      /\ b.pres = a.pres /\ b.cursor = a.cursor /\ b.anchor = a.anchor /\ b.editing = a.editing /\ b.made = a.made
      /\ b.nextReq = a.nextReq /\ b.question = a.question /\ b.focus = 0
  BY <1>1 DEF AViews, SameLoad
<1>3. b.editing => HasFile(b)
  BY <1>1, <1>2 DEF HasFile
<1> HIDE DEF b
<1>4. Sane(b)
  BY <1>1, <1>2, <1>3, SaneKeeps DEF SameLoad
<1> QED BY <1>2, <1>4 DEF clearFocus, b

\* The cursor is put somewhere: the focused comment is there or has lost the focus.
LEMMA PlaceStep ==
  ASSUME NEW a, Sane(a), NEW c \in Nat \ {0}, NEW d \in Nat
  PROVE  LET b == [a EXCEPT !.cursor = c, !.anchor = d]
             k == AOut(Refocus(b), {})
         IN  Sane(b) /\ SameLoad(a, b) /\ b.items = a.items /\ Outcome(a, k) /\ FocusStays(a, k) /\ LoadStays(a, k)
<1> DEFINE b == [a EXCEPT !.cursor = c, !.anchor = d]
           k == AOut(Refocus(b), {})
<1>1. a \in AViews /\ (a.editing => HasFile(a)) /\ PathsDiffer(a.files) /\ (a.loading => a.files = <<>>)
  BY DEF Sane
<1>2. b \in AViews /\ SameLoad(a, b) /\ b.items = a.items /\ b.files = a.files /\ b.file = a.file
      /\ b.editing = a.editing /\ b.made = a.made /\ b.cursor > 0
  <2>1. c \in Nat /\ c > 0
    OBVIOUS
  <2>2. b \in AViews /\ b.cursor = c
    BY <1>1, <2>1 DEF AViews
  <2>3. SameLoad(a, b) /\ b.items = a.items /\ b.files = a.files /\ b.file = a.file
        /\ b.editing = a.editing /\ b.made = a.made
    BY <1>1 DEF AViews, SameLoad
  <2> QED BY <2>1, <2>2, <2>3
<1>3. b.editing => HasFile(b)
  BY <1>1, <1>2 DEF HasFile
<1> HIDE DEF b
<1>4. Sane(b)
  BY <1>1, <1>2, <1>3, SaneKeeps DEF SameLoad
<1>5. k.a = Refocus(b) /\ k.send = {}
  BY DEF AOut
<1>6. (k.a = b /\ Focused(k.a) # {}) \/ k.a = clearFocus(b)
  BY <1>5 DEF Refocus
<1> HIDE DEF k
<1>7. Sane(k.a) /\ k.a.items = a.items /\ SameLoad(a, k.a) /\ (k.a.focus = 0 \/ Focused(k.a) # {})
  BY <1>2, <1>4, <1>6, ClearFocusIs DEF SameLoad
<1>8. FocusStays(a, k) /\ LoadStays(a, k)
  BY <1>7, NoFocusSettled, SettledStays, SameLoadStays
<1> QED BY <1>2, <1>4, <1>5, <1>7, <1>8 DEF Outcome, b, k

\* moveCursor, in both directions, with and without a mark.
LEMMA MoveStep ==
  ASSUME NEW a, Sane(a), NEW direction \in {-1, 1}, NEW selecting \in BOOLEAN
  PROVE  LET k == AOut(moveCursor(a, direction, selecting), {})
         IN  Outcome(a, k) /\ FocusStays(a, k) /\ LoadStays(a, k)
<1> DEFINE k == AOut(moveCursor(a, direction, selecting), {})
           to == nextCommentable(a, a.cursor, direction)
           d == IF ~selecting THEN 0 ELSE IF to # a.cursor /\ a.anchor = 0 THEN a.cursor ELSE a.anchor
           b == [a EXCEPT !.cursor = to, !.anchor = d]
<1>1. a \in AViews /\ a.cursor \in Nat /\ a.anchor \in Nat
  BY DEF Sane, AViews
<1>2. to \in Nat \ {0}
  BY <1>1, NextIsLine
<1>3. d \in Nat
  BY <1>1
<1>4. moveCursor(a, direction, selecting) = a \/ moveCursor(a, direction, selecting) = Refocus(b)
      \/ (moveCursor(a, direction, selecting) = b /\ to = a.cursor)
  BY <1>1 DEF moveCursor, AViews
<1>5. k.a = moveCursor(a, direction, selecting) /\ k.send = {}
  BY DEF AOut
<1> HIDE DEF to, d
<1>6. Sane(b) /\ SameLoad(a, b) /\ b.items = a.items
      /\ LET l == AOut(Refocus(b), {}) IN Outcome(a, l) /\ FocusStays(a, l) /\ LoadStays(a, l)
  BY <1>2, <1>3, PlaceStep
<1>7. CASE k.a = a
  <2>1. SamePlace(a, k.a) /\ SameLoad(a, k.a)
    BY <1>7 DEF SamePlace, SameLoad
  <2> HIDE DEF k
  <2> QED BY <1>5, <1>7, <2>1, SamePlaceStays, SameLoadStays DEF Outcome, k
<1>8. CASE k.a = Refocus(b)
  <2>1. k = AOut(Refocus(b), {})
    BY <1>5, <1>8
  <2> HIDE DEF b
  <2> QED BY <1>6, <2>1
<1>9. CASE k.a = b /\ to = a.cursor
  <2>1. SamePlace(a, k.a)
    BY <1>1, <1>9 DEF SamePlace, AViews
  <2> HIDE DEF k, b
  <2> QED BY <1>5, <1>6, <1>9, <2>1, SamePlaceStays, SameLoadStays DEF Outcome, k
<1> QED BY <1>4, <1>5, <1>7, <1>8, <1>9

\* moveBoundary, to the first line or the last.
LEMMA BoundaryStep ==
  ASSUME NEW a, Sane(a), NEW last \in BOOLEAN
  PROVE  LET k == AOut(moveBoundary(a, last), {})
         IN  Outcome(a, k) /\ FocusStays(a, k) /\ LoadStays(a, k)
<1> DEFINE k == AOut(moveBoundary(a, last), {})
           to == IF last THEN nextCommentable(a, SourceLen(a) + 1, -1) ELSE nextCommentable(a, 0, 1)
           b == [a EXCEPT !.cursor = to, !.anchor = 0]
<1>1. a \in AViews
  BY DEF Sane
<1>2. to \in Nat \ {0}
  <2>1. SourceLen(a) + 1 \in Nat
    BY <1>1, SourceTyped
  <2> QED BY <1>1, <2>1, NextIsLine
<1>4. moveBoundary(a, last) = a \/ moveBoundary(a, last) = Refocus(b)
  <2>1. [a EXCEPT !.anchor = 0, !.cursor = to] = b
    BY <1>1 DEF AViews
  <2> QED BY <2>1 DEF moveBoundary
<1>5. k.a = moveBoundary(a, last) /\ k.send = {}
  BY DEF AOut
<1> HIDE DEF to
<1>6. LET l == AOut(Refocus(b), {}) IN Outcome(a, l) /\ FocusStays(a, l) /\ LoadStays(a, l)
  BY <1>2, PlaceStep
<1>7. CASE k.a = a
  <2>1. SamePlace(a, k.a) /\ SameLoad(a, k.a)
    BY <1>7 DEF SamePlace, SameLoad
  <2> HIDE DEF k
  <2> QED BY <1>5, <1>7, <2>1, SamePlaceStays, SameLoadStays DEF Outcome, k
<1>8. CASE k.a = Refocus(b)
  <2>1. k = AOut(Refocus(b), {})
    BY <1>5, <1>8
  <2> HIDE DEF b
  <2> QED BY <1>6, <2>1
<1> QED BY <1>4, <1>5, <1>7, <1>8

\* The view of another file, or another view of it, begins at its first line.
LEMMA FileStep ==
  ASSUME NEW a, Sane(a), NEW b \in AViews, b.items = a.items, b.made = a.made, b.files = a.files, SameLoad(a, b)
  PROVE  LET k == loadCurrentFile(resetPosition(clearFocus(b)))
         IN  Outcome(a, k) /\ FocusStays(a, k) /\ LoadStays(a, k)
<1> DEFINE e == clearFocus(b)
           f == resetPosition(e)
           k == loadCurrentFile(f)
<1>1. PathsDiffer(a.files) /\ (a.loading => a.files = <<>>)
  BY DEF Sane
<1>2. e \in AViews /\ e.focus = 0 /\ e.items = a.items /\ e.made = a.made /\ e.files = a.files /\ SameLoad(a, e)
  BY DEF AViews, clearFocus, SameLoad
<1> HIDE DEF e
<1>3. PICK c \in Nat \ {0} : f = [e EXCEPT !.cursor = c, !.anchor = 0, !.editing = FALSE]
  BY <1>2, ResetIs
<1>4. c \in Nat /\ c > 0
  OBVIOUS
<1>5. f \in AViews /\ f.cursor = c /\ ~f.editing /\ f.focus = 0
  <2> DEFINE e1 == [e EXCEPT !.cursor = c]
             e2 == [e1 EXCEPT !.anchor = 0]
             e3 == [e2 EXCEPT !.editing = FALSE]
  <2>1. e1 \in AViews /\ e1.cursor = c /\ e1.focus = 0
    BY <1>2, <1>4 DEF AViews
  <2>2. f = e3
    BY <1>3
  <2> HIDE DEF e1, f
  <2>3. e2 \in AViews /\ e2.cursor = c /\ e2.focus = 0
    BY <2>1 DEF AViews
  <2> HIDE DEF e2
  <2>4. e3 \in AViews /\ e3.cursor = c /\ ~e3.editing /\ e3.focus = 0
    BY <2>3 DEF AViews
  <2> HIDE DEF e3
  <2> QED BY <2>2, <2>4
<1>6. f.items = a.items /\ f.made = a.made /\ f.files = a.files /\ SameLoad(a, f)
  BY <1>2, <1>3 DEF AViews, SameLoad
<1> HIDE DEF f
<1>7. Sane(f)
  BY <1>1, <1>4, <1>5, <1>6, SaneKeeps DEF SameLoad
<1>8. k.a = f /\ (k.send = LoadFile(f) \/ k.send = {})
  BY DEF loadCurrentFile, AOut
<1>9. \A m \in k.send : MsgIsOK(m) /\ m.type # "picked"
  BY <1>5, <1>8, LoadFileSound
<1> HIDE DEF k
<1>10. FocusStays(a, k) /\ LoadStays(a, k)
  BY <1>5, <1>6, <1>8, NoFocusSettled, SettledStays, SameLoadStays
<1> QED BY <1>6, <1>7, <1>8, <1>9, <1>10 DEF Outcome, k, f, e

\* navigateFile, around the ends of the list.
LEMMA NavigateFileStep ==
  ASSUME NEW a, Sane(a), NEW delta \in {-1, 1}
  PROVE  LET k == navigateFile(a, delta)
         IN  Outcome(a, k) /\ FocusStays(a, k) /\ LoadStays(a, k)
<1> DEFINE k == navigateFile(a, delta)
           b == [a EXCEPT !.file = ((@ - 1 + delta) % Len(a.files)) + 1]
<1>1. a \in AViews /\ a.files \in Seq(AFile) /\ a.file \in Nat
  BY DEF Sane, AViews
<1>2. CASE a.files = <<>>
  <2>1. k.a = a /\ k.send = {}
    BY <1>2 DEF navigateFile, AOut
  <2>2. SamePlace(a, k.a) /\ SameLoad(a, k.a)
    BY <2>1 DEF SamePlace, SameLoad
  <2> HIDE DEF k
  <2>3. Outcome(a, k) /\ FocusStays(a, k) /\ LoadStays(a, k)
    BY <2>1, <2>2, SamePlaceStays, SameLoadStays DEF Outcome
  <2> QED BY <2>3 DEF k
<1>3. CASE a.files # <<>>
  <2>1. Len(a.files) \in Nat /\ Len(a.files) > 0
    BY <1>1, <1>3
  <2>2. ((a.file - 1 + delta) % Len(a.files)) + 1 \in Nat
    BY <1>1, <2>1
  <2> DEFINE g == ((a.file - 1 + delta) % Len(a.files)) + 1
  <2>3. b = [a EXCEPT !.file = g] /\ g \in Nat
    BY <2>2
  <2> HIDE DEF g
  <2>4. b \in AViews /\ b.items = a.items /\ b.made = a.made /\ b.files = a.files /\ SameLoad(a, b)
    BY <1>1, <2>3 DEF AViews, SameLoad
  <2>5. k = loadCurrentFile(resetPosition(clearFocus(b)))
    BY <1>3 DEF navigateFile
  <2> HIDE DEF k, b
  <2>6. Outcome(a, k) /\ FocusStays(a, k) /\ LoadStays(a, k)
    BY <2>4, <2>5, FileStep
  <2> QED BY <2>6 DEF k
<1> QED BY <1>2, <1>3

\* togglePresentation.
LEMMA ToggleStep ==
  ASSUME NEW a, Sane(a)
  PROVE  LET k == togglePresentation(a)
         IN  Outcome(a, k) /\ FocusStays(a, k) /\ LoadStays(a, k)
<1> DEFINE b == [a EXCEPT !.pres = IF @ = "diff" THEN "file" ELSE "diff"]
<1>1. a \in AViews
  BY DEF Sane
<1>2. b \in AViews /\ b.items = a.items /\ b.made = a.made /\ b.files = a.files /\ SameLoad(a, b)
  BY <1>1 DEF AViews, SameLoad
<1>3. togglePresentation(a) = loadCurrentFile(resetPosition(clearFocus(b)))
  BY DEF togglePresentation
<1> HIDE DEF b
<1> QED BY <1>2, <1>3, FileStep

\* selectFile, of a path that may no longer be there.
LEMMA SelectFileStep ==
  ASSUME NEW a, Sane(a), NEW path
  PROVE  LET k == selectFile(a, path)
         IN  Outcome(a, k) /\ FocusStays(a, k) /\ LoadStays(a, k)
<1> DEFINE k == selectFile(a, path)
           found == {i \in DOMAIN a.files : a.files[i].path = path}
<1>1. a \in AViews /\ a.files \in Seq(AFile)
  BY DEF Sane, AViews
<1>2. CASE found = {}
  <2>1. k.a = a /\ k.send = {}
    BY <1>2 DEF selectFile, AOut
  <2>2. SamePlace(a, k.a) /\ SameLoad(a, k.a)
    BY <2>1 DEF SamePlace, SameLoad
  <2> HIDE DEF k
  <2>3. Outcome(a, k) /\ FocusStays(a, k) /\ LoadStays(a, k)
    BY <2>1, <2>2, SamePlaceStays, SameLoadStays DEF Outcome
  <2> QED BY <2>3 DEF k
<1>3. CASE found # {}
  <2> DEFINE g == CHOOSE i \in found : TRUE
             b == [a EXCEPT !.file = g]
  <2>1. g \in found
    BY <1>3
  <2>2. g \in Nat
    BY <1>1, <2>1
  <2>3. k = loadCurrentFile(resetPosition(clearFocus(b)))
    BY <1>3 DEF selectFile
  <2> HIDE DEF g, found
  <2>4. b \in AViews /\ b.items = a.items /\ b.made = a.made /\ b.files = a.files /\ SameLoad(a, b)
    BY <1>1, <2>2 DEF AViews, SameLoad
  <2> HIDE DEF k, b
  <2>5. Outcome(a, k) /\ FocusStays(a, k) /\ LoadStays(a, k)
    BY <2>3, <2>4, FileStep
  <2> QED BY <2>5 DEF k
<1> QED BY <1>2, <1>3

\* The view is left as it is.
LEMMA SameStep ==
  ASSUME NEW a, Sane(a), NEW k, k.a = a, \A m \in k.send : MsgIsOK(m) /\ m.type # "picked"
  PROVE  Outcome(a, k) /\ FocusStays(a, k) /\ LoadStays(a, k)
<1>1. SamePlace(a, k.a) /\ SameLoad(a, k.a)
  BY DEF SamePlace, SameLoad
<1> QED BY <1>1, SamePlaceStays, SameLoadStays DEF Outcome

\* navigateRevision asks for the parents or the children.
LEMMA TargetsStep ==
  ASSUME NEW a, Sane(a)
  PROVE  LET k == navigateRevision(a)
         IN  Outcome(a, k) /\ FocusStays(a, k) /\ LoadStays(a, k)
<1> DEFINE k == navigateRevision(a)
           req == a.nextReq + 1
           b == [a EXCEPT !.nextReq = req, !.targetsReq = req]
<1>1. a \in AViews /\ a.cursor > 0 /\ (a.editing => HasFile(a)) /\ PathsDiffer(a.files) /\ (a.loading => a.files = <<>>)
  BY DEF Sane
<1>2. CASE a.editing \/ a.loadingRev # 0
  <2>1. k.a = a /\ k.send = {}
    BY <1>2 DEF navigateRevision, AOut
  <2> HIDE DEF k
  <2>2. Outcome(a, k) /\ FocusStays(a, k) /\ LoadStays(a, k)
    BY <2>1, SameStep
  <2> QED BY <2>2 DEF k
<1>3. CASE ~(a.editing \/ a.loadingRev # 0)
  <2>1. k.a = b /\ \A m \in k.send : m.type = "targets" /\ m.rev = a.rev
    BY <1>1, <1>3 DEF navigateRevision, AOut, AMsg, AViews
  <2> req \in Nat
    BY <1>1 DEF AViews
  <2> HIDE DEF req
  <2>2. b \in AViews /\ SamePlace(a, b) /\ SameLoad(a, b) /\ b.made = a.made
    BY <1>1 DEF AViews, SamePlace, SameLoad
  <2>3. a.rev \in ARevisions
    BY <1>1 DEF AViews
  <2> HIDE DEF k, b
  <2>4. \A m \in k.send : MsgIsOK(m) /\ m.type # "picked"
    BY <2>1, <2>3 DEF MsgIsOK
  <2>5. ~b.editing
    BY <1>3, <2>2 DEF SamePlace
  <2>6. Sane(b)
    BY <1>1, <2>2, <2>5, SaneKeeps DEF SamePlace, SameLoad
  <2>7. Outcome(a, k) /\ FocusStays(a, k) /\ LoadStays(a, k)
    BY <2>1, <2>2, <2>4, <2>6, SamePlaceStays, SameLoadStays DEF Outcome, SamePlace
  <2> QED BY <2>7 DEF k
<1> QED BY <1>2, <1>3

\* A revision is asked for unless something is being written: b is the view before with a focus
\* that is to be found there.
LEMMA SelectRevisionStep ==
  ASSUME NEW a, Sane(a), NEW rev \in ARevisions
  PROVE  LET k == selectRevision(a, rev)
         IN  /\ Outcome(a, k) /\ LoadStays(a, k) /\ FocusStays(a, k)
             /\ k.a.items = a.items /\ k.a.editing = a.editing /\ k.a.rev = a.rev /\ k.a.file = a.file
             /\ k.a.cursor = a.cursor /\ k.a.anchor = a.anchor
             /\ rev # a.rev /\ ~a.editing => FocusSettled(k)
<1> DEFINE k == selectRevision(a, rev)
           req == a.nextReq + 1
           b == [a EXCEPT !.targetsReq = 0, !.nextReq = req, !.loadReq = req, !.loadingRev = rev]
<1>1. a \in AViews /\ a.cursor > 0 /\ (a.editing => HasFile(a)) /\ PathsDiffer(a.files) /\ (a.loading => a.files = <<>>)
  BY DEF Sane
<1>2. rev # 0
  BY AnnotationAssumption
<1>3. CASE rev \in {a.rev, a.loadingRev} \/ a.editing
  <2>1. k.a = a /\ k.send = {}
    BY <1>3 DEF selectRevision, AOut
  <2> HIDE DEF k
  <2>2. Outcome(a, k) /\ FocusStays(a, k) /\ LoadStays(a, k)
    BY <2>1, SameStep
  <2>3. rev # a.rev /\ ~a.editing => FocusSettled(k)
    <3>1. rev # a.rev /\ ~a.editing => a.loadingRev # 0
      BY <1>2, <1>3
    <3> QED BY <2>1, <3>1 DEF FocusSettled, FocusIsIn
  <2> QED BY <2>1, <2>2, <2>3 DEF k
<1>4. CASE ~(rev \in {a.rev, a.loadingRev} \/ a.editing)
  <2>1. k.a = b
    BY <1>1, <1>4 DEF selectRevision, loadRevision, AOut, AViews
  <2>2. k.send = {[AMsg("revision") EXCEPT !.rev = rev, !.req = req, !.full = a.pres = "file"]}
    BY <1>4 DEF selectRevision, loadRevision, AOut
  <2>3. \A m \in k.send : m.type = "revision" /\ m.rev = rev /\ m.req = req
    BY <2>2 DEF AMsg
  <2>4. req \in Nat
    BY <1>1 DEF AViews
  <2> HIDE DEF req
  <2>5. b \in AViews
    BY <1>1, <2>4 DEF AViews
  <2>6. b.loadReq = req /\ b.loadingRev = rev /\ b.editing = a.editing /\ b.items = a.items /\ b.files = a.files
        /\ b.file = a.file /\ b.cursor = a.cursor /\ b.anchor = a.anchor /\ b.rev = a.rev /\ b.made = a.made
        /\ b.loading = a.loading
    BY <1>1 DEF AViews
  <2> HIDE DEF k, b
  <2>7. \A m \in k.send : MsgIsOK(m) /\ m.type # "picked"
    BY <2>3 DEF MsgIsOK
  <2>8. ~b.editing
    BY <1>4, <2>6
  <2>9. Sane(b)
    BY <1>1, <2>5, <2>6, <2>8, SaneKeeps
  <2>10. FocusSettled(k)
    BY <1>2, <2>1, <2>6, <2>8 DEF FocusSettled, FocusIsIn
  <2>11. LoadStays(a, k)
    <3>1. \E m \in k.send : m.type = "revision" /\ m.rev = rev /\ m.req = req
      BY <2>2, <2>3 DEF k
    <3> QED BY <1>2, <2>1, <2>6, <3>1 DEF LoadStays, LoadIsIn
  <2>12. Outcome(a, k) /\ FocusStays(a, k)
    BY <2>1, <2>6, <2>7, <2>9, <2>10, SettledStays DEF Outcome
  <2> QED BY <2>1, <2>6, <2>10, <2>11, <2>12 DEF k
<1> QED BY <1>3, <1>4

\* The comments at the cursor.
LEMMA HereIs ==
  ASSUME NEW a, Sane(a)
  PROVE  /\ annotationAtCursor(a) \subseteq {n \in a.items : AnnotationContains(a, a.cursor, n)}
         /\ \A n \in a.items : n \in AComment /\ n.id \in Nat \ {0} /\ Find(a, n.id) = {n}
<1>1. annotationAtCursor(a) \subseteq {n \in a.items : AnnotationContains(a, a.cursor, n)}
  BY DEF annotationAtCursor, Focused, Find
<1>2. a.items \subseteq AComment /\ a.made \in Nat
  BY DEF Sane, AViews
<1>3. \A n \in a.items : n.id \in 1 .. a.made /\ Find(a, n.id) = {n}
  BY DEF Sane, CommentsAreApart
<1>4. \A n \in a.items : n.id \in Nat \ {0}
  BY <1>2, <1>3
<1> QED BY <1>1, <1>2, <1>3, <1>4

\* The one element of a set is in it.
LEMMA OneOf == ASSUME NEW S, Cardinality(S) = 1 PROVE (CHOOSE n \in S : TRUE) \in S
<1>1. S # {}
  BY FS_EmptySet
<1> QED BY <1>1

\* A line to comment on is a line of a file.
LEMMA CommentableHere ==
  ASSUME NEW a, a \in AViews, NEW i, Commentable(a, i)
  PROVE  HasFile(a)
BY SourceTyped DEF Commentable

\* annotationAdd: the focus is on the one comment here, or on none.
LEMMA AddStep ==
  ASSUME NEW a, Sane(a)
  PROVE  LET k == annotationAdd(a)
         IN  Outcome(a, k) /\ FocusStays(a, k) /\ LoadStays(a, k)
<1> DEFINE k == annotationAdd(a)
           here == annotationAtCursor(a)
<1>1. a \in AViews /\ a.cursor > 0 /\ PathsDiffer(a.files) /\ (a.loading => a.files = <<>>)
  BY DEF Sane
<1>2. here \subseteq {n \in a.items : AnnotationContains(a, a.cursor, n)}
  BY HereIs
<1>3. CASE Cardinality(here) = 1
  <2> DEFINE n == CHOOSE n \in here : TRUE
             b == [a EXCEPT !.focus = n.id, !.editing = TRUE]
  <2>1. n \in here
    BY <1>3, OneOf
  <2>2. k.a = b /\ k.send = {}
    BY <1>3, <2>1 DEF annotationAdd, AOut
  <2> HIDE DEF here, n
  <2>3. n \in a.items /\ AnnotationContains(a, a.cursor, n) /\ n.id \in Nat /\ Find(a, n.id) = {n}
    BY <1>2, <2>1, HereIs
  <2>4. b \in AViews
    BY <1>1, <2>3 DEF AViews
  <2>5. b.focus = n.id /\ b.items = a.items /\ b.files = a.files /\ b.file = a.file /\ b.pres = a.pres
        /\ b.made = a.made /\ b.cursor = a.cursor /\ SameLoad(a, b)
    BY <1>1 DEF AViews, SameLoad
  <2> HIDE DEF k, b
  <2>6. HasFile(b) /\ HasFile(a)
    BY <2>3, <2>5 DEF AnnotationContains, IsHere, HasFile
  <2>7. Sane(b)
    BY <1>1, <2>4, <2>5, <2>6, SaneKeeps DEF SameLoad
  <2>8. AnnotationContains(b, b.cursor, n)
    <3>1. File(b) = File(a) /\ SourceLen(b) = SourceLen(a)
      BY <2>5 DEF File, SourceLen, HasFile
    <3> QED BY <2>3, <2>5, <2>6, <3>1 DEF AnnotationContains, IsHere, AnnotationLines, SameLoad
  <2>9. Focused(b) # {}
    BY <2>3, <2>5, <2>8 DEF Focused, Find
  <2>10. Outcome(a, k) /\ FocusStays(a, k) /\ LoadStays(a, k)
    BY <2>2, <2>5, <2>7, <2>9, NoFocusSettled, SettledStays, SameLoadStays DEF Outcome
  <2> QED BY <2>10 DEF k
<1>4. CASE Cardinality(here) # 1 /\ here = {}
  <2>1. CASE Commentable(a, a.cursor)
    <3> DEFINE b == [clearFocus(a) EXCEPT !.editing = TRUE]
    <3>1. k.a = b /\ k.send = {}
      BY <1>4, <2>1 DEF annotationAdd, AOut
    <3>2. b \in AViews /\ b.focus = 0
      BY <1>1 DEF AViews, clearFocus
    <3>3. b.items = a.items /\ b.files = a.files /\ b.file = a.file /\ b.made = a.made /\ b.cursor = a.cursor /\ SameLoad(a, b)
      BY <1>1 DEF AViews, clearFocus, SameLoad
    <3> HIDE DEF k, b
    <3>4. HasFile(b)
      BY <1>1, <2>1, <3>3, CommentableHere DEF HasFile
    <3>5. Sane(b)
      BY <1>1, <3>2, <3>3, <3>4, SaneKeeps DEF SameLoad
    <3>6. Outcome(a, k) /\ FocusStays(a, k) /\ LoadStays(a, k)
      BY <3>1, <3>2, <3>3, <3>5, NoFocusSettled, SettledStays, SameLoadStays DEF Outcome
    <3> QED BY <3>6 DEF k
  <2>2. CASE ~Commentable(a, a.cursor)
    <3>1. k.a = a /\ k.send = {}
      BY <1>4, <2>2 DEF annotationAdd, AOut
    <3> HIDE DEF k
    <3>2. Outcome(a, k) /\ FocusStays(a, k) /\ LoadStays(a, k)
      BY <3>1, SameStep
    <3> QED BY <3>2 DEF k
  <2> QED BY <2>1, <2>2
<1>5. CASE ~(Cardinality(here) = 1) /\ here # {}
  <2>1. k = OpenPicker(a, "comment", {n.id : n \in here})
    BY <1>5 DEF annotationAdd
  <2>2. {n.id : n \in here} \subseteq Nat
    BY <1>2, HereIs
  <2> QED BY <2>1, <2>2, PickerSound
<1> QED BY <1>3, <1>4, <1>5

\* annotationDelete: the focus does not stay on what is gone.
LEMMA DeleteStep ==
  ASSUME NEW a, Sane(a)
  PROVE  LET k == annotationDelete(a)
         IN  Outcome(a, k) /\ FocusStays(a, k) /\ LoadStays(a, k)
<1> DEFINE k == annotationDelete(a)
           here == annotationAtCursor(a)
<1>1. a \in AViews /\ a.cursor > 0 /\ (a.editing => HasFile(a)) /\ PathsDiffer(a.files) /\ (a.loading => a.files = <<>>)
  BY DEF Sane
<1>2. here \subseteq {n \in a.items : AnnotationContains(a, a.cursor, n)}
  BY HereIs
<1>3. CASE Cardinality(here) = 1
  <2> DEFINE id == (CHOOSE n \in here : TRUE).id
             e == clearFocus(a)
             b == storeRemove(e, id)
  <2>1. k.a = b /\ k.send = {}
    BY <1>3 DEF annotationDelete, AOut
  <2> HIDE DEF id
  <2>2. b \in AViews /\ b.focus = 0
    BY <1>1 DEF AViews, clearFocus, storeRemove, Find
  <2>3. b.items \subseteq a.items /\ b.files = a.files /\ b.file = a.file /\ b.made = a.made /\ b.cursor = a.cursor
        /\ b.editing = a.editing /\ SameLoad(a, b)
    BY <1>1 DEF AViews, clearFocus, storeRemove, Find, SameLoad
  <2> HIDE DEF k, b
  <2>4. b.editing => HasFile(b)
    BY <1>1, <2>3 DEF HasFile
  <2>5. Sane(b)
    BY <1>1, <2>2, <2>3, <2>4, SaneKeeps DEF SameLoad
  <2>6. Outcome(a, k) /\ FocusStays(a, k) /\ LoadStays(a, k)
    BY <2>1, <2>2, <2>3, <2>5, NoFocusSettled, SettledStays, SameLoadStays DEF Outcome
  <2> QED BY <2>6 DEF k
<1>4. CASE Cardinality(here) # 1
  <2>1. k = OpenPicker(a, "comment", {n.id : n \in here})
    BY <1>4 DEF annotationDelete
  <2>2. {n.id : n \in here} \subseteq Nat
    BY <1>2, HereIs
  <2> QED BY <2>1, <2>2, PickerSound
<1> QED BY <1>3, <1>4

\* Every key of the view.
LEMMA ViewKeyStep ==
  ASSUME NEW a, Sane(a), NEW k \in ViewKeys(a)
  PROVE  Outcome(a, k) /\ FocusStays(a, k) /\ LoadStays(a, k)
<1>1. a \in AViews /\ a.cursor > 0 /\ (a.editing => HasFile(a)) /\ PathsDiffer(a.files) /\ (a.loading => a.files = <<>>)
  BY DEF Sane
<1>2. \/ \E direction \in {-1, 1}, selecting \in BOOLEAN : k = AOut(moveCursor(a, direction, selecting), {})
      \/ \E last \in BOOLEAN : k = AOut(moveBoundary(a, last), {})
      \/ \E delta \in {-1, 1} : k = navigateFile(a, delta)
      \/ k = OpenPicker(a, "file", IF a.loading THEN {} ELSE {a.files[i].path : i \in DOMAIN a.files})
      \/ k = OpenPicker(a, "comment", {n.id : n \in a.items})
      \/ k = navigateRevision(a) \/ k = togglePresentation(a) \/ k = annotationAdd(a) \/ k = annotationDelete(a)
      \/ k = AOut(storeClear(clearFocus(a)), {})
      \/ k = AOut(IF a.items = {} THEN a ELSE [a EXCEPT !.dirty = FALSE], {})
      \/ k = AOut(a, {AMsg("close")})
  BY DEF ViewKeys
<1>3. CASE \E direction \in {-1, 1}, selecting \in BOOLEAN : k = AOut(moveCursor(a, direction, selecting), {})
  BY <1>3, MoveStep
<1>4. CASE \E last \in BOOLEAN : k = AOut(moveBoundary(a, last), {})
  BY <1>4, BoundaryStep
<1>5. CASE \E delta \in {-1, 1} : k = navigateFile(a, delta)
  BY <1>5, NavigateFileStep
<1>6. CASE k = OpenPicker(a, "file", IF a.loading THEN {} ELSE {a.files[i].path : i \in DOMAIN a.files})
  BY <1>6, PickerSound
<1>7. CASE k = OpenPicker(a, "comment", {n.id : n \in a.items})
  <2>1. {n.id : n \in a.items} \subseteq Nat
    BY HereIs
  <2> QED BY <1>7, <2>1, PickerSound
<1>8. CASE k = navigateRevision(a) \/ k = togglePresentation(a) \/ k = annotationAdd(a) \/ k = annotationDelete(a)
  BY <1>8, TargetsStep, ToggleStep, AddStep, DeleteStep
<1>9. CASE k = AOut(storeClear(clearFocus(a)), {})
  <2> DEFINE b == storeClear(clearFocus(a))
  <2>1. k.a = b /\ k.send = {}
    BY <1>9 DEF AOut
  <2>2. b \in AViews /\ b.focus = 0 /\ b.items = {}
    BY <1>1 DEF AViews, clearFocus, storeClear
  <2>3. b.files = a.files /\ b.file = a.file /\ b.made = a.made /\ b.cursor = a.cursor /\ b.editing = a.editing /\ SameLoad(a, b)
    BY <1>1 DEF AViews, clearFocus, storeClear, SameLoad
  <2> HIDE DEF b
  <2>4. b.editing => HasFile(b)
    BY <1>1, <2>3 DEF HasFile
  <2>5. Sane(b)
    BY <1>1, <2>2, <2>3, <2>4, SaneKeeps DEF SameLoad
  <2> QED BY <2>1, <2>2, <2>3, <2>5, NoFocusSettled, SettledStays, SameLoadStays DEF Outcome
<1>10. CASE k = AOut(IF a.items = {} THEN a ELSE [a EXCEPT !.dirty = FALSE], {})
  <2> DEFINE b == [a EXCEPT !.dirty = FALSE]
  <2>1. (k.a = b \/ k.a = a) /\ k.send = {}
    BY <1>10 DEF AOut
  <2>2. b \in AViews /\ SamePlace(a, b) /\ SameLoad(a, b) /\ b.made = a.made
    BY <1>1 DEF AViews, SamePlace, SameLoad
  <2> HIDE DEF b
  <2>3. b.editing => HasFile(b)
    BY <1>1, <2>2 DEF HasFile, SamePlace
  <2>4. Sane(b)
    BY <1>1, <2>2, <2>3, SaneKeeps DEF SamePlace, SameLoad
  <2>5. CASE k.a = a
    BY <2>1, <2>5, SameStep
  <2>6. CASE k.a = b
    BY <2>1, <2>2, <2>4, <2>6, SamePlaceStays, SameLoadStays DEF Outcome, SamePlace
  <2> QED BY <2>1, <2>5, <2>6
<1>11. CASE k = AOut(a, {AMsg("close")})
  <2>1. k.a = a /\ k.send = {AMsg("close")}
    BY <1>11 DEF AOut
  <2>2. AMsg("close").type = "close"
    BY DEF AMsg
  <2>3. \A m \in k.send : MsgIsOK(m) /\ m.type # "picked"
    BY <2>1, <2>2 DEF MsgIsOK
  <2> QED BY <2>1, <2>3, SameStep
<1> QED BY <1>2, <1>3, <1>4, <1>5, <1>6, <1>7, <1>8, <1>9, <1>10, <1>11

\* The range of some numbers holds each of them that is one.
LEMMA ExtentHolds ==
  ASSUME NEW S, S \subseteq Nat, IsFiniteSet(S)
  PROVE  /\ Extent(S) \in Nat \X Nat /\ IsRange(Extent(S))
         /\ \A x \in S : x # 0 => lineInRange(x, Extent(S))
<1> DEFINE T == S \ {0}
<1>1. T \subseteq Nat /\ IsFiniteSet(T)
  BY FS_Subset
<1>2. \A x \in S : x # 0 => x \in T
  OBVIOUS
<1>3. 0 \notin T
  OBVIOUS
<1>4. Extent(S) = IF T = {} THEN <<0, 0>> ELSE <<Min(T), Max(T)>>
  BY DEF Extent
<1> HIDE DEF T
<1>5. CASE T = {}
  BY <1>2, <1>4, <1>5 DEF IsRange
<1>6. CASE T # {}
  <2>1. Min(T) \in T /\ Max(T) \in T /\ \A y \in T : Min(T) <= y /\ y <= Max(T)
    BY <1>1, <1>6, MinMaxOf
  <2> DEFINE lo == Min(T) hi == Max(T)
  <2>a. lo \in T /\ hi \in T /\ \A y \in T : lo <= y /\ y <= hi
    BY <2>1
  <2>b. lo # 0
    BY <1>3, <2>a
  <2>3. Extent(S) = <<lo, hi>>
    BY <1>4, <1>6
  <2> HIDE DEF lo, hi
  <2>2. lo \in Nat /\ hi \in Nat /\ lo > 0 /\ lo <= hi /\ \A y \in T : lo <= y /\ y <= hi
    <3>1. lo \in Nat /\ hi \in Nat
      BY <1>1, <2>a
    <3> QED BY <2>a, <2>b, <3>1
  <2>4. IsRange(<<lo, hi>>)
    BY <2>2 DEF IsRange
  <2>5. \A x \in T : x > 0 /\ lineInRange(x, <<lo, hi>>)
    BY <1>1, <1>3, <2>2 DEF lineInRange
  <2> QED BY <1>2, <2>2, <2>3, <2>4, <2>5
<1> QED BY <1>5, <1>6

\* Where a comment is about: nowhere if the lines are not all there, and otherwise a range of
\* lines in order that holds each line that can be commented on.
LEMMA LocationHolds ==
  ASSUME NEW a \in AViews, HasFile(a), NEW from \in Nat \ {0}, NEW to \in Nat, from <= to
  PROVE  LET where == AnnotationLocation(a, from, to)
         IN  /\ where.old \in Nat \X Nat /\ where.new \in Nat \X Nat /\ IsRange(where.old) /\ IsRange(where.new)
             /\ to > SourceLen(a) => where.old = <<0, 0>> /\ where.new = <<0, 0>>
             /\ to <= SourceLen(a) => \A i \in from .. to : Commentable(a, i) =>
                  IF a.pres = "file" THEN lineInRange(i, IF File(a).deleted THEN where.old ELSE where.new)
                  ELSE lineInRange(File(a).lines[i][2], where.new) \/ lineInRange(File(a).lines[i][1], where.old)
<1> DEFINE where == AnnotationLocation(a, from, to)
<1>1. SourceLen(a) \in Nat /\ File(a) \in AFile
  BY SourceTyped
<1>2. IsRange(<<0, 0>>) /\ <<0, 0>> \in Nat \X Nat
  BY DEF IsRange
<1>3. IsRange(<<from, to>>) /\ <<from, to>> \in Nat \X Nat
  BY DEF IsRange
<1>4. CASE to > SourceLen(a)
  <2>1. where.old = <<0, 0>> /\ where.new = <<0, 0>>
    BY <1>4 DEF AnnotationLocation
  <2>2. ~(to <= SourceLen(a))
    BY <1>1, <1>4
  <2> HIDE DEF where
  <2>3. /\ where.old \in Nat \X Nat /\ where.new \in Nat \X Nat /\ IsRange(where.old) /\ IsRange(where.new)
    BY <1>2, <2>1
  <2> QED BY <2>1, <2>2, <2>3 DEF where
<1>5. CASE ~(to > SourceLen(a)) /\ a.pres = "file"
  <2>1. \A i \in from .. to : lineInRange(i, <<from, to>>)
    BY DEF lineInRange
  <2>2. \/ File(a).deleted /\ where.old = <<from, to>> /\ where.new = <<0, 0>>
        \/ ~File(a).deleted /\ where.old = <<0, 0>> /\ where.new = <<from, to>>
    BY <1>5 DEF AnnotationLocation
  <2> HIDE DEF where
  <2>3. /\ where.old \in Nat \X Nat /\ where.new \in Nat \X Nat /\ IsRange(where.old) /\ IsRange(where.new)
    BY <1>2, <1>3, <2>2
  <2>4. \A i \in from .. to : lineInRange(i, IF File(a).deleted THEN where.old ELSE where.new)
    BY <2>1, <2>2
  <2> QED BY <1>5, <2>3, <2>4 DEF where
<1>6. CASE ~(to > SourceLen(a)) /\ a.pres # "file"
  <2> DEFINE lines == {File(a).lines[i] : i \in from .. to}
             olds == {l[1] : l \in lines}
             news == {l[2] : l \in lines}
  <2>1. where.old = Extent(olds) /\ where.new = Extent(news)
    BY <1>6 DEF AnnotationLocation
  <2>2. File(a).lines \in Seq(Nat \X Nat) /\ SourceLen(a) = Len(File(a).lines) /\ to <= SourceLen(a)
    BY <1>1, <1>6 DEF AFile, SourceLen
  <2>3. \A i \in from .. to : i \in 1 .. Len(File(a).lines) /\ File(a).lines[i] \in Nat \X Nat
    <3> DEFINE s == File(a).lines
    <3>1. s \in Seq(Nat \X Nat) /\ to <= Len(s) /\ Len(s) \in Nat
      BY <2>2
    <3> HIDE DEF s
    <3>2. \A i \in from .. to : i \in 1 .. Len(s)
      BY <3>1
    <3>3. \A i \in 1 .. Len(s) : s[i] \in Nat \X Nat
      BY <3>1
    <3> QED BY <3>2, <3>3 DEF s
  <2>4. IsFiniteSet(from .. to)
    BY FS_Interval
  <2> DEFINE old == [i \in from .. to |-> File(a).lines[i][1]]
             new == [i \in from .. to |-> File(a).lines[i][2]]
  <2>5. old \in Surjection(from .. to, olds) /\ new \in Surjection(from .. to, news)
    <3>1. old \in [from .. to -> olds] /\ new \in [from .. to -> news]
      OBVIOUS
    <3>2. (\A x \in olds : \E i \in from .. to : old[i] = x) /\ (\A x \in news : \E i \in from .. to : new[i] = x)
      OBVIOUS
    <3> QED BY <3>1, <3>2, Zenon DEF Surjection
  <2>6. IsFiniteSet(olds) /\ IsFiniteSet(news)
    <3> HIDE DEF old, new, olds, news
    <3> QED BY <2>4, <2>5, FS_Surjection
  <2>7. olds \subseteq Nat /\ news \subseteq Nat
    BY <2>3
  <2>8. \A i \in from .. to : File(a).lines[i][1] \in olds /\ File(a).lines[i][2] \in news
    OBVIOUS
  <2> HIDE DEF where, olds, news, lines
  <2>9. /\ where.old \in Nat \X Nat /\ IsRange(where.old) /\ \A x \in olds : x # 0 => lineInRange(x, where.old)
        /\ where.new \in Nat \X Nat /\ IsRange(where.new) /\ \A x \in news : x # 0 => lineInRange(x, where.new)
    BY <2>1, <2>6, <2>7, ExtentHolds
  <2>10. ASSUME NEW i \in from .. to, Commentable(a, i)
         PROVE  lineInRange(File(a).lines[i][2], where.new) \/ lineInRange(File(a).lines[i][1], where.old)
    <3>1. File(a).lines[i] # <<0, 0>>
      BY <1>6, <2>10 DEF Commentable, AViews
    <3>2. File(a).lines[i][1] # 0 \/ File(a).lines[i][2] # 0
      BY <2>3, <2>10, <3>1
    <3> QED BY <2>8, <2>9, <2>10, <3>2
  <2> QED BY <1>6, <2>9, <2>10 DEF where
<1> QED BY <1>4, <1>5, <1>6

\* The editor is closed where it is.
LEMMA CloseEditorIs ==
  ASSUME NEW a, Sane(a), a.editing
  PROVE  LET b == [a EXCEPT !.editing = FALSE, !.anchor = 0]
             k == AOut(b, {})
         IN  /\ Sane(b) /\ b.items = a.items /\ b.made = a.made /\ SameLoad(a, b) /\ b.focus = a.focus /\ ~b.editing
             /\ b.rev = a.rev /\ b.files = a.files /\ b.file = a.file /\ b.pres = a.pres /\ b.cursor = a.cursor
             /\ Outcome(a, k) /\ FocusStays(a, k) /\ LoadStays(a, k)
<1> DEFINE b == [a EXCEPT !.editing = FALSE, !.anchor = 0]
           k == AOut(b, {})
<1>1. a \in AViews /\ a.cursor > 0 /\ (a.editing => HasFile(a)) /\ PathsDiffer(a.files) /\ (a.loading => a.files = <<>>)
  BY DEF Sane
<1>2. b \in AViews /\ ~b.editing
  BY <1>1 DEF AViews
<1>3. b.items = a.items /\ b.made = a.made /\ SameLoad(a, b) /\ b.focus = a.focus
      /\ b.rev = a.rev /\ b.files = a.files /\ b.file = a.file /\ b.pres = a.pres /\ b.cursor = a.cursor
  BY <1>1 DEF AViews, SameLoad
<1> HIDE DEF b
<1>4. Sane(b)
  BY <1>1, <1>2, <1>3, SaneKeeps DEF SameLoad
<1>5. k.a = b /\ k.send = {}
  BY DEF AOut
<1> HIDE DEF k
<1>6. Focused(b) = Focused(a)
  <2>1. File(b) = File(a) /\ HasFile(b) = HasFile(a)
    BY <1>3 DEF File, HasFile
  <2>2. SourceLen(b) = SourceLen(a)
    BY <1>3, <2>1 DEF SourceLen
  <2>3. \A n : AnnotationContains(b, b.cursor, n) = AnnotationContains(a, a.cursor, n)
    BY <1>3, <2>1, <2>2 DEF AnnotationContains, IsHere, AnnotationLines
  <2> QED BY <1>3, <2>3 DEF Focused, Find
<1>7. FocusStays(a, k) /\ LoadStays(a, k)
  <2>1. FocusStays(a, k)
    BY <1>3, <1>5, <1>6 DEF FocusStays, FocusIsIn
  <2> QED BY <1>3, <1>5, <2>1, SameLoadStays
<1>8. Outcome(a, k)
  BY <1>3, <1>4, <1>5 DEF Outcome
<1> QED BY <1>2, <1>3, <1>4, <1>7, <1>8 DEF b, k

\* The lines that a comment is added for.
MarkedLines(a) ==
  {i \in 1 .. SourceLen(a) : Commentable(a, i) /\
     \/ i = a.cursor
     \/ a.anchor # 0 /\ Min({a.anchor, a.cursor}) <= i /\ i <= Max({a.anchor, a.cursor})}

\* A comment is at each line that was marked for it, or at none if the mark is too long.
FoundIn(a, b, n) ==
  IF Max({a.anchor, a.cursor}) <= SourceLen(a) THEN \A i \in MarkedLines(a) : AnnotationContains(b, i, n)
  ELSE Locations(n) = {}

\* A new comment is at each line marked for it, or at none if the mark is too long.
LEMMA NewCommentFound ==
  ASSUME NEW a, Sane(a), a.editing, NEW b \in AViews, b.rev = a.rev, b.files = a.files, b.file = a.file, b.pres = a.pres
  PROVE  LET n == newAnnotation(a)
         IN  /\ n \in AComment /\ n.id = 0 /\ IsRange(n.old) /\ IsRange(n.new)
             /\ FoundIn(a, b, [n EXCEPT !.id = a.made + 1])
<1> DEFINE n == newAnnotation(a)
           nn == [n EXCEPT !.id = a.made + 1]
           at == IF a.anchor = 0 THEN a.cursor ELSE a.anchor
           from == Min({at, a.cursor})
           to == Max({at, a.cursor})
           where == AnnotationLocation(a, from, to)
<1>1. a \in AViews /\ HasFile(a) /\ a.cursor > 0 /\ a.cursor \in Nat /\ a.anchor \in Nat /\ a.rev \in ARevisions /\ a.made \in Nat
  BY DEF Sane, AViews
<1>2. at \in Nat /\ at > 0
  BY <1>1
<1>3. from = (IF at <= a.cursor THEN at ELSE a.cursor) /\ to = (IF at <= a.cursor THEN a.cursor ELSE at)
  <2> HIDE DEF at
  <2> QED BY <1>1, <1>2, MinMaxOfTwo
<1>4. Max({a.anchor, a.cursor}) = (IF a.anchor <= a.cursor THEN a.cursor ELSE a.anchor)
      /\ Min({a.anchor, a.cursor}) = (IF a.anchor <= a.cursor THEN a.anchor ELSE a.cursor)
  BY <1>1, MinMaxOfTwo
<1>5. n = [id |-> 0, rev |-> a.rev, path |-> File(a).path, old |-> where.old, new |-> where.new]
  BY DEF newAnnotation
<1> HIDE DEF from, to
<1>6. from \in Nat \ {0} /\ to \in Nat /\ from <= to
  <2> HIDE DEF at
  <2> QED BY <1>1, <1>2, <1>3
<1>7. File(a) \in AFile /\ SourceLen(a) \in Nat
  BY <1>1, SourceTyped
<1>8. /\ where.old \in Nat \X Nat /\ where.new \in Nat \X Nat /\ IsRange(where.old) /\ IsRange(where.new)
      /\ to > SourceLen(a) => where.old = <<0, 0>> /\ where.new = <<0, 0>>
      /\ to <= SourceLen(a) => \A i \in from .. to : Commentable(a, i) =>
           IF a.pres = "file" THEN lineInRange(i, IF File(a).deleted THEN where.old ELSE where.new)
           ELSE lineInRange(File(a).lines[i][2], where.new) \/ lineInRange(File(a).lines[i][1], where.old)
  BY <1>1, <1>6, LocationHolds
<1> HIDE DEF where, at
<1>9. n \in AComment /\ n.id = 0 /\ n.old = where.old /\ n.new = where.new
  BY <1>1, <1>5, <1>7, <1>8 DEF AComment, AFile
<1>10. nn.rev = a.rev /\ nn.path = File(a).path /\ nn.old = where.old /\ nn.new = where.new
  BY <1>5
<1>11. to = Max({a.anchor, a.cursor}) /\ MarkedLines(a) \subseteq from .. to
  <2>1. CASE a.anchor = 0
    <3>1. at = a.cursor
      BY <2>1 DEF at
    <3>2. to = a.cursor /\ from = a.cursor /\ Max({a.anchor, a.cursor}) = a.cursor
      BY <1>1, <1>3, <1>4, <2>1, <3>1
    <3>3. \A i \in MarkedLines(a) : i = a.cursor
      BY <2>1 DEF MarkedLines
    <3> QED BY <1>1, <3>2, <3>3
  <2>2. CASE a.anchor # 0
    <3>1. at = a.anchor
      BY <2>2 DEF at
    <3>2. to = Max({a.anchor, a.cursor}) /\ from = Min({a.anchor, a.cursor}) /\ from <= a.cursor /\ a.cursor <= to
      BY <1>1, <1>3, <1>4, <3>1
    <3>3. \A i \in MarkedLines(a) : i \in Int /\ (i = a.cursor \/ (from <= i /\ i <= to))
      BY <1>7, <3>2 DEF MarkedLines
    <3> QED BY <1>1, <1>6, <3>2, <3>3
  <2> QED BY <2>1, <2>2
<1> HIDE DEF n, nn
<1>12. CASE to <= SourceLen(a)
  <2>1. File(b) = File(a) /\ HasFile(b) /\ SourceLen(b) = SourceLen(a)
    BY <1>1 DEF File, HasFile, SourceLen
  <2>2. ASSUME NEW i \in MarkedLines(a) PROVE AnnotationContains(b, i, nn)
    <3>1. Commentable(a, i) /\ i \in 1 .. SourceLen(a) /\ i \in from .. to
      BY <1>11 DEF MarkedLines
    <3>2. IF a.pres = "file" THEN lineInRange(i, IF File(a).deleted THEN where.old ELSE where.new)
          ELSE lineInRange(File(a).lines[i][2], where.new) \/ lineInRange(File(a).lines[i][1], where.old)
      BY <1>8, <1>12, <3>1
    <3> QED BY <1>10, <2>1, <3>1, <3>2 DEF AnnotationContains, IsHere, AnnotationLines
  <2>3. FoundIn(a, b, nn)
    BY <1>11, <1>12, <2>2 DEF FoundIn
  <2> QED BY <1>8, <1>9, <2>3 DEF n, nn
<1>13. CASE ~(to <= SourceLen(a))
  <2>1. nn.old = <<0, 0>> /\ nn.new = <<0, 0>>
    BY <1>6, <1>7, <1>8, <1>10, <1>13
  <2>2. Locations(nn) = {}
    BY <2>1 DEF Locations
  <2>3. FoundIn(a, b, nn)
    BY <1>11, <1>13, <2>2 DEF FoundIn
  <2> QED BY <1>8, <1>9, <2>3 DEF n, nn
<1> QED BY <1>12, <1>13

\* storeAdd gives the comment an id that no other has.
LEMMA AddSane ==
  ASSUME NEW b, Sane(b), ~b.editing, ~b.loading, NEW n \in AComment, IsRange(n.old), IsRange(n.new)
  PROVE  LET c == storeAdd(b, n)
         IN  /\ Sane(c) /\ SameLoad(b, c) /\ c.focus = b.focus /\ c.rev = b.rev /\ c.files = b.files
             /\ c.file = b.file /\ c.pres = b.pres /\ c.items = b.items \cup {[n EXCEPT !.id = b.made + 1]}
<1> DEFINE c == storeAdd(b, n)
           id == b.made + 1
           nn == [n EXCEPT !.id = id]
<1>1. b \in AViews /\ b.cursor > 0 /\ PathsDiffer(b.files) /\ b.made \in Nat /\ CommentsAreApart(b)
  BY DEF Sane, AViews
<1>2. id \in Nat
  BY <1>1
<1>3. nn \in AComment /\ nn.id = id /\ nn.old = n.old /\ nn.new = n.new
  BY <1>2 DEF AComment
<1>4. c = [b EXCEPT !.items = @ \cup {nn}, !.made = @ + 1, !.dirty = TRUE]
  BY DEF storeAdd
<1>5. c = [b EXCEPT !.items = b.items \cup {nn}, !.made = id, !.dirty = TRUE]
  BY <1>1, <1>4 DEF AViews
<1>6. \A x \in b.items : x.id \in 1 .. b.made /\ Find(b, x.id) = {x} /\ IsRange(x.old) /\ IsRange(x.new)
  BY <1>1 DEF CommentsAreApart
<1>7. \A x \in b.items : x.id # id /\ x.id \in 1 .. id
  BY <1>1, <1>6
<1>8. id \in 1 .. id
  BY <1>1
<1> HIDE DEF c, id, nn
<1>9. c \in AViews /\ c.cursor = b.cursor /\ c.editing = b.editing /\ c.loading = b.loading
  BY <1>1, <1>2, <1>3, <1>5 DEF AViews
<1>10. SameLoad(b, c) /\ c.focus = b.focus /\ c.rev = b.rev /\ c.files = b.files
       /\ c.file = b.file /\ c.pres = b.pres /\ c.items = b.items \cup {nn} /\ c.made = id
  BY <1>1, <1>5 DEF AViews, SameLoad
<1>11. ASSUME NEW x \in c.items
       PROVE  x.id \in 1 .. c.made /\ Find(c, x.id) = {x} /\ IsRange(x.old) /\ IsRange(x.new)
  <2>1. CASE x = nn
    <3>1. Find(c, id) = {nn}
      BY <1>3, <1>7, <1>10 DEF Find
    <3> QED BY <1>3, <1>8, <1>10, <2>1, <3>1
  <2>2. CASE x # nn
    <3>1. x \in b.items
      BY <1>10, <1>11, <2>2
    <3>2. Find(c, x.id) = {x}
      <4>1. Find(b, x.id) = {x} /\ nn.id # x.id
        BY <1>3, <1>6, <1>7, <3>1
      <4> QED BY <1>10, <4>1 DEF Find
    <3> QED BY <1>6, <1>7, <1>10, <3>1, <3>2
  <2> QED BY <2>1, <2>2
<1>12. Sane(c)
  BY <1>1, <1>9, <1>10, <1>11 DEF Sane, CommentsAreApart
<1> QED BY <1>10, <1>12 DEF c, nn, id

\* Every key of the editor: what is added is found where it was marked.
LEMMA EditorKeyStep ==
  ASSUME NEW a, Sane(a), a.editing, NEW k \in EditorKeys(a)
  PROVE  /\ Sane(k.a) /\ k.send = {} /\ FocusStays(a, k) /\ LoadStays(a, k)
         /\ \A n \in k.a.items \ a.items : FoundIn(a, k.a, n)
<1> DEFINE b == [a EXCEPT !.editing = FALSE, !.anchor = 0]
           l == AOut(b, {})
<1>1. /\ Sane(b) /\ b.items = a.items /\ b.made = a.made /\ SameLoad(a, b) /\ b.focus = a.focus /\ ~b.editing
      /\ b.rev = a.rev /\ b.files = a.files /\ b.file = a.file /\ b.pres = a.pres /\ b.cursor = a.cursor
      /\ Outcome(a, l) /\ FocusStays(a, l) /\ LoadStays(a, l)
  BY CloseEditorIs
<1>2. k = l \/ \E empty \in BOOLEAN : k = AOut(saveEditor(a, empty), {})
  BY DEF EditorKeys
<1>3. \A empty \in BOOLEAN : \/ saveEditor(a, empty) = b
                             \/ saveEditor(a, empty) = storeUpdateComment(b, a.focus)
                             \/ a.focus = 0 /\ saveEditor(a, empty) = storeAdd(b, newAnnotation(a))
  BY DEF saveEditor
<1>4. \/ k = l
      \/ k = AOut(storeUpdateComment(b, a.focus), {})
      \/ a.focus = 0 /\ k = AOut(storeAdd(b, newAnnotation(a)), {})
  BY <1>2, <1>3
<1>5. CASE k = l
  <2>1. k.a = b /\ k.send = {}
    BY <1>5 DEF AOut
  <2> HIDE DEF b
  <2> QED BY <1>1, <1>5, <2>1
<1>6. CASE k = AOut(storeUpdateComment(b, a.focus), {})
  <2>1. k.a = storeUpdateComment(b, a.focus) /\ k.send = {}
    BY <1>6 DEF AOut
  <2> HIDE DEF b
  <2> DEFINE c == storeUpdateComment(b, a.focus)
  <2>2. b \in AViews /\ b.cursor > 0 /\ PathsDiffer(b.files) /\ (b.loading => b.files = <<>>)
    BY <1>1 DEF Sane
  <2>3. c \in AViews /\ SamePlace(b, c) /\ SameLoad(b, c) /\ c.made = b.made
    BY <2>2 DEF AViews, SamePlace, SameLoad, storeUpdateComment
  <2> HIDE DEF c
  <2>4. Sane(c)
    BY <1>1, <2>2, <2>3, SaneKeeps DEF SamePlace, SameLoad
  <2>5. SamePlace(b, k.a) /\ SameLoad(b, k.a)
    BY <2>1, <2>3 DEF c
  <2>6. FocusStays(b, k) /\ LoadStays(b, k)
    BY <2>5, SamePlaceStays, SameLoadStays
  <2>7. FocusStays(a, k) /\ LoadStays(a, k)
    <3>1. l.a = b /\ l.send = {}
      BY DEF AOut
    <3> HIDE DEF l
    <3>2. \A msgs : (FocusIsIn(a, msgs) => FocusIsIn(b, msgs)) /\ (LoadIsIn(a, msgs) => LoadIsIn(b, msgs))
      BY <1>1, <3>1 DEF FocusStays, LoadStays
    <3> QED BY <2>6, <3>2, Zenon DEF FocusStays, LoadStays
  <2>8. k.a.items = a.items
    BY <1>1, <2>5 DEF SamePlace
  <2> QED BY <2>1, <2>4, <2>7, <2>8 DEF c
<1>7. CASE a.focus = 0 /\ k = AOut(storeAdd(b, newAnnotation(a)), {})
  <2> DEFINE n == newAnnotation(a)
             c == storeAdd(b, n)
  <2>1. k.a = c /\ k.send = {}
    BY <1>7 DEF AOut
  <2> HIDE DEF b, l, c
  <2>2. ~b.loading /\ a \in AViews
    BY <1>1 DEF Sane, SameLoad, HasFile
  <2>3. n \in AComment /\ IsRange(n.old) /\ IsRange(n.new)
    BY NewCommentFound, <1>1 DEF Sane
  <2>4. /\ Sane(c) /\ SameLoad(b, c) /\ c.focus = b.focus /\ c.rev = b.rev /\ c.files = b.files
        /\ c.file = b.file /\ c.pres = b.pres /\ c.items = b.items \cup {[n EXCEPT !.id = b.made + 1]}
    <3> HIDE DEF n
    <3> QED BY <1>1, <2>2, <2>3, AddSane DEF c
  <2>5. c \in AViews
    BY <2>4 DEF Sane
  <2>6. FoundIn(a, c, [n EXCEPT !.id = a.made + 1])
    BY <1>1, <2>4, <2>5, NewCommentFound
  <2> HIDE DEF n
  <2>7. \A x \in k.a.items \ a.items : FoundIn(a, k.a, x)
    BY <1>1, <2>1, <2>4, <2>6
  <2>8. FocusStays(a, k) /\ LoadStays(a, k)
    BY <1>1, <1>7, <2>1, <2>4, NoFocusSettled, SettledStays, SameLoadStays DEF SameLoad
  <2> QED BY <2>1, <2>4, <2>7, <2>8
<1> QED BY <1>4, <1>5, <1>6, <1>7

\* A line where a comment is shown is one that it is about.
LEMMA AnchorContains ==
  ASSUME NEW a \in AViews, NEW n \in AComment, IsRange(n.old), IsRange(n.new), NEW i \in Anchor(a, n)
  PROVE  i \in 1 .. SourceLen(a) /\ AnnotationContains(a, i, n)
<1>1. IsHere(a, n)
  BY DEF Anchor
<1>2. HasFile(a) /\ File(a) \in AFile /\ SourceLen(a) \in Nat
  BY <1>1, SourceTyped DEF IsHere
<1>3. n.old \in Nat \X Nat /\ n.new \in Nat \X Nat
  BY DEF AComment
<1>4. CASE a.pres = "file"
  <2> DEFINE r == AnnotationLines(a, n)
  <2>1. i = r[2] /\ i \in 1 .. SourceLen(a)
    BY <1>1, <1>4 DEF Anchor
  <2>2. r \in Nat \X Nat /\ IsRange(r)
    BY <1>3 DEF AnnotationLines
  <2>3. lineInRange(i, r)
    <3> HIDE DEF r
    <3>1. r # <<0, 0>>
      BY <1>2, <2>1
    <3>2. 0 < r[1] /\ r[1] <= r[2] /\ r[1] \in Nat /\ r[2] \in Nat
      BY <2>2, <3>1 DEF IsRange
    <3> QED BY <2>1, <3>2 DEF lineInRange
  <2> QED BY <1>1, <1>4, <2>1, <2>3 DEF AnnotationContains
<1>5. CASE a.pres # "file"
  <2> DEFINE line == File(a).lines[i]
  <2>1. i \in DOMAIN File(a).lines
        /\ IF n.new[2] > 0 THEN n.new[2] = line[2] ELSE n.old[2] > 0 /\ n.old[2] = line[1]
    BY <1>1, <1>5 DEF Anchor
  <2>2. File(a).lines \in Seq(Nat \X Nat) /\ SourceLen(a) = Len(File(a).lines)
    BY <1>2, <1>5 DEF AFile, SourceLen
  <2>3. i \in 1 .. SourceLen(a)
    BY <2>1, <2>2
  <2> HIDE DEF line
  <2>4. lineInRange(line[2], n.new) \/ lineInRange(line[1], n.old)
    <3>1. CASE n.new[2] > 0
      <4>1. n.new # <<0, 0>>
        BY <3>1
      <4>2. 0 < n.new[1] /\ n.new[1] <= n.new[2] /\ n.new[1] \in Nat /\ n.new[2] \in Nat
        BY <1>3, <4>1 DEF IsRange
      <4>3. lineInRange(n.new[2], n.new)
        BY <4>2 DEF lineInRange
      <4> QED BY <2>1, <3>1, <4>3
    <3>2. CASE ~(n.new[2] > 0)
      <4>1. n.old # <<0, 0>> /\ n.old[2] = line[1]
        BY <2>1, <3>2
      <4>2. 0 < n.old[1] /\ n.old[1] <= n.old[2] /\ n.old[1] \in Nat /\ n.old[2] \in Nat
        BY <1>3, <4>1 DEF IsRange
      <4>3. lineInRange(n.old[2], n.old)
        BY <4>2 DEF lineInRange
      <4> QED BY <4>1, <4>3
    <3> QED BY <3>1, <3>2
  <2> QED BY <1>1, <1>5, <2>3, <2>4 DEF AnnotationContains, line
<1> QED BY <1>4, <1>5

\* The cursor goes to the focused comment, or the focus is given up.
LEMMA JumpHereStep ==
  ASSUME NEW a, Sane(a), NEW n \in a.items, Find(a, a.focus) = {n}
  PROVE  LET k == AOut(jumpHere(a, n), {})
         IN  /\ Outcome(a, k) /\ FocusSettled(k) /\ SameLoad(a, k.a)
             /\ k.a.editing = a.editing /\ k.a.file = a.file /\ k.a.items = a.items
<1> DEFINE k == AOut(jumpHere(a, n), {})
           c == Min(Anchor(a, n))
           b == [a EXCEPT !.cursor = c, !.anchor = 0]
<1>1. a \in AViews /\ n \in AComment /\ IsRange(n.old) /\ IsRange(n.new)
  BY HereIs DEF Sane, CommentsAreApart
<1>2. k.a = jumpHere(a, n) /\ k.send = {}
  BY DEF AOut
<1>3. CASE Anchor(a, n) = {}
  <2>1. k.a = clearFocus(a)
    BY <1>2, <1>3 DEF jumpHere
  <2> HIDE DEF k
  <2>2. Sane(k.a) /\ k.a.items = a.items /\ SameLoad(a, k.a) /\ k.a.editing = a.editing /\ k.a.file = a.file /\ k.a.focus = 0
    BY <2>1, ClearFocusIs
  <2>3. Outcome(a, k) /\ FocusSettled(k)
    BY <1>2, <2>2, NoFocusSettled DEF Outcome
  <2> QED BY <2>2, <2>3 DEF k
<1>4. CASE Anchor(a, n) # {}
  <2>1. SourceLen(a) \in Nat /\ Anchor(a, n) \subseteq 1 .. SourceLen(a)
    BY <1>1, AnchorContains, SourceTyped
  <2>2. IsFiniteSet(Anchor(a, n)) /\ Anchor(a, n) \subseteq Nat
    <3>1. SourceLen(a) \in Int /\ 1 .. SourceLen(a) \subseteq Nat
      BY <2>1
    <3>2. IsFiniteSet(1 .. SourceLen(a))
      BY <3>1, FS_Interval
    <3>3. IsFiniteSet(Anchor(a, n))
      BY <2>1, <3>2, FS_Subset
    <3> QED BY <2>1, <3>1, <3>3
  <2>3. c \in Anchor(a, n)
    BY <1>4, <2>2, MinMaxOf
  <2>4. AnnotationContains(a, c, n) /\ c \in 1 .. SourceLen(a)
    BY <1>1, <2>3, AnchorContains
  <2>5. c \in Nat \ {0}
    BY <2>1, <2>4
  <2>6. k.a = b
    BY <1>2, <1>4 DEF jumpHere
  <2> HIDE DEF c
  <2>7. Sane(b) /\ SameLoad(a, b) /\ b.items = a.items
    BY <2>5, PlaceStep
  <2>8. b.cursor = c /\ b.focus = a.focus /\ b.editing = a.editing /\ b.file = a.file /\ b.files = a.files
        /\ b.pres = a.pres /\ b.rev = a.rev
    BY <1>1 DEF AViews
  <2> HIDE DEF k, b
  <2>9. AnnotationContains(b, b.cursor, n)
    <3>1. File(b) = File(a) /\ HasFile(b) = HasFile(a)
      BY <2>8 DEF File, HasFile
    <3>2. SourceLen(b) = SourceLen(a)
      BY <2>8, <3>1 DEF SourceLen
    <3> QED BY <2>4, <2>8, <3>1, <3>2 DEF AnnotationContains, IsHere, AnnotationLines
  <2>10. Focused(b) # {}
    <3>1. n \in Find(b, b.focus)
      BY <2>7, <2>8 DEF Find
    <3> QED BY <2>9, <3>1 DEF Focused
  <2>11. Outcome(a, k) /\ FocusSettled(k)
    BY <1>2, <2>6, <2>7, <2>10, NoFocusSettled DEF Outcome
  <2> QED BY <2>6, <2>7, <2>8, <2>11 DEF k
<1> QED BY <1>3, <1>4

\* jumpToFocusedAnnotation: the comment is under the cursor, its file is being read, or it has no focus.
LEMMA JumpStep ==
  ASSUME NEW a, Sane(a)
  PROVE  LET k == jumpToFocusedAnnotation(a)
         IN  /\ Outcome(a, k) /\ FocusSettled(k) /\ SameLoad(a, k.a)
             /\ (\E n \in Find(a, a.focus) : IsHere(a, n)) /\ a.pres = "file"
                  => k.a.editing = a.editing /\ k.a.file = a.file
<1> DEFINE k == jumpToFocusedAnnotation(a)
           notes == {n \in Find(a, a.focus) : n.rev = a.rev}
           n == CHOOSE n \in notes : TRUE
           fs == {i \in DOMAIN a.files : a.files[i].path = n.path}
           g == CHOOSE i \in fs : TRUE
           b == [a EXCEPT !.file = g]
           c == resetPosition([b EXCEPT !.pres = "file"])
<1>1. a \in AViews /\ a.cursor > 0 /\ PathsDiffer(a.files) /\ (a.loading => a.files = <<>> /\ a.items = {}) /\ a.files \in Seq(AFile)
  BY DEF Sane, AViews
<1>2. k = (CASE notes = {} -> AOut(clearFocus(a), {})
             [] notes # {} /\ fs = {} -> AOut(clearFocus(a), {})
             [] OTHER -> IF b.pres = "file" \/ Anchor(b, n) # {} THEN AOut(jumpHere(b, n), {})
                         ELSE IF File(c).loaded = "yes" THEN AOut(jumpHere(c, n), {})
                         ELSE AOut(IF LoadFile(c) # {} THEN c ELSE clearFocus(c), LoadFile(c)))
  BY Zenon DEF jumpToFocusedAnnotation
<1>3. ASSUME \E x \in Find(a, a.focus) : IsHere(a, x)
      PROVE  notes # {} /\ n \in notes /\ a.file \in fs
  <2>1. PICK x \in Find(a, a.focus) : IsHere(a, x)
    BY <1>3
  <2>2. x \in notes
    BY <2>1 DEF IsHere
  <2>3. n \in notes
    BY <2>2
  <2>4. x \in a.items /\ x.id = a.focus /\ Find(a, x.id) = {x}
    BY <2>1, HereIs DEF Find
  <2>5. n = x
    BY <2>3, <2>4
  <2> HIDE DEF n
  <2>6. a.file \in DOMAIN a.files /\ a.files[a.file].path = x.path
    BY <2>1 DEF IsHere, HasFile, File
  <2> QED BY <2>2, <2>3, <2>5, <2>6
<1>4. CASE notes = {} \/ fs = {}
  <2>1. k = AOut(clearFocus(a), {})
    BY <1>2, <1>4
  <2>2. k.a = clearFocus(a) /\ k.send = {}
    BY <2>1 DEF AOut
  <2>3. ~ \E x \in Find(a, a.focus) : IsHere(a, x)
    BY <1>3, <1>4
  <2> HIDE DEF k
  <2>4. Sane(k.a) /\ k.a.items = a.items /\ SameLoad(a, k.a) /\ k.a.focus = 0
    BY <2>2, ClearFocusIs
  <2>5. Outcome(a, k) /\ FocusSettled(k)
    BY <2>2, <2>4, NoFocusSettled DEF Outcome
  <2> QED BY <2>3, <2>4, <2>5 DEF k
<1>5. CASE notes # {} /\ fs # {}
  <2>1. n \in notes /\ g \in fs
    BY <1>5
  <2>2. k = IF b.pres = "file" \/ Anchor(b, n) # {} THEN AOut(jumpHere(b, n), {})
            ELSE IF File(c).loaded = "yes" THEN AOut(jumpHere(c, n), {})
            ELSE AOut(IF LoadFile(c) # {} THEN c ELSE clearFocus(c), LoadFile(c))
    BY <1>2, <1>5
  <2>3. g \in Nat /\ g \in DOMAIN a.files /\ a.files[g].path = n.path
    <3>1. g \in DOMAIN a.files /\ a.files[g].path = n.path
      BY <2>1, Zenon
    <3>2. DOMAIN a.files \subseteq Nat
      BY <1>1
    <3> QED BY <3>1, <3>2, Zenon
  <2>4. (\E x \in Find(a, a.focus) : IsHere(a, x)) => g = a.file
    <3>1. ASSUME \E x \in Find(a, a.focus) : IsHere(a, x) PROVE g = a.file
      <4>1. a.file \in DOMAIN a.files /\ a.files[a.file].path = n.path
        BY <1>3, <3>1
      <4> QED BY <1>1, <2>3, <4>1 DEF PathsDiffer
    <3> QED BY <3>1
  <2>5. n \in a.items /\ n.id = a.focus /\ n.rev = a.rev /\ Find(a, a.focus) = {n}
    <3>1. n \in a.items /\ n.id = a.focus /\ n.rev = a.rev
      BY <2>1 DEF Find
    <3> QED BY <3>1, HereIs
  <2> HIDE DEF n, g, notes, fs
  <2>6. b \in AViews
    BY <1>1, <2>3 DEF AViews
  <2>7. b.items = a.items /\ b.focus = a.focus /\ b.files = a.files /\ b.made = a.made /\ b.cursor = a.cursor
        /\ b.editing = a.editing /\ b.pres = a.pres /\ b.file = g /\ SameLoad(a, b)
    BY <1>1 DEF AViews, SameLoad
  <2> DEFINE d == [b EXCEPT !.pres = "file"]
  <2>8. d \in AViews
    BY <2>6 DEF AViews
  <2>9. d.items = a.items /\ d.focus = a.focus /\ d.files = a.files /\ d.made = a.made /\ d.file = g /\ SameLoad(a, d)
    BY <2>6, <2>7 DEF AViews, SameLoad
  <2>10. c = resetPosition(d)
    OBVIOUS
  <2> HIDE DEF b, c, d
  <2>11. PICK e \in Nat \ {0} : c = [d EXCEPT !.cursor = e, !.anchor = 0, !.editing = FALSE]
    BY <2>8, <2>10, ResetIs
  <2>12. e \in Nat /\ e > 0
    OBVIOUS
  <2>13. c \in AViews /\ c.cursor = e /\ ~c.editing
    BY <2>8, <2>11, <2>12 DEF AViews
  <2>14. c.items = a.items /\ c.focus = a.focus /\ c.files = a.files /\ c.made = a.made /\ c.file = g /\ SameLoad(a, c)
    BY <2>8, <2>9, <2>11 DEF AViews, SameLoad
  <2>15. HasFile(b) /\ HasFile(c) /\ File(c).path = n.path
    BY <2>3, <2>7, <2>14 DEF HasFile, File
  <2>a. c.pres = "file"
    BY <2>6, <2>8, <2>11 DEF AViews, d
  <2>16. Sane(b) /\ Sane(c)
    <3>1. Sane(b)
      BY <1>1, <2>6, <2>7, <2>15, SaneKeeps DEF SameLoad
    <3>2. Sane(c)
      BY <1>1, <2>12, <2>13, <2>14, SaneKeeps DEF SameLoad
    <3> QED BY <3>1, <3>2
  <2>17. Find(b, b.focus) = {n} /\ Find(c, c.focus) = {n}
    BY <2>5, <2>7, <2>14 DEF Find
  <2>18. CASE b.pres = "file" \/ Anchor(b, n) # {}
    <3>1. k = AOut(jumpHere(b, n), {})
      BY <2>2, <2>18
    <3> HIDE DEF k
    <3>2. Outcome(b, k) /\ FocusSettled(k) /\ SameLoad(b, k.a) /\ k.a.editing = b.editing /\ k.a.file = b.file
      BY <2>5, <2>7, <2>16, <2>17, <3>1, JumpHereStep
    <3>3. Outcome(a, k) /\ SameLoad(a, k.a)
      BY <2>7, <3>2 DEF Outcome, SameLoad
    <3> QED BY <2>4, <2>7, <3>2, <3>3 DEF k
  <2>19. CASE ~(b.pres = "file" \/ Anchor(b, n) # {})
    <3>1. a.pres # "file"
      BY <2>7, <2>19
    <3>2. CASE File(c).loaded = "yes"
      <4>1. k = AOut(jumpHere(c, n), {})
        BY <2>2, <2>19, <3>2
      <4> HIDE DEF k
      <4>2. Outcome(c, k) /\ FocusSettled(k) /\ SameLoad(c, k.a)
        BY <2>5, <2>14, <2>16, <2>17, <4>1, JumpHereStep
      <4>3. Outcome(a, k) /\ SameLoad(a, k.a)
        BY <2>14, <4>2 DEF Outcome, SameLoad
      <4> QED BY <3>1, <4>2, <4>3 DEF k
    <3>3. CASE ~(File(c).loaded = "yes")
      <4>1. k = AOut(IF LoadFile(c) # {} THEN c ELSE clearFocus(c), LoadFile(c))
        BY <2>2, <2>19, <3>3
      <4>2. k.send = LoadFile(c) /\ (LoadFile(c) # {} => k.a = c) /\ (LoadFile(c) = {} => k.a = clearFocus(c))
        BY <4>1 DEF AOut
      <4> HIDE DEF k
      <4>3. \A m \in k.send : MsgIsOK(m) /\ m.type = "file" /\ m.rev = c.rev /\ m.arg = n.path
        BY <2>13, <2>15, <4>2, LoadFileSound
      <4>4. Sane(k.a) /\ k.a.items = a.items /\ SameLoad(a, k.a)
        BY <2>14, <2>16, <4>2, ClearFocusIs DEF SameLoad
      <4>5. FocusSettled(k)
        <5>1. CASE LoadFile(c) = {}
          <6>1. k.a.focus = 0
            BY <2>16, <4>2, <5>1, ClearFocusIs
          <6> QED BY <6>1, NoFocusSettled
        <5>2. CASE LoadFile(c) # {}
          <6>1. PICK m \in k.send : m.type = "file" /\ m.rev = c.rev /\ m.arg = n.path
            BY <4>2, <4>3, <5>2
          <6>2. n \in Find(c, c.focus) /\ IsHere(c, n)
            BY <2>5, <2>14, <2>15, <2>17 DEF SameLoad, IsHere
          <6> QED BY <2>13, <2>a, <4>2, <5>2, <6>1, <6>2 DEF FocusSettled, FocusIsIn
        <5> QED BY <5>1, <5>2
      <4>6. Outcome(a, k)
        BY <4>3, <4>4 DEF Outcome
      <4> QED BY <3>1, <4>4, <4>5, <4>6 DEF k
    <3> QED BY <3>2, <3>3
  <2> QED BY <2>18, <2>19
<1> QED BY <1>4, <1>5

\* What is being written stays where it is.
WritingStays(a, k) ==
  a.editing => /\ k.a.editing /\ k.a.rev = a.rev /\ k.a.file = a.file
               /\ a.focus = 0 => k.a.cursor = a.cursor /\ k.a.anchor = a.anchor

\* revisionLoaded: the answer that is waited for ends the waiting, any other is dropped.
LEMMA RevisionStep ==
  ASSUME NEW a, Sane(a), NEW m, m.rev \in ARevisions, m.type = "revision", NEW err \in BOOLEAN, NEW fs \in Seq(AFile),
         PathsDiffer(fs)
  PROVE  LET k == revisionLoaded(a, m, err, fs)
         IN  /\ Outcome(a, k) /\ FocusStays(a, k)
             /\ (\E msgs : FocusIsIn(a, msgs)) => WritingStays(a, k)
             /\ \A msgs : LoadIsIn(a, msgs \cup {m}) => LoadIsIn(k.a, msgs \cup k.send)
<1> DEFINE k == revisionLoaded(a, m, err, fs)
           pending == a.loadingRev # 0
           b == [a EXCEPT !.loadReq = 0, !.loadingRev = 0, !.loading = FALSE]
           d == [b EXCEPT !.rev = m.rev, !.files = fs, !.file = 1]
           c == resetPosition(d)
           late == m.req # a.loadReq \/ m.rev # (IF pending THEN a.loadingRev ELSE a.rev) \/ ~(pending \/ a.loading)
<1>1. a \in AViews /\ a.cursor > 0 /\ (a.editing => HasFile(a)) /\ PathsDiffer(a.files) /\ (a.loading => a.files = <<>> /\ a.items = {})
  BY DEF Sane
<1>2. b \in AViews /\ ~b.loading /\ b.loadingRev = 0
  BY <1>1 DEF AViews
<1>3. b.items = a.items /\ b.made = a.made /\ b.files = a.files /\ b.file = a.file /\ b.pres = a.pres /\ b.rev = a.rev
      /\ b.cursor = a.cursor /\ b.anchor = a.anchor /\ b.editing = a.editing /\ b.focus = a.focus
  BY <1>1 DEF AViews
<1>4. a.loading => ~a.editing
  BY <1>1 DEF HasFile
<1>5. CASE late
  <2>1. k = AOut(a, {})
    BY <1>5 DEF revisionLoaded
  <2>2. k.a = a /\ k.send = {}
    BY <2>1 DEF AOut
  <2> HIDE DEF k
  <2>3. Outcome(a, k) /\ FocusStays(a, k) /\ WritingStays(a, k)
    BY <2>2, SameStep DEF WritingStays
  <2>4. \A msgs : LoadIsIn(a, msgs \cup {m}) => LoadIsIn(k.a, msgs \cup k.send)
    BY <1>5, <2>2 DEF LoadIsIn
  <2> QED BY <2>3, <2>4 DEF k
<1>6. CASE ~late
  <2>1. k = CASE editorBlocks(a) -> AOut(revisionBlocked(a), {})
              [] ~editorBlocks(a) /\ err -> AOut(IF pending THEN clearFocus(b) ELSE [b EXCEPT !.files = <<>>], {})
              [] OTHER -> IF c.focus # 0 THEN jumpToFocusedAnnotation(c) ELSE loadCurrentFile(c)
    BY <1>6, Zenon DEF revisionLoaded
  <2>2. pending \/ a.loading
    BY <1>6
  <2>3. ~editorBlocks(a) => ~a.editing
    BY <1>4, <2>2 DEF editorBlocks
  <2>4. HasFile(b) = HasFile(a)
    BY <1>3 DEF HasFile
  <2>5. CASE editorBlocks(a)
    <3>1. k = AOut(b, {})
      BY <2>1, <2>5 DEF revisionBlocked
    <3>2. k.a = b /\ k.send = {}
      BY <3>1 DEF AOut
    <3> HIDE DEF k, b
    <3>3. Sane(b)
      BY <1>1, <1>2, <1>3, <2>4, SaneKeeps
    <3>4. Focused(b) = Focused(a)
      <4>1. File(b) = File(a)
        BY <1>3 DEF File
      <4>2. SourceLen(b) = SourceLen(a)
        BY <1>3, <2>4, <4>1 DEF SourceLen
      <4>3. \A n : AnnotationContains(b, b.cursor, n) = AnnotationContains(a, a.cursor, n)
        BY <1>3, <2>4, <4>1, <4>2 DEF AnnotationContains, IsHere, AnnotationLines
      <4> QED BY <1>3, <4>3 DEF Focused, Find
    <3>5. FocusStays(a, k)
      BY <1>3, <2>5, <3>2, <3>4 DEF FocusStays, FocusIsIn, editorBlocks
    <3>6. \A msgs : LoadIsIn(k.a, msgs \cup k.send)
      BY <1>2, <3>2 DEF LoadIsIn
    <3>7. Outcome(a, k) /\ WritingStays(a, k)
      BY <1>3, <3>2, <3>3 DEF Outcome, WritingStays
    <3> QED BY <3>5, <3>6, <3>7 DEF k
  <2>6. CASE ~editorBlocks(a) /\ err
    <3>1. k = AOut(IF pending THEN clearFocus(b) ELSE [b EXCEPT !.files = <<>>], {})
      BY <2>1, <2>6
    <3> DEFINE e == [b EXCEPT !.files = <<>>]
    <3>2. k.send = {} /\ (pending => k.a = clearFocus(b)) /\ (~pending => k.a = e)
      BY <3>1 DEF AOut
    <3> HIDE DEF b
    <3>3. e \in AViews /\ ~e.loading /\ e.loadingRev = 0 /\ e.files = <<>> /\ e.items = a.items /\ e.made = a.made
          /\ e.cursor = a.cursor /\ e.editing = a.editing /\ e.focus = a.focus
      <4>1. <<>> \in Seq(AFile)
        OBVIOUS
      <4>2. e \in AViews /\ e.files = <<>>
        BY <1>2, <4>1 DEF AViews
      <4>3. e.loading = b.loading /\ e.loadingRev = b.loadingRev /\ e.items = b.items /\ e.made = b.made
            /\ e.cursor = b.cursor /\ e.editing = b.editing /\ e.focus = b.focus
        BY <1>2 DEF AViews
      <4> QED BY <1>2, <1>3, <4>2, <4>3
    <3> HIDE DEF k, e
    <3>4. ~a.editing
      BY <2>3, <2>6
    <3>5. Sane(b)
      BY <1>1, <1>2, <1>3, <3>4, SaneKeeps
    <3>6. Sane(e)
      <4>1. PathsDiffer(e.files)
        BY <3>3 DEF PathsDiffer
      <4> QED BY <1>1, <3>3, <3>4, <4>1, SaneKeeps
    <3>7. CASE pending
      <4>1. Sane(k.a) /\ k.a.focus = 0 /\ k.a.items = a.items /\ ~k.a.loading /\ k.a.loadingRev = 0
        BY <1>2, <1>3, <3>2, <3>5, <3>7, ClearFocusIs DEF SameLoad
      <4>2. Outcome(a, k) /\ FocusStays(a, k)
        BY <3>2, <4>1, NoFocusSettled, SettledStays DEF Outcome
      <4>3. \A msgs : LoadIsIn(k.a, msgs \cup k.send)
        BY <4>1 DEF LoadIsIn
      <4> QED BY <3>4, <4>2, <4>3 DEF k, WritingStays
    <3>8. CASE ~pending
      <4>1. k.a = e
        BY <3>2, <3>8
      <4>2. a.items = {} /\ a.loadingRev = 0
        BY <1>1, <2>2, <3>8
      <4>3. FocusStays(a, k)
        <5>1. \A msgs : FocusIsIn(a, msgs) => a.focus = 0
          BY <4>2 DEF FocusIsIn, Focused, Find
        <5> QED BY <3>3, <4>1, <5>1 DEF FocusStays, FocusIsIn
      <4>4. \A msgs : LoadIsIn(k.a, msgs \cup k.send)
        BY <3>3, <4>1 DEF LoadIsIn
      <4>5. Outcome(a, k)
        BY <3>2, <3>3, <3>6, <4>1 DEF Outcome
      <4> QED BY <3>4, <4>3, <4>4, <4>5 DEF k, WritingStays
    <3> QED BY <3>7, <3>8
  <2>7. CASE ~editorBlocks(a) /\ ~err
    <3>1. k = IF c.focus # 0 THEN jumpToFocusedAnnotation(c) ELSE loadCurrentFile(c)
      BY <2>1, <2>7
    <3>2. d \in AViews
      BY <1>2 DEF AViews
    <3>3. d.items = a.items /\ d.made = a.made /\ d.files = fs /\ ~d.loading /\ d.loadingRev = 0
      BY <1>2, <1>3 DEF AViews
    <3>a. c = resetPosition(d)
      OBVIOUS
    <3> HIDE DEF k, b, c, d
    <3>4. PICK e \in Nat \ {0} : c = [d EXCEPT !.cursor = e, !.anchor = 0, !.editing = FALSE]
      BY <3>2, <3>a, ResetIs
    <3>5. e \in Nat /\ e > 0
      OBVIOUS
    <3>6. c \in AViews /\ c.cursor = e /\ ~c.editing
      BY <3>2, <3>4, <3>5 DEF AViews
    <3>7. c.items = a.items /\ c.made = a.made /\ c.files = fs /\ ~c.loading /\ c.loadingRev = 0
      BY <3>2, <3>3, <3>4 DEF AViews
    <3>8. Sane(c)
      BY <1>1, <3>5, <3>6, <3>7, SaneKeeps
    <3>9. ~a.editing
      BY <2>3, <2>7
    <3>10. Outcome(a, k) /\ FocusSettled(k) /\ ~k.a.loading /\ k.a.loadingRev = 0
      <4>1. CASE c.focus # 0
        <5>1. Outcome(c, k) /\ FocusSettled(k) /\ SameLoad(c, k.a)
          BY <3>1, <3>8, <4>1, JumpStep
        <5> QED BY <3>7, <5>1 DEF Outcome, SameLoad
      <4>2. CASE c.focus = 0
        <5>1. k.a = c /\ (k.send = LoadFile(c) \/ k.send = {})
          BY <3>1, <4>2 DEF loadCurrentFile, AOut
        <5>2. \A x \in k.send : MsgIsOK(x) /\ x.type # "picked"
          BY <3>6, <5>1, LoadFileSound
        <5> QED BY <3>7, <3>8, <4>2, <5>1, <5>2, NoFocusSettled DEF Outcome
      <4> QED BY <4>1, <4>2
    <3>11. FocusStays(a, k) /\ \A msgs : LoadIsIn(k.a, msgs \cup k.send)
      BY <3>10, SettledStays DEF LoadIsIn
    <3> QED BY <3>9, <3>10, <3>11 DEF k, WritingStays
  <2> QED BY <2>5, <2>6, <2>7
<1> QED BY <1>5, <1>6

\* revisionTargetsLoaded, with none, one or several targets.
LEMMA RevisionTargetsStep ==
  ASSUME NEW a, Sane(a), NEW m, NEW targets, targets \subseteq ARevisions
  PROVE  LET k == revisionTargetsLoaded(a, m, targets)
         IN  Outcome(a, k) /\ FocusStays(a, k) /\ LoadStays(a, k) /\ WritingStays(a, k)
<1> DEFINE k == revisionTargetsLoaded(a, m, targets)
           b == [a EXCEPT !.targetsReq = 0]
<1>1. a \in AViews /\ a.cursor > 0 /\ (a.editing => HasFile(a)) /\ PathsDiffer(a.files) /\ (a.loading => a.files = <<>> /\ a.items = {})
  BY DEF Sane
<1>2. CASE m.req # a.targetsReq \/ m.rev # a.rev
  <2>1. k.a = a /\ k.send = {}
    BY <1>2 DEF revisionTargetsLoaded, AOut
  <2> HIDE DEF k
  <2>2. Outcome(a, k) /\ FocusStays(a, k) /\ LoadStays(a, k) /\ WritingStays(a, k)
    BY <2>1, SameStep DEF WritingStays
  <2> QED BY <2>2 DEF k
<1>3. CASE ~(m.req # a.targetsReq \/ m.rev # a.rev)
  <2>1. k = CASE targets = {} -> AOut(b, {})
              [] Cardinality(targets) = 1 -> selectRevision(clearFocus(b), CHOOSE r \in targets : TRUE)
              [] OTHER -> OpenPicker(b, "revision", targets)
    BY <1>3 DEF revisionTargetsLoaded
  <2>2. b \in AViews /\ SamePlace(a, b) /\ SameLoad(a, b) /\ b.made = a.made /\ b.anchor = a.anchor
    BY <1>1 DEF AViews, SamePlace, SameLoad
  <2> HIDE DEF k, b
  <2>3. b.editing => HasFile(b)
    BY <1>1, <2>2 DEF HasFile, SamePlace
  <2>4. Sane(b)
    BY <1>1, <2>2, <2>3, SaneKeeps DEF SamePlace, SameLoad
  <2>5. Cardinality({}) = 0
    BY FS_EmptySet
  <2>6. \A msgs : (FocusIsIn(a, msgs) => FocusIsIn(b, msgs)) /\ (LoadIsIn(a, msgs) => LoadIsIn(b, msgs))
    <3>1. AOut(b, {}).a = b /\ AOut(b, {}).send = {}
      BY DEF AOut
    <3>2. FocusStays(a, AOut(b, {})) /\ LoadStays(a, AOut(b, {}))
      BY <2>2, <3>1, SamePlaceStays, SameLoadStays
    <3> QED BY <3>1, <3>2 DEF FocusStays, LoadStays
  <2>7. CASE targets = {}
    <3>1. k = AOut(b, {})
      BY <2>1, <2>5, <2>7
    <3>2. k.a = b /\ k.send = {}
      BY <3>1 DEF AOut
    <3>3. FocusStays(a, k) /\ LoadStays(a, k)
      BY <2>6, <3>2 DEF FocusStays, LoadStays
    <3>4. Outcome(a, k) /\ WritingStays(a, k)
      BY <2>2, <2>4, <3>2 DEF Outcome, WritingStays, SamePlace
    <3> QED BY <3>3, <3>4 DEF k
  <2>8. CASE targets # {} /\ Cardinality(targets) = 1
    <3> DEFINE r == CHOOSE r \in targets : TRUE
               c == clearFocus(b)
    <3>1. k = selectRevision(c, r)
      BY <2>1, <2>8
    <3>2. r \in ARevisions
      BY <2>8
    <3>3. /\ Sane(c) /\ c.focus = 0 /\ c.items = b.items /\ SameLoad(b, c) /\ c.file = b.file
          /\ c.cursor = b.cursor /\ c.anchor = b.anchor /\ c.editing = b.editing /\ c.rev = b.rev
      BY <2>4, ClearFocusIs DEF SameLoad
    <3> HIDE DEF r, c
    <3>4. /\ Outcome(c, k) /\ LoadStays(c, k) /\ FocusStays(c, k)
          /\ k.a.items = c.items /\ k.a.editing = c.editing /\ k.a.rev = c.rev /\ k.a.file = c.file
          /\ k.a.cursor = c.cursor /\ k.a.anchor = c.anchor
      BY <3>1, <3>2, <3>3, SelectRevisionStep
    <3>5. Outcome(a, k)
      BY <2>2, <3>3, <3>4 DEF Outcome, SamePlace
    <3>6. FocusStays(a, k)
      <4>1. \A msgs : FocusIsIn(c, msgs)
        BY <3>3 DEF FocusIsIn
      <4> QED BY <3>4, <4>1 DEF FocusStays
    <3>7. LoadStays(a, k)
      <4>1. \A msgs : LoadIsIn(b, msgs) => LoadIsIn(c, msgs)
        BY <3>3 DEF LoadIsIn, SameLoad
      <4> QED BY <2>6, <3>4, <4>1 DEF LoadStays
    <3>8. WritingStays(a, k)
      BY <2>2, <3>3, <3>4 DEF WritingStays, SamePlace
    <3> QED BY <3>5, <3>6, <3>7, <3>8 DEF k
  <2>9. CASE targets # {} /\ Cardinality(targets) # 1
    <3>1. k = OpenPicker(b, "revision", targets)
      BY <2>1, <2>9
    <3>2. k.a = b /\ Outcome(b, k) /\ FocusStays(b, k) /\ LoadStays(b, k)
      BY <2>4, <3>1, PickerSound
    <3>3. FocusStays(a, k) /\ LoadStays(a, k)
      BY <2>6, <3>2 DEF FocusStays, LoadStays
    <3>4. Outcome(a, k) /\ WritingStays(a, k)
      BY <2>2, <3>2 DEF Outcome, WritingStays, SamePlace
    <3> QED BY <3>3, <3>4 DEF k
  <2> QED BY <2>7, <2>8, <2>9
<1> QED BY <1>2, <1>3

\* fileLoaded: its answer is what the focus may have waited for.
LEMMA FileLoadedStep ==
  ASSUME NEW a, Sane(a), NEW m, NEW lines \in Nat
  PROVE  LET k == fileLoaded(a, m, lines)
         IN  /\ Outcome(a, k) /\ LoadStays(a, k)
             /\ \A msgs : FocusIsIn(a, msgs \cup {m}) => FocusIsIn(k.a, msgs \cup k.send) /\ WritingStays(a, k)
<1> DEFINE k == fileLoaded(a, m, lines)
           found == {i \in DOMAIN a.files : a.files[i].path = m.arg}
           gs == [i \in DOMAIN a.files |->
                    IF i \notin found THEN a.files[i]
                    ELSE IF lines = 0 THEN UnreadFile(a.files[i]) ELSE ReadFile(a.files[i], lines)]
           b == [a EXCEPT !.files = gs]
<1>1. a \in AViews /\ a.cursor > 0 /\ (a.editing => HasFile(a)) /\ PathsDiffer(a.files)
      /\ (a.loading => a.files = <<>> /\ a.items = {}) /\ a.files \in Seq(AFile)
  BY DEF Sane, AViews
<1>2. \A n \in a.items : n.id # 0
  BY HereIs
<1>3. CASE m.rev # a.rev \/ found = {}
  <2>1. k.a = a /\ k.send = {}
    BY <1>3 DEF fileLoaded, AOut
  <2>2. \A n : IsHere(a, n) /\ m.arg = n.path => a.file \in found
    BY DEF IsHere, HasFile, File
  <2> HIDE DEF k, found
  <2>3. Outcome(a, k) /\ LoadStays(a, k) /\ WritingStays(a, k)
    BY <2>1, SameStep DEF WritingStays
  <2>4. \A msgs : FocusIsIn(a, msgs \cup {m}) => FocusIsIn(k.a, msgs \cup k.send)
    BY <1>3, <2>1, <2>2 DEF FocusIsIn
  <2> QED BY <2>3, <2>4 DEF k
<1>4. CASE ~(m.rev # a.rev \/ found = {})
  <2>1. k = IF a.pres = "file" /\ (\E n \in Find(a, a.focus) : n.path = m.arg)
              THEN jumpToFocusedAnnotation(b) ELSE AOut(b, {})
    BY <1>4, Zenon DEF fileLoaded
  <2>2. \A i \in DOMAIN a.files : a.files[i] \in AFile
    BY <1>1
  <2>3. \A f \in AFile : /\ UnreadFile(f) \in AFile /\ UnreadFile(f).path = f.path /\ UnreadFile(f).lines = f.lines
                         /\ ReadFile(f, lines) \in AFile /\ ReadFile(f, lines).path = f.path /\ ReadFile(f, lines).lines = f.lines
                         /\ UnreadFile(f).deleted = f.deleted /\ ReadFile(f, lines).deleted = f.deleted
    BY DEF AFile, UnreadFile, ReadFile
  <2>4. DOMAIN gs = DOMAIN a.files
        /\ \A i \in DOMAIN a.files : /\ gs[i] \in AFile /\ gs[i].path = a.files[i].path /\ gs[i].lines = a.files[i].lines
                                     /\ gs[i].deleted = a.files[i].deleted
                                     /\ a.files[i].path # m.arg => gs[i] = a.files[i]
    BY <2>2, <2>3
  <2>5. gs \in Seq(AFile) /\ PathsDiffer(gs) /\ (a.files = <<>> => gs = <<>>)
    <3> HIDE DEF gs
    <3>0. DOMAIN a.files = 1 .. Len(a.files) /\ Len(a.files) \in Nat
      BY <1>1
    <3>a. gs = [i \in 1 .. Len(a.files) |-> gs[i]]
      BY <3>0, <2>4 DEF gs
    <3>1. gs \in Seq(AFile)
      BY <2>4, <3>0, <3>a
    <3>2. PathsDiffer(gs)
      BY <1>1, <2>4 DEF PathsDiffer
    <3>3. a.files = <<>> => gs = <<>>
      <4>1. Len(gs) = Len(a.files)
        BY <2>4, <3>0, <3>1
      <4> QED BY <1>1, <3>1, <4>1
    <3> QED BY <3>1, <3>2, <3>3
  <2> HIDE DEF gs
  <2>6. b \in AViews /\ b.files = gs
    BY <1>1, <2>5 DEF AViews
  <2>7. b.items = a.items /\ b.made = a.made /\ b.file = a.file /\ b.pres = a.pres /\ b.rev = a.rev /\ b.cursor = a.cursor
        /\ b.anchor = a.anchor /\ b.editing = a.editing /\ b.focus = a.focus /\ SameLoad(a, b)
    BY <1>1 DEF AViews, SameLoad
  <2> HIDE DEF k, b
  <2>8. HasFile(b) = HasFile(a) /\ (HasFile(a) => /\ File(b).path = File(a).path /\ File(b).lines = File(a).lines
                                                  /\ File(b).deleted = File(a).deleted
                                                  /\ File(a).path # m.arg => File(b) = File(a))
    BY <2>4, <2>6, <2>7 DEF HasFile, File
  <2>9. Sane(b)
    BY <1>1, <2>5, <2>6, <2>7, <2>8, SaneKeeps DEF SameLoad
  <2>10. \A n : IsHere(b, n) = IsHere(a, n)
    BY <2>7, <2>8 DEF IsHere
  <2>11. CASE a.pres = "file" /\ (\E n \in Find(a, a.focus) : n.path = m.arg)
    <3>1. k = jumpToFocusedAnnotation(b)
      BY <2>1, <2>11
    <3>2. /\ Outcome(b, k) /\ FocusSettled(k) /\ SameLoad(b, k.a)
          /\ (\E n \in Find(b, b.focus) : IsHere(b, n)) /\ b.pres = "file"
               => k.a.editing = b.editing /\ k.a.file = b.file
      BY <2>9, <3>1, JumpStep
    <3>3. a.focus # 0
      BY <1>2, <2>11 DEF Find
    <3>4. ASSUME NEW msgs, FocusIsIn(a, msgs \cup {m}) PROVE WritingStays(a, k)
      <4>1. a.editing => \E n \in Find(a, a.focus) : IsHere(a, n)
        BY <3>3, <3>4 DEF FocusIsIn, Focused, AnnotationContains
      <4>2. Find(b, b.focus) = Find(a, a.focus)
        BY <2>7 DEF Find
      <4> QED BY <2>7, <2>10, <2>11, <3>2, <3>3, <4>1, <4>2 DEF WritingStays, SameLoad
    <3>5. Outcome(a, k) /\ SameLoad(a, k.a)
      BY <2>7, <3>2 DEF Outcome, SameLoad
    <3>6. LoadStays(a, k)
      BY <3>5, SameLoadStays
    <3> QED BY <3>2, <3>4, <3>5, <3>6 DEF FocusSettled, k
  <2>12. CASE ~(a.pres = "file" /\ (\E n \in Find(a, a.focus) : n.path = m.arg))
    <3>1. k = AOut(b, {})
      BY <2>1, <2>12
    <3>2. k.a = b /\ k.send = {}
      BY <3>1 DEF AOut
    <3>3. ASSUME NEW n \in Focused(a) PROVE n \in Focused(b)
      <4>1. n \in Find(a, a.focus) /\ AnnotationContains(a, a.cursor, n) /\ IsHere(a, n)
        BY <3>3 DEF Focused, AnnotationContains
      <4>2. HasFile(a) /\ n.path = File(a).path
        BY <4>1 DEF IsHere
      <4>3. SourceLen(b) = SourceLen(a)
        <5>1. CASE a.pres = "file"
          <6>1. File(b) = File(a)
            BY <2>8, <2>12, <4>1, <4>2, <5>1
          <6> QED BY <2>7, <2>8, <4>2, <6>1 DEF SourceLen
        <5>2. CASE a.pres # "file"
          BY <2>7, <2>8, <4>2, <5>2 DEF SourceLen
        <5> QED BY <5>1, <5>2
      <4>4. AnnotationContains(b, b.cursor, n)
        BY <2>7, <2>8, <2>10, <4>1, <4>2, <4>3 DEF AnnotationContains, AnnotationLines
      <4> QED BY <2>7, <4>1, <4>4 DEF Focused, Find
    <3>4. \A msgs : FocusIsIn(a, msgs \cup {m}) => FocusIsIn(k.a, msgs \cup k.send)
      <4>1. Find(b, b.focus) = Find(a, a.focus)
        BY <2>7 DEF Find
      <4>0. \A msgs : msgs \cup k.send = msgs
        BY <3>2
      <4>a. a.focus = 0 => \A msgs : FocusIsIn(b, msgs)
        BY <2>7 DEF FocusIsIn
      <4>2. SUFFICES ASSUME NEW msgs, FocusIsIn(a, msgs \cup {m}), a.focus # 0 PROVE FocusIsIn(b, msgs)
        BY <3>2, <4>0, <4>a
      <4>3. CASE a.loadingRev # 0 /\ ~a.editing
        BY <2>7, <4>3 DEF FocusIsIn, SameLoad
      <4>4. CASE Focused(a) # {}
        BY <3>3, <4>4 DEF FocusIsIn
      <4>5. CASE a.pres = "file" /\ ~a.editing /\ \E x \in msgs \cup {m}, n \in Find(a, a.focus) :
                   IsHere(a, n) /\ x.type = "file" /\ x.rev = a.rev /\ x.arg = n.path
        <5>1. PICK x \in msgs \cup {m}, n \in Find(a, a.focus) :
                     IsHere(a, n) /\ x.type = "file" /\ x.rev = a.rev /\ x.arg = n.path
          BY <4>5
        <5>2. x # m
          BY <2>12, <4>5, <5>1
        <5>3. x \in msgs /\ IsHere(b, n) /\ n \in Find(b, b.focus)
          BY <2>10, <4>1, <5>1, <5>2
        <5> QED BY <2>7, <4>5, <5>1, <5>3 DEF FocusIsIn
      <4> QED BY <4>2, <4>3, <4>4, <4>5 DEF FocusIsIn
    <3>5. SameLoad(a, k.a)
      BY <2>7, <3>2
    <3>6. LoadStays(a, k)
      BY <3>5, SameLoadStays
    <3>7. Outcome(a, k) /\ WritingStays(a, k)
      BY <2>7, <2>9, <3>2 DEF Outcome, WritingStays
    <3> QED BY <3>4, <3>6, <3>7 DEF k
  <2> QED BY <2>11, <2>12
<1> QED BY <1>3, <1>4

\* selectCommentPickerTarget, in this revision or another one.
LEMMA CommentPickedStep ==
  ASSUME NEW a, Sane(a), NEW id \in Nat
  PROVE  LET k == selectCommentPickerTarget(a, id)
         IN  Outcome(a, k) /\ FocusStays(a, k) /\ LoadStays(a, k)
<1> DEFINE k == selectCommentPickerTarget(a, id)
           found == Find(a, id)
           n == CHOOSE n \in found : TRUE
           b == [a EXCEPT !.pres = "diff", !.focus = id]
<1>1. a \in AViews /\ a.cursor > 0 /\ (a.editing => HasFile(a)) /\ PathsDiffer(a.files) /\ (a.loading => a.files = <<>> /\ a.items = {})
  BY DEF Sane
<1>2. CASE found = {} \/ (n.rev # a.rev /\ a.editing)
  <2>1. k.a = a /\ k.send = {}
    BY <1>2 DEF selectCommentPickerTarget, AOut
  <2> HIDE DEF k
  <2>2. Outcome(a, k) /\ FocusStays(a, k) /\ LoadStays(a, k)
    BY <2>1, SameStep
  <2> QED BY <2>2 DEF k
<1>3. CASE found # {} /\ ~(n.rev # a.rev /\ a.editing)
  <2>1. k = IF n.rev = a.rev /\ ~a.loading THEN jumpToFocusedAnnotation(b) ELSE selectRevision(b, n.rev)
    BY <1>3, Zenon DEF selectCommentPickerTarget
  <2>2. n \in a.items
    BY <1>3 DEF Find
  <2> HIDE DEF n, found
  <2>3. ~a.loading /\ n.rev \in ARevisions
    BY <1>1, <2>2, HereIs DEF AComment
  <2>4. b \in AViews
    BY <1>1 DEF AViews
  <2>5. b.items = a.items /\ b.made = a.made /\ b.files = a.files /\ b.file = a.file /\ b.cursor = a.cursor
        /\ b.editing = a.editing /\ SameLoad(a, b)
    BY <1>1 DEF AViews, SameLoad
  <2> HIDE DEF k, b
  <2>6. b.editing => HasFile(b)
    BY <1>1, <2>5 DEF HasFile
  <2>7. Sane(b)
    BY <1>1, <2>4, <2>5, <2>6, SaneKeeps DEF SameLoad
  <2>8. CASE n.rev = a.rev
    <3>1. Outcome(b, k) /\ FocusSettled(k) /\ SameLoad(b, k.a)
      BY <2>1, <2>3, <2>7, <2>8, JumpStep
    <3>2. Outcome(a, k) /\ SameLoad(a, k.a)
      BY <2>5, <3>1 DEF Outcome, SameLoad
    <3> QED BY <3>1, <3>2, SettledStays, SameLoadStays DEF k
  <2>9. CASE n.rev # a.rev
    <3>1. k = selectRevision(b, n.rev) /\ n.rev # b.rev /\ ~b.editing
      BY <1>3, <2>1, <2>5, <2>9 DEF SameLoad
    <3>2. Outcome(b, k) /\ LoadStays(b, k) /\ FocusSettled(k)
      BY <2>3, <2>7, <3>1, SelectRevisionStep
    <3>3. \A msgs : LoadIsIn(a, msgs) => LoadIsIn(b, msgs)
      BY <2>5 DEF LoadIsIn, SameLoad
    <3>4. LoadStays(a, k)
      BY <3>2, <3>3 DEF LoadStays
    <3> QED BY <2>5, <3>2, <3>4, SettledStays DEF Outcome, k
  <2> QED BY <2>8, <2>9
<1> QED BY <1>2, <1>3

\* selectRevisionPickerTarget.
LEMMA RevisionPickedStep ==
  ASSUME NEW a, Sane(a), NEW rev \in ARevisions
  PROVE  LET k == selectRevisionPickerTarget(a, rev)
         IN  Outcome(a, k) /\ FocusStays(a, k) /\ LoadStays(a, k)
<1> DEFINE k == selectRevisionPickerTarget(a, rev)
           c == clearFocus(a)
<1>1. CASE rev # a.rev /\ a.editing
  <2>1. k.a = a /\ k.send = {}
    BY <1>1 DEF selectRevisionPickerTarget, AOut
  <2> HIDE DEF k
  <2>2. Outcome(a, k) /\ FocusStays(a, k) /\ LoadStays(a, k)
    BY <2>1, SameStep
  <2> QED BY <2>2 DEF k
<1>2. CASE ~(rev # a.rev /\ a.editing)
  <2>1. k = selectRevision(c, rev)
    BY <1>2 DEF selectRevisionPickerTarget
  <2>2. Sane(c) /\ c.focus = 0 /\ c.items = a.items /\ SameLoad(a, c)
    BY ClearFocusIs
  <2> HIDE DEF k, c
  <2>3. Outcome(c, k) /\ LoadStays(c, k) /\ FocusStays(c, k)
    BY <2>1, <2>2, SelectRevisionStep
  <2>4. \A msgs : FocusIsIn(c, msgs) /\ (LoadIsIn(a, msgs) => LoadIsIn(c, msgs))
    BY <2>2 DEF LoadIsIn, FocusIsIn, SameLoad
  <2>5. FocusStays(a, k) /\ LoadStays(a, k)
    BY <2>3, <2>4 DEF FocusStays, LoadStays
  <2> QED BY <2>2, <2>3, <2>5 DEF Outcome, k
<1> QED BY <1>1, <1>2

\* One copy less of a message, and one more of some others.
LEMMA BagLess ==
  ASSUME NEW B, IsABag(B), NEW m \in DOMAIN B
  PROVE  LET R == B (-) SetToBag({m})
         IN  /\ IsABag(R) /\ DOMAIN R \cup {m} = DOMAIN B
             /\ m \in DOMAIN R => R[m] < B[m]
<1> DEFINE C == [e \in DOMAIN B |-> IF e \in {m} THEN B[e] - SetToBag({m})[e] ELSE B[e]]
           D == {d \in DOMAIN B : C[d] > 0}
           R == [e \in D |-> C[e]]
<1>1. SetToBag({m})[m] = 1 /\ DOMAIN SetToBag({m}) = {m}
  BY DEF SetToBag
<1>2. \A e \in DOMAIN B : B[e] \in Nat /\ B[e] > 0
  BY DEF IsABag
<1>3. \A e \in DOMAIN B : C[e] = IF e = m THEN B[e] - 1 ELSE B[e]
  BY <1>1
<1>4. B (-) SetToBag({m}) = R
  BY <1>1 DEF (-)
<1> HIDE DEF C
<1>5. DOMAIN R = D /\ (\A e \in D : R[e] = C[e] /\ C[e] \in {n \in Nat : n > 0})
  BY <1>2, <1>3
<1>6. IsABag(R)
  BY <1>5 DEF IsABag
<1>7. DOMAIN R \cup {m} = DOMAIN B
  BY <1>2, <1>3, <1>5
<1>8. m \in DOMAIN R => R[m] < B[m]
  BY <1>2, <1>3, <1>5
<1> HIDE DEF R
<1> QED BY <1>4, <1>6, <1>7, <1>8

\* Some messages more.
LEMMA BagMore ==
  ASSUME NEW B, IsABag(B), NEW S
  PROVE  LET R == B (+) SetToBag(S)
         IN  /\ IsABag(R) /\ DOMAIN R = DOMAIN B \cup S
             /\ \A e \in DOMAIN B : e \notin S => R[e] = B[e]
             /\ S = {} => R = B
<1> DEFINE T == SetToBag(S)
           R == [e \in DOMAIN B \cup DOMAIN T |->
                   (IF e \in DOMAIN B THEN B[e] ELSE 0) + (IF e \in DOMAIN T THEN T[e] ELSE 0)]
<1>1. B (+) T = R
  BY DEF (+)
<1>2. DOMAIN T = S /\ \A e \in S : T[e] = 1
  BY DEF SetToBag
<1>3. \A e \in DOMAIN B : B[e] \in Nat /\ B[e] > 0
  BY DEF IsABag
<1> HIDE DEF T
<1>4. DOMAIN R = DOMAIN B \cup S
  BY <1>2
<1>5. \A e \in DOMAIN B \cup S : R[e] \in {n \in Nat : n > 0} /\ (e \notin S => R[e] = B[e])
  <2>1. \A e \in DOMAIN B \cup S : R[e] = (IF e \in DOMAIN B THEN B[e] ELSE 0) + (IF e \in S THEN 1 ELSE 0)
    BY <1>2
  <2> HIDE DEF R
  <2> QED BY <1>3, <2>1
<1>6. R = [e \in DOMAIN R |-> R[e]]
  BY Zenon
<1>7. B = [e \in DOMAIN B |-> B[e]]
  BY DEF IsABag
<1> HIDE DEF R
<1>8. IsABag(R)
  BY <1>4, <1>5, <1>6 DEF IsABag
<1>9. S = {} => R = B
  BY <1>4, <1>5, <1>6, <1>7
<1> QED BY <1>1, <1>4, <1>5, <1>8, <1>9 DEF T

\* A message of another kind is not what the focus or the load waits for.
LEMMA NotWaitedFor ==
  ASSUME NEW a, NEW m, NEW msgs
  PROVE  /\ m.type # "file" /\ FocusIsIn(a, msgs \cup {m}) => FocusIsIn(a, msgs)
         /\ m.type # "revision" /\ LoadIsIn(a, msgs \cup {m}) => LoadIsIn(a, msgs)
<1>1. ASSUME m.type # "file", FocusIsIn(a, msgs \cup {m}) PROVE FocusIsIn(a, msgs)
  BY <1>1 DEF FocusIsIn
<1>2. ASSUME m.type # "revision", LoadIsIn(a, msgs \cup {m}) PROVE LoadIsIn(a, msgs)
  BY <1>2 DEF LoadIsIn
<1> QED BY <1>1, <1>2

\* What a load finds is a diff, and its files have at least a line.
LEMMA LoadedTyped ==
  ASSUME NEW m, m.rev \in ARevisions
  PROVE  /\ \A fs \in Loaded(m) : fs \in Seq(AFile) /\ PathsDiffer(fs)
         /\ \A path : Contents(m.rev, path) \subseteq Nat
<1>1. ASSUME NEW d \in Diffs[m.rev] PROVE d \in Seq(AFile) /\ PathsDiffer(d)
  BY AnnotationAssumption DEF PathsDiffer
<1>2. \A path : Contents(m.rev, path) \subseteq Nat
  <2>1. ASSUME NEW d \in Diffs[m.rev], NEW f \in Range(d) PROVE f.content \in Nat
    <3>1. PICK i \in DOMAIN d : f = d[i]
      BY DEF Range
    <3>2. d[i] \in AFile
      BY <1>1
    <3> QED BY <3>1, <3>2 DEF AFile
  <2> QED BY <2>1 DEF Contents
<1>3. ASSUME NEW fs \in Loaded(m) PROVE fs \in Seq(AFile) /\ PathsDiffer(fs)
  <2>1. PICK d \in Diffs[m.rev] :
          fs \in IF ~m.full \/ d = <<>> THEN {d}
                    ELSE {[d EXCEPT ![1] = f] : f \in {UnreadFile(d[1])} \cup {ReadFile(d[1], l) : l \in Contents(m.rev, d[1].path)}}
    BY DEF Loaded
  <2>2. CASE fs = d
    BY <1>1, <2>2
  <2>3. CASE fs # d
    <3>1. PICK f \in {UnreadFile(d[1])} \cup {ReadFile(d[1], l) : l \in Contents(m.rev, d[1].path)} :
               fs = [d EXCEPT ![1] = f]
      BY <2>1, <2>3
    <3>2. d # <<>> /\ d \in Seq(AFile) /\ PathsDiffer(d)
      BY <1>1, <2>1, <2>3
    <3>3. d[1] \in AFile /\ 1 \in DOMAIN d
      BY <3>2
    <3>4. f \in AFile /\ f.path = d[1].path
      <4>1. \A l \in Nat : ReadFile(d[1], l) \in AFile /\ ReadFile(d[1], l).path = d[1].path
        BY <3>3 DEF AFile, ReadFile
      <4>2. UnreadFile(d[1]) \in AFile /\ UnreadFile(d[1]).path = d[1].path
        BY <3>3 DEF AFile, UnreadFile
      <4> QED BY <1>2, <4>1, <4>2
    <3>5. fs \in Seq(AFile)
      BY <3>1, <3>2, <3>4
    <3>6. DOMAIN fs = DOMAIN d /\ \A i \in DOMAIN d : fs[i].path = d[i].path
      BY <3>1, <3>2, <3>3, <3>4
    <3> QED BY <3>2, <3>5, <3>6 DEF PathsDiffer
  <2> QED BY <2>2, <2>3
<1> QED BY <1>2, <1>3

\* The answer of a picker.
LEMMA PickedStep ==
  ASSUME NEW a, Sane(a), NEW m, MsgIsOK(m), m.type = "picked"
  PROVE  LET k == targetPicked(a, m)
         IN  Outcome(a, k) /\ FocusStays(a, k) /\ LoadStays(a, k)
<1>1. CASE m.pick.payload = "file"
  <2>1. targetPicked(a, m) = selectFile(a, m.arg)
    BY <1>1 DEF targetPicked
  <2> QED BY <2>1, SelectFileStep
<1>2. CASE m.pick.payload = "comment"
  <2>1. targetPicked(a, m) = selectCommentPickerTarget(a, m.arg) /\ m.arg \in Nat
    BY <1>2 DEF targetPicked, MsgIsOK
  <2> QED BY <2>1, CommentPickedStep
<1>3. CASE m.pick.payload = "revision"
  <2>1. targetPicked(a, m) = selectRevisionPickerTarget(a, m.arg) /\ m.arg \in ARevisions
    BY <1>3 DEF targetPicked, MsgIsOK
  <2> QED BY <2>1, RevisionPickedStep
<1>4. m.pick.payload \in {"file", "comment", "revision"}
  BY DEF MsgIsOK
<1> QED BY <1>1, <1>2, <1>3, <1>4

\* A request to close puts a question at most.
LEMMA CloseStep ==
  ASSUME NEW a, Sane(a)
  PROVE  LET k == RequestClose(a)
         IN  Outcome(a, k) /\ FocusStays(a, k) /\ LoadStays(a, k) /\ WritingStays(a, k)
<1> DEFINE k == RequestClose(a)
           b == [a EXCEPT !.question = TRUE]
<1>1. a \in AViews /\ a.cursor > 0 /\ (a.editing => HasFile(a)) /\ PathsDiffer(a.files) /\ (a.loading => a.files = <<>>)
  BY DEF Sane
<1>2. b \in AViews /\ SamePlace(a, b) /\ SameLoad(a, b) /\ b.made = a.made /\ b.anchor = a.anchor
  BY <1>1 DEF AViews, SamePlace, SameLoad
<1>3. (k.a = a \/ k.a = b) /\ k.send = {}
  BY DEF RequestClose, AOut
<1> HIDE DEF k, b
<1>4. b.editing => HasFile(b)
  BY <1>1, <1>2 DEF HasFile, SamePlace
<1>5. Sane(b)
  BY <1>1, <1>2, <1>4, SaneKeeps DEF SamePlace, SameLoad
<1>6. SamePlace(a, k.a) /\ SameLoad(a, k.a) /\ Sane(k.a) /\ k.a.anchor = a.anchor
  BY <1>2, <1>3, <1>5 DEF SamePlace, SameLoad
<1>7. Outcome(a, k) /\ WritingStays(a, k)
  BY <1>3, <1>6 DEF Outcome, WritingStays, SamePlace
<1> QED BY <1>6, <1>7, SamePlaceStays, SameLoadStays DEF k

\* Every message, whatever else is under way.
LEMMA HandledStep ==
  ASSUME Sane(ann), NEW m, MsgIsOK(m), NEW k \in Handled(m), NEW msgs,
         FocusIsIn(ann, msgs \cup {m}), LoadIsIn(ann, msgs \cup {m})
  PROVE  /\ Outcome(ann, k) /\ FocusIsIn(k.a, msgs \cup k.send) /\ LoadIsIn(k.a, msgs \cup k.send)
         /\ m.type # "picked" => WritingStays(ann, k)
<1>1. CASE m.type = "revision"
  <2>1. m.rev \in ARevisions /\ FocusIsIn(ann, msgs)
    BY <1>1, NotWaitedFor DEF MsgIsOK
  <2>2. \E err \in BOOLEAN, fs \in Seq(AFile) : PathsDiffer(fs) /\ k = revisionLoaded(ann, m, err, fs)
    <3>1. Handled(m) = {revisionLoaded(ann, m, FALSE, fs) : fs \in Loaded(m)} \cup {revisionLoaded(ann, m, TRUE, <<>>)}
      BY <1>1 DEF Handled
    <3>2. CASE k = revisionLoaded(ann, m, TRUE, <<>>)
      <4>1. <<>> \in Seq(AFile) /\ PathsDiffer(<<>>)
        BY DEF PathsDiffer
      <4> QED BY <3>2, <4>1
    <3>3. CASE \E fs \in Loaded(m) : k = revisionLoaded(ann, m, FALSE, fs)
      BY <2>1, <3>3, LoadedTyped
    <3> QED BY <3>1, <3>2, <3>3
  <2>3. PICK err \in BOOLEAN, fs \in Seq(AFile) : PathsDiffer(fs) /\ k = revisionLoaded(ann, m, err, fs)
    BY <2>2
  <2>4. /\ Outcome(ann, k) /\ FocusStays(ann, k) /\ ((\E x : FocusIsIn(ann, x)) => WritingStays(ann, k))
        /\ \A x : LoadIsIn(ann, x \cup {m}) => LoadIsIn(k.a, x \cup k.send)
    BY <1>1, <2>1, <2>3, RevisionStep
  <2> QED BY <2>1, <2>4 DEF FocusStays
<1>2. CASE m.type = "targets"
  <2>1. Handled(m) = {revisionTargetsLoaded(ann, m, targets) : targets \in SUBSET (ARevisions \ {m.rev})}
    BY <1>2 DEF Handled
  <2>2. PICK targets \in SUBSET (ARevisions \ {m.rev}) : k = revisionTargetsLoaded(ann, m, targets)
    BY <2>1
  <2>3. Outcome(ann, k) /\ FocusStays(ann, k) /\ LoadStays(ann, k) /\ WritingStays(ann, k)
    BY <2>2, RevisionTargetsStep
  <2>4. FocusIsIn(ann, msgs) /\ LoadIsIn(ann, msgs)
    BY <1>2, NotWaitedFor
  <2> QED BY <2>3, <2>4 DEF FocusStays, LoadStays
<1>3. CASE m.type = "file"
  <2>1. Handled(m) = {fileLoaded(ann, m, lines) : lines \in {0} \cup Contents(m.rev, m.arg)}
    BY <1>3 DEF Handled
  <2>2. m.rev \in ARevisions
    BY <1>3 DEF MsgIsOK
  <2>3. {0} \cup Contents(m.rev, m.arg) \subseteq Nat
    BY <2>2, LoadedTyped
  <2>4. PICK lines \in Nat : k = fileLoaded(ann, m, lines)
    BY <2>1, <2>3
  <2>5. /\ Outcome(ann, k) /\ LoadStays(ann, k)
        /\ \A x : FocusIsIn(ann, x \cup {m}) => FocusIsIn(k.a, x \cup k.send) /\ WritingStays(ann, k)
    BY <2>4, FileLoadedStep
  <2>6. LoadIsIn(ann, msgs)
    BY <1>3, NotWaitedFor
  <2> QED BY <2>5, <2>6 DEF LoadStays
<1>4. CASE m.type \in {"picked", "close", "open"}
  <2>1. FocusIsIn(ann, msgs) /\ LoadIsIn(ann, msgs)
    BY <1>4, NotWaitedFor
  <2>2. CASE m.type = "picked"
    <3>1. k = targetPicked(ann, m)
      BY <2>2 DEF Handled
    <3>2. Outcome(ann, k) /\ FocusStays(ann, k) /\ LoadStays(ann, k)
      BY <2>2, <3>1, PickedStep
    <3> QED BY <2>1, <2>2, <3>2 DEF FocusStays, LoadStays
  <2>3. CASE m.type = "close"
    <3>1. k = RequestClose(ann)
      BY <2>3 DEF Handled
    <3>2. Outcome(ann, k) /\ FocusStays(ann, k) /\ LoadStays(ann, k) /\ WritingStays(ann, k)
      BY <3>1, CloseStep
    <3> QED BY <2>1, <3>2 DEF FocusStays, LoadStays
  <2>4. CASE m.type = "open"
    <3>1. k.a = ann /\ k.send = {}
      BY <2>4 DEF Handled, AOut
    <3>2. Outcome(ann, k) /\ FocusStays(ann, k) /\ LoadStays(ann, k)
      BY <3>1, SameStep
    <3>3. WritingStays(ann, k)
      BY <3>1 DEF WritingStays
    <3> QED BY <2>1, <3>2, <3>3 DEF FocusStays, LoadStays
  <2> QED BY <1>4, <2>2, <2>3, <2>4
<1> QED BY <1>1, <1>2, <1>3, <1>4 DEF MsgIsOK

\* What a step does to the comments: one being written stays, one that is added is found.
WritingSafe ==
  /\ ann.editing /\ aMsgs' # aMsgs
  /\ \A m \in BagToSet(aMsgs) :
       m.type = "picked" => m \in BagToSet(aMsgs') /\ aMsgs[m] <= aMsgs'[m]
  => /\ ann'.editing /\ ann'.rev = ann.rev /\ ann'.file = ann.file
     /\ ann.focus = 0 => ann'.cursor = ann.cursor /\ ann'.anchor = ann.anchor

\* A comment that the step adds is found.
AddedFound == \A n \in ann'.items \ ann.items : FoundIn(ann, ann', n)

\* A key.
LEMMA KeyIs ==
  ASSUME AnnotationInv, AnnotationViewKey
  PROVE  AnnotationInv' /\ WritingSafe /\ AddedFound
<1>1. PICK k \in IF ann.editing THEN EditorKeys(ann) ELSE ViewKeys(ann) :
         ann' = k.a /\ aMsgs' = aMsgs (+) SetToBag(k.send)
  BY DEF AnnotationViewKey
<1>2. Sane(ann) /\ IsABag(aMsgs) /\ (\A m \in DOMAIN aMsgs : MsgIsOK(m))
      /\ FocusIsIn(ann, DOMAIN aMsgs) /\ LoadIsIn(ann, DOMAIN aMsgs)
  BY DEF AnnotationInv
<1>3. /\ Sane(k.a) /\ FocusStays(ann, k) /\ LoadStays(ann, k)
      /\ \A m \in k.send : MsgIsOK(m)
      /\ ann.editing => k.send = {}
      /\ \A n \in k.a.items \ ann.items : FoundIn(ann, k.a, n)
  <2>1. CASE ann.editing
    BY <1>1, <1>2, <2>1, EditorKeyStep
  <2>2. CASE ~ann.editing
    <3>1. Outcome(ann, k) /\ FocusStays(ann, k) /\ LoadStays(ann, k)
      BY <1>1, <1>2, <2>2, ViewKeyStep
    <3> QED BY <2>2, <3>1 DEF Outcome
  <2> QED BY <2>1, <2>2
<1>4. IsABag(aMsgs') /\ DOMAIN aMsgs' = DOMAIN aMsgs \cup k.send /\ (k.send = {} => aMsgs' = aMsgs)
  BY <1>1, <1>2, BagMore
<1>5. aPicker' = aPicker
  BY DEF AnnotationViewKey
<1>6. AnnotationInv'
  <2>1. FocusIsIn(ann', DOMAIN aMsgs') /\ LoadIsIn(ann', DOMAIN aMsgs')
    BY <1>1, <1>2, <1>3, <1>4 DEF FocusStays, LoadStays
  <2>2. Sane(ann') /\ (\A m \in DOMAIN aMsgs' : MsgIsOK(m))
    BY <1>1, <1>2, <1>3, <1>4
  <2>3. PickIsOK(aPicker') /\ aPicker'.payload \in {"none", "file", "comment", "revision"}
        /\ (aPicker'.payload = "none" => aPicker' = NoPicker)
    BY <1>5 DEF AnnotationInv
  <2> QED BY <1>4, <2>1, <2>2, <2>3 DEF AnnotationInv
<1> QED BY <1>1, <1>3, <1>4, <1>6 DEF WritingSafe, AddedFound

\* An answer: one copy of it is taken, and one of each message is added.
LEMMA DeliverIs ==
  ASSUME AnnotationInv, AnnotationDeliver
  PROVE  AnnotationInv' /\ WritingSafe /\ AddedFound
<1>1. PICK m \in DOMAIN aMsgs :
        /\ \E k \in Handled(m) : ann' = k.a /\ aMsgs' = (aMsgs (-) SetToBag({m})) (+) SetToBag(k.send)
        /\ aPicker' = CASE m.type = "open" -> m.pick [] m.type = "picked" -> NoPicker [] OTHER -> aPicker
  BY DEF AnnotationDeliver, BagToSet
<1>2. PICK k \in Handled(m) : ann' = k.a /\ aMsgs' = (aMsgs (-) SetToBag({m})) (+) SetToBag(k.send)
  BY <1>1
<1>3. Sane(ann) /\ IsABag(aMsgs) /\ (\A x \in DOMAIN aMsgs : MsgIsOK(x))
      /\ FocusIsIn(ann, DOMAIN aMsgs) /\ LoadIsIn(ann, DOMAIN aMsgs)
      /\ PickIsOK(aPicker) /\ aPicker.payload \in {"none", "file", "comment", "revision"}
      /\ (aPicker.payload = "none" => aPicker = NoPicker)
  BY DEF AnnotationInv
<1> DEFINE R == aMsgs (-) SetToBag({m})
<1>4. IsABag(R) /\ DOMAIN R \cup {m} = DOMAIN aMsgs /\ (m \in DOMAIN R => R[m] < aMsgs[m])
  BY <1>3, BagLess
<1>5. aMsgs' = R (+) SetToBag(k.send)
  BY <1>2
<1> HIDE DEF R
<1>6. IsABag(aMsgs') /\ DOMAIN aMsgs' = DOMAIN R \cup k.send
      /\ \A e \in DOMAIN R : e \notin k.send => aMsgs'[e] = R[e]
  BY <1>4, <1>5, BagMore
<1>7. /\ Outcome(ann, k) /\ FocusIsIn(k.a, DOMAIN R \cup k.send) /\ LoadIsIn(k.a, DOMAIN R \cup k.send)
      /\ m.type # "picked" => WritingStays(ann, k)
  <2>1. MsgIsOK(m) /\ FocusIsIn(ann, DOMAIN R \cup {m}) /\ LoadIsIn(ann, DOMAIN R \cup {m})
    BY <1>3, <1>4
  <2> QED BY <1>2, <1>3, <2>1, HandledStep
<1>8. PickIsOK(aPicker') /\ aPicker'.payload \in {"none", "file", "comment", "revision"}
      /\ (aPicker'.payload = "none" => aPicker' = NoPicker)
  <2>1. CASE m.type = "open"
    <3>1. aPicker' = m.pick
      BY <1>1, <2>1
    <3>2. MsgIsOK(m)
      BY <1>3
    <3> QED BY <2>1, <3>1, <3>2 DEF MsgIsOK
  <2>2. CASE m.type = "picked"
    <3>1. aPicker' = NoPicker
      BY <1>1, <2>2
    <3> QED BY <3>1 DEF NoPicker, PickIsOK
  <2>3. CASE m.type \notin {"open", "picked"}
    <3>1. aPicker' = aPicker
      BY <1>1, <2>3
    <3> QED BY <1>3, <3>1
  <2> QED BY <2>1, <2>2, <2>3
<1>9. AnnotationInv'
  <2>1. FocusIsIn(ann', DOMAIN aMsgs') /\ LoadIsIn(ann', DOMAIN aMsgs') /\ Sane(ann')
    BY <1>2, <1>6, <1>7 DEF Outcome
  <2>2. \A x \in DOMAIN aMsgs' : MsgIsOK(x)
    BY <1>3, <1>4, <1>6, <1>7 DEF Outcome
  <2> QED BY <1>6, <1>8, <2>1, <2>2 DEF AnnotationInv
<1>10. WritingSafe
  <2>1. CASE m.type = "picked"
    <3>1. m \notin k.send
      BY <1>7, <2>1 DEF Outcome
    <3>2. m \in DOMAIN aMsgs' => m \in DOMAIN R /\ aMsgs'[m] = R[m]
      BY <1>6, <3>1
    <3>3. m \in DOMAIN R => R[m] \in Nat /\ aMsgs[m] \in Nat
      BY <1>3, <1>4 DEF IsABag
    <3>4. ~(m \in DOMAIN aMsgs' /\ aMsgs[m] <= aMsgs'[m])
      BY <1>4, <3>2, <3>3
    <3> QED BY <2>1, <3>4 DEF WritingSafe, BagToSet
  <2>2. CASE m.type # "picked"
    BY <1>2, <1>7, <2>2 DEF WritingSafe, WritingStays
  <2> QED BY <2>1, <2>2
<1>11. AddedFound
  BY <1>2, <1>7 DEF AddedFound, Outcome
<1> QED BY <1>9, <1>10, <1>11

\* The other steps leave the messages, or the view, as they are.
LEMMA ClickIs ==
  ASSUME AnnotationInv, LineClicked
  PROVE  AnnotationInv' /\ WritingSafe /\ AddedFound
<1>1. PICK i \in 1 .. SourceLen(ann) : ann' = Refocus([ann EXCEPT !.cursor = i, !.anchor = 0])
  BY DEF LineClicked
<1>2. UNCHANGED <<aMsgs, aPicker>>
  BY DEF LineClicked
<1>3. Sane(ann) /\ FocusIsIn(ann, DOMAIN aMsgs) /\ LoadIsIn(ann, DOMAIN aMsgs)
  BY DEF AnnotationInv
<1>4. i \in Nat \ {0}
  <2>1. SourceLen(ann) \in Nat
    BY <1>3, SourceTyped DEF Sane
  <2> QED BY <2>1
<1> DEFINE k == AOut(ann', {})
<1>5. Outcome(ann, k) /\ FocusStays(ann, k) /\ LoadStays(ann, k)
  BY <1>1, <1>3, <1>4, PlaceStep
<1>6. k.a = ann' /\ k.send = {}
  BY DEF AOut
<1> HIDE DEF k
<1>7. Sane(ann') /\ ann'.items \subseteq ann.items
  BY <1>5, <1>6 DEF Outcome
<1>8. FocusIsIn(ann', DOMAIN aMsgs) /\ LoadIsIn(ann', DOMAIN aMsgs)
  <2>1. DOMAIN aMsgs \cup k.send = DOMAIN aMsgs
    BY <1>6
  <2> QED BY <1>3, <1>5, <1>6, <2>1 DEF FocusStays, LoadStays
<1>9. AnnotationInv'
  BY <1>2, <1>7, <1>8 DEF AnnotationInv
<1> QED BY <1>2, <1>7, <1>9 DEF WritingSafe, AddedFound

\* A key that answers the question.
LEMMA QuestionIs ==
  ASSUME AnnotationInv, AnnotationQuestionKey
  PROVE  AnnotationInv' /\ WritingSafe /\ AddedFound
<1>1. ann' = [ann EXCEPT !.question = FALSE] /\ UNCHANGED <<aMsgs, aPicker>>
  BY DEF AnnotationQuestionKey
<1>2. Sane(ann) /\ FocusIsIn(ann, DOMAIN aMsgs) /\ LoadIsIn(ann, DOMAIN aMsgs)
  BY DEF AnnotationInv
<1>3. ann \in AViews /\ ann.cursor > 0 /\ (ann.editing => HasFile(ann)) /\ PathsDiffer(ann.files)
      /\ (ann.loading => ann.files = <<>>)
  BY <1>2 DEF Sane
<1>4. ann' \in AViews /\ SamePlace(ann, ann') /\ SameLoad(ann, ann') /\ ann'.made = ann.made
  BY <1>1, <1>3 DEF AViews, SamePlace, SameLoad
<1>5. HasFile(ann') = HasFile(ann)
  BY <1>4 DEF HasFile, SamePlace
<1>6. Sane(ann')
  <2> DEFINE b == ann'
  <2>1. b \in AViews /\ b.cursor > 0 /\ (b.editing => HasFile(b)) /\ b.items \subseteq ann.items /\ b.made = ann.made
        /\ PathsDiffer(b.files) /\ (b.loading => ann.loading /\ b.files = <<>>)
    BY <1>3, <1>4, <1>5 DEF SamePlace, SameLoad
  <2> HIDE DEF b
  <2>2. Sane(b)
    BY <1>2, <2>1, SaneKeeps
  <2> QED BY <2>2 DEF b
<1> DEFINE k == AOut(ann', {})
<1>7. k.a = ann' /\ k.send = {}
  BY DEF AOut
<1> HIDE DEF k
<1>8. FocusStays(ann, k) /\ LoadStays(ann, k)
  BY <1>4, <1>7, SamePlaceStays, SameLoadStays
<1>9. FocusIsIn(ann', DOMAIN aMsgs) /\ LoadIsIn(ann', DOMAIN aMsgs)
  <2>1. DOMAIN aMsgs \cup k.send = DOMAIN aMsgs
    BY <1>7
  <2> QED BY <1>2, <1>7, <1>8, <2>1 DEF FocusStays, LoadStays
<1>10. AnnotationInv'
  BY <1>1, <1>6, <1>9 DEF AnnotationInv
<1> QED BY <1>1, <1>4, <1>10 DEF WritingSafe, AddedFound, SamePlace

\* Enter in the picker.
LEMMA AcceptIs ==
  ASSUME AnnotationInv, PickerAccepts
  PROVE  AnnotationInv' /\ WritingSafe /\ AddedFound
<1>1. PICK i \in aPicker.items :
        aMsgs' = aMsgs (+) SetToBag({[AMsg("picked") EXCEPT !.arg = i, !.pick = [aPicker EXCEPT !.items = {}]]})
  BY DEF PickerAccepts
<1>2. UNCHANGED <<ann, aPicker>> /\ aPicker # NoPicker
  BY DEF PickerAccepts
<1>3. IsABag(aMsgs) /\ (\A m \in DOMAIN aMsgs : MsgIsOK(m)) /\ Sane(ann) /\ PickIsOK(aPicker)
      /\ aPicker.payload \in {"file", "comment", "revision"} /\ FocusIsIn(ann, DOMAIN aMsgs) /\ LoadIsIn(ann, DOMAIN aMsgs)
  BY <1>2 DEF AnnotationInv
<1> DEFINE p == [aPicker EXCEPT !.items = {}]
           x == [AMsg("picked") EXCEPT !.arg = i, !.pick = p]
<1>4. x.type = "picked" /\ x.arg = i /\ x.pick = p
  BY DEF AMsg
<1>5. p.payload = aPicker.payload
  <2>1. aPicker = [payload |-> aPicker.payload, items |-> aPicker.items]
    BY <1>3 DEF PickIsOK
  <2>2. p = [payload |-> aPicker.payload, items |-> {}]
    BY <2>1
  <2> QED BY <2>2
<1>6. MsgIsOK(x)
  <2> HIDE DEF x, p
  <2> QED BY <1>3, <1>4, <1>5 DEF MsgIsOK, PickIsOK
<1> HIDE DEF x, p
<1>7. IsABag(aMsgs') /\ DOMAIN aMsgs' = DOMAIN aMsgs \cup {x}
  BY <1>1, <1>3, BagMore DEF x, p
<1>8. FocusIsIn(ann, DOMAIN aMsgs') /\ LoadIsIn(ann, DOMAIN aMsgs')
  BY <1>3, <1>7 DEF FocusIsIn, LoadIsIn
<1>9. AnnotationInv'
  <2>1. \A m \in DOMAIN aMsgs' : MsgIsOK(m)
    BY <1>3, <1>6, <1>7
  <2> QED BY <1>2, <1>7, <1>8, <2>1 DEF AnnotationInv
<1> QED BY <1>2, <1>9 DEF WritingSafe, AddedFound

\* Escape in the picker, and no step.
LEMMA PickerGoesIs ==
  ASSUME AnnotationInv, PickerCloses \/ UNCHANGED annotationViewVars
  PROVE  AnnotationInv' /\ WritingSafe /\ AddedFound
<1>1. UNCHANGED <<ann, aMsgs>> /\ (aPicker' = NoPicker \/ aPicker' = aPicker)
  BY DEF PickerCloses, annotationViewVars
<1>2. PickIsOK(NoPicker) /\ NoPicker.payload = "none"
  BY DEF PickIsOK, NoPicker
<1>3. PickIsOK(aPicker') /\ aPicker'.payload \in {"none", "file", "comment", "revision"}
      /\ (aPicker'.payload = "none" => aPicker' = NoPicker)
  BY <1>1, <1>2 DEF AnnotationInv
<1>4. AnnotationInv'
  BY <1>1, <1>3 DEF AnnotationInv
<1> QED BY <1>1, <1>4 DEF WritingSafe, AddedFound

\* The view begins with its load under way.
LEMMA AnnotationStarts == AnnotationInit => AnnotationInv
<1> SUFFICES ASSUME AnnotationInit PROVE AnnotationInv
  OBVIOUS
<1>1. PICK r \in ARevisions :
        /\ ann = NewAnnotationView(r)
        /\ aMsgs = SetToBag({[AMsg("revision") EXCEPT !.rev = r, !.req = 1]})
  BY DEF AnnotationInit
<1> DEFINE x == [AMsg("revision") EXCEPT !.rev = r, !.req = 1]
<1>2. x.type = "revision" /\ x.rev = r /\ x.req = 1
  BY DEF AMsg
<1> HIDE DEF x
<1>3. aMsgs = SetToBag({x})
  BY <1>1 DEF x
<1>4. DOMAIN aMsgs = {x} /\ IsABag(aMsgs)
  BY <1>3 DEF SetToBag, IsABag
<1>5. MsgIsOK(x)
  BY <1>2 DEF MsgIsOK
<1>6. ann \in AViews
  <2>1. <<>> \in Seq(AFile)
    OBVIOUS
  <2> QED BY <1>1, <2>1 DEF AViews, NewAnnotationView
<1>7. Sane(ann)
  <2>1. ann.cursor = 1 /\ ~ann.editing /\ ann.items = {} /\ ann.files = <<>>
    BY <1>1 DEF NewAnnotationView
  <2> QED BY <1>6, <2>1 DEF Sane, CommentsAreApart, PathsDiffer
<1>8. FocusIsIn(ann, DOMAIN aMsgs) /\ LoadIsIn(ann, DOMAIN aMsgs)
  <2>1. ann.focus = 0 /\ ann.loadingRev = 0 /\ ann.loadReq = 1 /\ ann.rev = r
    BY <1>1 DEF NewAnnotationView
  <2> QED BY <1>2, <1>4, <2>1 DEF FocusIsIn, LoadIsIn
<1>9. aPicker = NoPicker /\ NoPicker.payload = "none" /\ PickIsOK(NoPicker)
  BY DEF AnnotationInit, NoPicker, PickIsOK
<1> QED BY <1>4, <1>5, <1>7, <1>8, <1>9 DEF AnnotationInv

\* The invariant holds whatever is loaded, answered twice or late (model.go Update).
LEMMA AnnotationInvariance == AnnotationSpec => [](AnnotationInv)
<1>1. AnnotationInv /\ [AnnotationNext]_annotationViewVars => AnnotationInv'
  BY KeyIs, ClickIs, QuestionIs, DeliverIs, AcceptIs, PickerGoesIs DEF AnnotationNext
<1> QED BY <1>1, AnnotationStarts, PTL DEF AnnotationSpec

\* The focus is on a comment that is shown, a load that is waited for is under way, a comment stays at
\* the lines it is written about and is found there (annotation/model.go Update, saveEditor).
THEOREM AnnotationSound == AnnotationSpec => AnnotationIsSound
<1>1. AnnotationInv => AnnotationTypeOK /\ FocusIsShown /\ LoadIsUnderWay
  <2> SUFFICES ASSUME AnnotationInv PROVE AnnotationTypeOK /\ FocusIsShown /\ LoadIsUnderWay
    OBVIOUS
  <2>1. Sane(ann) /\ FocusIsIn(ann, DOMAIN aMsgs) /\ LoadIsIn(ann, DOMAIN aMsgs)
    BY DEF AnnotationInv
  <2>2. AnnotationTypeOK
    <3>1. ann.anchor \in Nat /\ ann.cursor \in Nat
      BY <2>1 DEF Sane, AViews
    <3> QED BY <2>1, <3>1 DEF Sane, CommentsAreApart, AnnotationTypeOK
  <2>3. FocusIsShown /\ LoadIsUnderWay
    BY <2>1, Zenon DEF FocusIsIn, LoadIsIn, FocusIsShown, LoadIsUnderWay, BagToSet
  <2> QED BY <2>2, <2>3
<1>2. AnnotationInv /\ [AnnotationNext]_annotationViewVars => WritingSafe /\ AddedFound
  BY KeyIs, ClickIs, QuestionIs, DeliverIs, AcceptIs, PickerGoesIs DEF AnnotationNext
<1>3. AddedFound <=> \A n \in ann'.items \ ann.items :
        LET marked == {i \in 1 .. SourceLen(ann) : Commentable(ann, i) /\
                         \/ i = ann.cursor
                         \/ ann.anchor # 0 /\ Min({ann.anchor, ann.cursor}) <= i /\ i <= Max({ann.anchor, ann.cursor})}
        IN  IF Max({ann.anchor, ann.cursor}) <= SourceLen(ann)
              THEN \A i \in marked : AnnotationContains(ann', i, n)
              ELSE Locations(n) = {}
  BY Zenon DEF AddedFound, FoundIn, MarkedLines
<1>4. AnnotationSpec => CommentStaysInPlace
  <2>1. AnnotationSpec => [][WritingSafe]_annotationViewVars
    BY <1>2, AnnotationInvariance, PTL DEF AnnotationSpec
  <2>2. [][WritingSafe]_annotationViewVars <=> CommentStaysInPlace
    BY PTL DEF WritingSafe, CommentStaysInPlace
  <2> QED BY <2>1, <2>2, PTL
<1>5. AnnotationSpec => CommentIsFound
  <2>1. AnnotationSpec => [][AddedFound]_annotationViewVars
    BY <1>2, AnnotationInvariance, PTL DEF AnnotationSpec
  <2>2. [][AddedFound]_annotationViewVars <=> CommentIsFound
    BY <1>3, PTL DEF CommentIsFound
  <2> QED BY <2>1, <2>2, PTL
<1> QED BY <1>1, <1>4, <1>5, AnnotationInvariance, PTL DEF AnnotationIsSound
=============================================================================
