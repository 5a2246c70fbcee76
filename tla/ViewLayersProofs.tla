-------------------------- MODULE ViewLayersProofs --------------------------
(***************************************************************************)
(* That the layers stay in order and that a close takes no more than it    *)
(* should, for any dialogs and bounds.                                     *)
(***************************************************************************)
EXTENDS ViewLayers, SequenceTheorems, TLAPS

\* The messages under way: a close comes from one of four places, and a dialog
\* is asked for only if it is in use.
Sound(m) ==
  /\ m.type = "close" => m \in {Close(FALSE, "key"), Close(FALSE, "history"),
                                Close(TRUE, "command"), Close(TRUE, "discard")}
  /\ m.type = "choose" => "choose" \in Dialogs
  /\ m.type = "openPicker" => "picker" \in Dialogs
BagInv(bag) == IsABag(bag) /\ \A m \in DOMAIN bag : Sound(m)

LayersInv == LayersAreSound /\ BagInv(msgs)

-----------------------------------------------------------------------------
(* Messages.                                                                 *)

\* The number of copies of a message is a number, positive for those under way.
LEMMA CopiesTyped ==
  ASSUME NEW B, IsABag(B), NEW e
  PROVE  Copies(e, B) \in Nat /\ (e \in DOMAIN B <=> Copies(e, B) > 0)
BY DEF IsABag, Copies

\* Posting a message adds a copy of it and leaves the others alone.
LEMMA PostCopies ==
  ASSUME NEW B, BagInv(B), NEW m
  PROVE  /\ Sound(m) => BagInv(Post(B, m))
         /\ \A e : Copies(e, Post(B, m)) = IF e = m THEN Copies(e, B) + 1 ELSE Copies(e, B)
<1> DEFINE S == SetToBag({m})
           P == Post(B, m)
<1>1. DOMAIN S = {m} /\ S[m] = 1
  BY DEF SetToBag
<1>2. P = B (+) S
  BY DEF Post
<1>3. DOMAIN P = DOMAIN B \cup {m}
  BY <1>1, <1>2 DEF (+)
<1>4. ASSUME NEW t \in DOMAIN B \cup {m}
      PROVE  P[t] = (IF t \in DOMAIN B THEN B[t] ELSE 0) + (IF t \in {m} THEN S[t] ELSE 0)
  BY <1>1, <1>2, <1>4 DEF (+)
<1>5. P = [t \in DOMAIN B \cup {m} |-> P[t]]
  BY <1>1, <1>2, <1>3 DEF (+)
<1>6. ASSUME NEW t \in DOMAIN B PROVE B[t] \in Nat /\ B[t] > 0
  BY <1>6 DEF BagInv, IsABag
<1> HIDE DEF P, S
<1>7. ASSUME NEW t \in DOMAIN B \cup {m} PROVE P[t] \in Nat /\ P[t] > 0
  BY <1>1, <1>4, <1>6, <1>7
<1>8. IsABag(P)
  BY <1>3, <1>5, <1>7 DEF IsABag
<1>9. Sound(m) => BagInv(P)
  BY <1>3, <1>8 DEF BagInv
<1>10. ASSUME NEW e PROVE Copies(e, P) = IF e = m THEN Copies(e, B) + 1 ELSE Copies(e, B)
  <2>1. CASE e \in DOMAIN B
    BY <1>1, <1>3, <1>4, <1>6, <2>1 DEF Copies
  <2>2. CASE e \notin DOMAIN B
    BY <1>1, <1>3, <1>4, <2>2 DEF Copies
  <2> QED BY <2>1, <2>2
<1> QED BY <1>9, <1>10 DEF P

\* Taking a message takes one copy of it and leaves the others alone.
LEMMA TakeCopies ==
  ASSUME NEW B, BagInv(B), NEW m \in DOMAIN B
  PROVE  /\ BagInv(B (-) SetToBag({m}))
         /\ \A e : Copies(e, B (-) SetToBag({m})) =
                     IF e = m THEN Copies(e, B) - 1 ELSE Copies(e, B)
<1> DEFINE C == [t \in DOMAIN B |-> IF t \in DOMAIN SetToBag({m}) THEN B[t] - SetToBag({m})[t] ELSE B[t]]
           D == {d \in DOMAIN C : C[d] > 0}
           R == B (-) SetToBag({m})
<1>1. DOMAIN SetToBag({m}) = {m} /\ SetToBag({m})[m] = 1
  BY DEF SetToBag
<1>2. R = [t \in D |-> C[t]]
  BY DEF (-)
<1>3. ASSUME NEW t \in DOMAIN B
      PROVE  /\ B[t] \in Nat /\ B[t] > 0
             /\ C[t] = IF t = m THEN B[t] - 1 ELSE B[t]
  BY <1>1, <1>3 DEF BagInv, IsABag
<1>4. DOMAIN C = DOMAIN B
  OBVIOUS
<1>5. D = {d \in DOMAIN B : C[d] > 0}
  BY <1>4
<1> HIDE DEF C, D, R
<1>6. D \subseteq DOMAIN B /\ \A t \in D : C[t] \in Nat /\ C[t] > 0
  BY <1>3, <1>5
<1>7. IsABag(R)
  BY <1>2, <1>6 DEF IsABag
<1>8. BagInv(R)
  BY <1>2, <1>6, <1>7 DEF BagInv
<1>9. ASSUME NEW e PROVE Copies(e, R) = IF e = m THEN Copies(e, B) - 1 ELSE Copies(e, B)
  <2>1. CASE e \in DOMAIN B
    <3>1. Copies(e, B) = B[e]
      BY <2>1 DEF Copies
    <3>2. CASE e \in D
      <4>1. Copies(e, R) = C[e]
        BY <1>2, <3>2 DEF Copies
      <4> QED BY <1>3, <2>1, <3>1, <4>1
    <3>3. CASE e \notin D
      <4>1. Copies(e, R) = 0
        BY <1>2, <3>3 DEF Copies
      <4>2. ~(C[e] > 0)
        BY <1>5, <2>1, <3>3
      <4> QED BY <1>3, <2>1, <3>1, <4>1, <4>2
    <3> QED BY <3>2, <3>3
  <2>2. CASE e \notin DOMAIN B
    BY <1>2, <1>6, <2>2 DEF Copies
  <2> QED BY <2>1, <2>2
<1> QED BY <1>8, <1>9 DEF R

-----------------------------------------------------------------------------
(* The list of layers.                                                       *)

Kinds == Screens \cup Dialogs
ListInv(ls) ==
  /\ ls \in Seq(Kinds)
  /\ \A i, j \in DOMAIN ls : ls[i] = ls[j] /\ ls[i] \in Screens => i = j

\* A list that was changed is in order and has lost no annotation.
Keeps(ls, new) == ListInv(new) /\ ("annotation" \in Range(ls) => "annotation" \in Range(new))

\* A view is open when it is at some place of the list.
LEMMA InRange ==
  ASSUME NEW ls, ls \in Seq(Kinds), NEW x
  PROVE  x \in Range(ls) <=> \E i \in 1 .. Len(ls) : ls[i] = x
BY DEF Range

\* The last layer goes.
LEMMA FrontList ==
  ASSUME NEW ls, ListInv(ls), ls # <<>>
  PROVE  /\ ListInv(Front(ls)) /\ Len(Front(ls)) = Len(ls) - 1
         /\ Last(ls) = ls[Len(ls)] /\ Last(ls) \in Kinds
         /\ Last(ls) # "annotation" => Keeps(ls, Front(ls))
<1> DEFINE n == Len(ls)
           gs == Front(ls)
<1>1. ls \in Seq(Kinds) /\ n \in Nat /\ n > 0 /\ DOMAIN ls = 1 .. n
  BY DEF ListInv
<1>2. Last(ls) = ls[n] /\ ls[n] \in Kinds
  BY <1>1 DEF Last
<1>3. /\ gs \in Seq(Kinds) /\ Len(gs) = n - 1 /\ DOMAIN gs = 1 .. n - 1
      /\ \A k \in 1 .. n - 1 : gs[k] = ls[k] /\ k \in 1 .. n
  BY <1>1 DEF Front
<1> HIDE DEF gs
<1>4. ListInv(gs)
  BY <1>1, <1>3 DEF ListInv
<1>5. ASSUME Last(ls) # "annotation", "annotation" \in Range(ls) PROVE "annotation" \in Range(gs)
  <2>1. PICK i \in 1 .. n : ls[i] = "annotation"
    BY <1>1, <1>5, InRange
  <2>2. i \in 1 .. n - 1 /\ gs[i] = "annotation"
    BY <1>1, <1>2, <1>3, <1>5, <2>1
  <2> QED BY <1>3, <2>2, InRange
<1> QED BY <1>2, <1>3, <1>4, <1>5 DEF gs, Keeps

\* A layer is added; a screen only if there is none of its kind.
LEMMA AppendList ==
  ASSUME NEW ls, ListInv(ls), NEW kind \in Kinds, kind \in Screens => kind \notin Range(ls)
  PROVE  Keeps(ls, Append(ls, kind)) /\ kind \in Range(Append(ls, kind))
<1> DEFINE n == Len(ls)
           gs == Append(ls, kind)
<1>1. ls \in Seq(Kinds) /\ n \in Nat /\ DOMAIN ls = 1 .. n
  BY DEF ListInv
<1>2. /\ gs \in Seq(Kinds) /\ Len(gs) = n + 1 /\ DOMAIN gs = 1 .. n + 1
      /\ gs[n + 1] = kind /\ \A k \in 1 .. n : gs[k] = ls[k] /\ k \in 1 .. n + 1
  BY <1>1
<1> HIDE DEF gs
<1>3. ASSUME NEW i \in DOMAIN gs, NEW j \in DOMAIN gs, gs[i] = gs[j], gs[i] \in Screens PROVE i = j
  <2>1. (i \in 1 .. n \/ i = n + 1) /\ (j \in 1 .. n \/ j = n + 1)
    BY <1>1, <1>2
  <2>2. ASSUME NEW k \in 1 .. n, ls[k] = kind, kind \in Screens PROVE FALSE
    BY <1>1, <2>2, InRange
  <2>3. CASE i \in 1 .. n /\ j \in 1 .. n
    BY <1>1, <1>2, <1>3, <2>3 DEF ListInv
  <2> QED BY <1>2, <1>3, <2>1, <2>2, <2>3
<1>4. ListInv(gs)
  BY <1>2, <1>3 DEF ListInv
<1>5. kind \in Range(gs)
  BY <1>1, <1>2, InRange
<1>6. "annotation" \in Range(ls) => "annotation" \in Range(gs)
  BY <1>1, <1>2, InRange
<1> QED BY <1>4, <1>5, <1>6 DEF gs, Keeps

\* closeDialog takes away a dialog at most: it keeps the list sound and its screens.
LEMMA CloseDialogList ==
  ASSUME NEW ls, ListInv(ls)
  PROVE  Keeps(ls, closeDialog(ls)) /\ Len(closeDialog(ls)) <= Len(ls)
<1>1. Len(ls) \in Nat
  BY DEF ListInv
<1>2. CASE ls # <<>> /\ IsDialog(Last(ls))
  <2>1. Last(ls) # "annotation"
    BY <1>2 DEF IsDialog, AllDialogs
  <2>2. Keeps(ls, Front(ls)) /\ Len(Front(ls)) = Len(ls) - 1
    BY <1>2, <2>1, FrontList
  <2> QED BY <1>1, <1>2, <2>2 DEF closeDialog
<1>3. CASE ~(ls # <<>> /\ IsDialog(Last(ls)))
  BY <1>1, <1>3 DEF closeDialog, Keeps
<1> QED BY <1>2, <1>3

\* openDialog replaces a dialog or adds one: it keeps the list sound and its screens.
LEMMA OpenDialogList ==
  ASSUME NEW ls, ListInv(ls), NEW kind \in Dialogs
  PROVE  Keeps(ls, openDialog(ls, kind))
<1>1. kind \notin Screens /\ kind \in Kinds
  BY DialogsAssumption DEF Screens, AllDialogs, Kinds
<1>2. Keeps(ls, closeDialog(ls))
  BY CloseDialogList
<1>3. Keeps(closeDialog(ls), Append(closeDialog(ls), kind))
  BY <1>1, <1>2, AppendList DEF Keeps
<1> QED BY <1>2, <1>3 DEF Keeps, openDialog

\* The screen of a kind that is open goes, and the others stay.
LEMMA WithoutScreenList ==
  ASSUME NEW ls, ListInv(ls), NEW kind \in Screens
  PROVE  /\ ListInv(WithoutScreen(ls, kind)) /\ kind \notin Range(WithoutScreen(ls, kind))
         /\ kind # "annotation" => Keeps(ls, WithoutScreen(ls, kind))
<1> DEFINE n == Len(ls)
           at == CHOOSE i \in DOMAIN ls : ls[i] = kind
           gs == WithoutScreen(ls, kind)
<1>1. ls \in Seq(Kinds) /\ n \in Nat /\ DOMAIN ls = 1 .. n
  BY DEF ListInv
<1>2. CASE kind \notin Range(ls)
  <2>1. gs = ls
    BY <1>2 DEF WithoutScreen
  <2> QED BY <1>2, <2>1 DEF Keeps
<1>3. CASE kind \in Range(ls)
  <2>1. \E i \in DOMAIN ls : ls[i] = kind
    BY <1>1, <1>3, InRange
  <2>2. at \in 1 .. n /\ ls[at] = kind
    BY <1>1, <2>1
  <2>3. gs = RemoveAt(ls, at)
    BY <1>3 DEF WithoutScreen
  <2> HIDE DEF at, gs
  <2> DEFINE a == SubSeq(ls, 1, at - 1)
             b == SubSeq(ls, at + 1, n)
  <2>4. /\ a \in Seq(Kinds) /\ Len(a) = at - 1
        /\ \A k \in 1 .. at - 1 : a[k] = ls[k]
    BY <1>1, <2>2
  <2>5. /\ b \in Seq(Kinds) /\ Len(b) = n - at
        /\ \A k \in 1 .. n - at : b[k] = ls[at + k]
    <3>1. n \in Nat /\ at \in 1 .. n /\ \A i \in at + 1 .. n : ls[i] \in Kinds
      BY <1>1, <2>2
    <3>2. /\ b \in Seq(Kinds) /\ Len(b) = IF at + 1 <= n THEN n - (at + 1) + 1 ELSE 0
          /\ \A k \in 1 .. n - (at + 1) + 1 : b[k] = ls[(at + 1) + k - 1]
      <4>1. at + 1 \in Int /\ n \in Int
        BY <3>1
      <4> HIDE DEF n
      <4> QED BY <3>1, <4>1, SubSeqProperties
    <3>3. n - (at + 1) + 1 = n - at /\ \A k \in 1 .. n - at : (at + 1) + k - 1 = at + k
      BY <3>1
    <3> HIDE DEF b, n
    <3> QED BY <3>1, <3>2, <3>3
  <2>6. gs = a \o b
    BY <2>3 DEF RemoveAt
  <2> HIDE DEF a, b
  <2>7. /\ gs \in Seq(Kinds) /\ Len(gs) = Len(a) + Len(b)
        /\ \A k \in 1 .. Len(a) + Len(b) : gs[k] = IF k <= Len(a) THEN a[k] ELSE b[k - Len(a)]
    BY <2>4, <2>5, <2>6, ConcatProperties
  <2>8. Len(gs) = n - 1 /\ DOMAIN gs = 1 .. n - 1
    BY <1>1, <2>2, <2>4, <2>5, <2>7
  <2>9. ASSUME NEW k \in 1 .. n - 1
        PROVE  gs[k] = ls[IF k < at THEN k ELSE k + 1]
    <3>0. n \in Nat /\ at \in 1 .. n /\ Len(a) = at - 1 /\ k \in 1 .. Len(a) + Len(b)
      BY <1>1, <2>2, <2>4, <2>5
    <3>1. CASE k < at
      <4>1. k <= Len(a) /\ k \in 1 .. at - 1
        BY <3>0, <3>1
      <4> QED BY <2>4, <2>7, <3>0, <3>1, <4>1
    <3>2. CASE ~(k < at)
      <4>1. ~(k <= Len(a)) /\ k - Len(a) \in 1 .. n - at /\ at + (k - Len(a)) = k + 1
        BY <3>0, <3>2
      <4> QED BY <2>5, <2>7, <3>0, <3>2, <4>1
    <3> QED BY <3>1, <3>2
  <2>10. ASSUME NEW k \in 1 .. n - 1
         PROVE  \E l \in 1 .. n : l = (IF k < at THEN k ELSE k + 1) /\ l # at /\ gs[k] = ls[l]
    BY <1>1, <2>2, <2>9
  <2>11. kind \notin Range(gs)
    <3> SUFFICES ASSUME NEW k \in 1 .. n - 1, gs[k] = kind PROVE FALSE
      BY <2>7, <2>8, InRange
    <3>1. PICK l \in 1 .. n : l # at /\ gs[k] = ls[l]
      BY <2>10
    <3> QED BY <1>1, <2>2, <3>1 DEF ListInv
  <2>12. ListInv(gs)
    <3> SUFFICES ASSUME NEW i \in 1 .. n - 1, NEW j \in 1 .. n - 1, gs[i] = gs[j], gs[i] \in Screens
                 PROVE  i = j
      BY <2>7, <2>8 DEF ListInv
    <3>1. PICK p \in 1 .. n : p = (IF i < at THEN i ELSE i + 1) /\ gs[i] = ls[p]
      BY <2>10
    <3>2. PICK q \in 1 .. n : q = (IF j < at THEN j ELSE j + 1) /\ gs[j] = ls[q]
      BY <2>10
    <3>3. p = q
      BY <1>1, <3>1, <3>2 DEF ListInv
    <3> QED BY <1>1, <2>2, <3>1, <3>2, <3>3
  <2>13. ASSUME kind # "annotation", "annotation" \in Range(ls) PROVE "annotation" \in Range(gs)
    <3>1. PICK l \in 1 .. n : ls[l] = "annotation"
      BY <1>1, <2>13, InRange
    <3>2. l # at
      BY <2>2, <2>13, <3>1
    <3> DEFINE k == IF l < at THEN l ELSE l - 1
    <3>3. k \in 1 .. n - 1 /\ (IF k < at THEN k ELSE k + 1) = l
      BY <1>1, <2>2, <3>1, <3>2
    <3>4. gs[k] = "annotation"
      BY <2>9, <3>1, <3>3
    <3> QED BY <2>7, <2>8, <3>3, <3>4, InRange
  <2> QED BY <2>11, <2>12, <2>13 DEF Keeps, gs
<1> QED BY <1>2, <1>3

\* openScreen leaves one screen of a kind, on top, and drops no annotation unless it
\* opens one.
LEMMA OpenScreenList ==
  ASSUME NEW ls, ListInv(ls), NEW kind \in Screens
  PROVE  /\ ListInv(openScreen(ls, kind))
         /\ kind # "annotation" => Keeps(ls, openScreen(ls, kind))
<1> DEFINE gs == WithoutScreen(ls, kind)
<1>1. /\ ListInv(gs) /\ kind \notin Range(gs)
      /\ kind # "annotation" => Keeps(ls, gs)
  BY WithoutScreenList
<1>2. kind \in Kinds
  BY DEF Kinds
<1> HIDE DEF gs
<1>3. Keeps(gs, Append(gs, kind))
  BY <1>1, <1>2, AppendList
<1> QED BY <1>1, <1>3 DEF Keeps, openScreen, gs

-----------------------------------------------------------------------------
(* The invariant, part by part.                                              *)

ListPart == ListInv(layers) /\ Len(layers) <= MaxLayers
StatusPart == statusExpanded \in BOOLEAN /\ sequence \in {"none", "auto", "kept"}
RevisionsPart == contentFocused \in BOOLEAN /\ baseOp \in BOOLEAN /\ opLayers \in 0 .. MaxOpLayers
AnnotationPart == uncopied \in BOOLEAN /\ confirming \in BOOLEAN /\ QuestionIsAboutComments
Parts == ListPart /\ StatusPart /\ RevisionsPart /\ AnnotationPart /\ BagInv(msgs)

\* The parts the steps are proved for are the invariant.
LEMMA PartsAreAll == Parts <=> LayersInv
<1>1. Parts => LayersInv
  BY DEF Parts, ListPart, StatusPart, RevisionsPart, AnnotationPart, LayersInv, LayersAreSound, TypeOK,
         OneScreenOfAKind, ListInv, Kinds
<1>2. LayersInv => Parts
  BY DEF Parts, ListPart, StatusPart, RevisionsPart, AnnotationPart, LayersInv, LayersAreSound, TypeOK,
         OneScreenOfAKind, ListInv, Kinds
<1> QED BY <1>1, <1>2

\* The end of a key sequence leaves the help in order.
LEMMA ClearKeeps ==
  ASSUME StatusPart, clearSequenceStatusHelp
  PROVE  StatusPart'
BY DEF StatusPart, clearSequenceStatusHelp, ExpandedAfterClear

\* A change of the list that loses no annotation.
LEMMA NewList ==
  ASSUME ListPart, AnnotationPart, NEW new, Keeps(layers, new), Len(new) <= MaxLayers,
         layers' = new, uncopied' = uncopied, confirming' \in {confirming, FALSE}
  PROVE  ListPart' /\ AnnotationPart'
<1>1. ListPart'
  BY DEF ListPart, Keeps, ListInv
<1>2. uncopied' \in BOOLEAN /\ confirming' \in BOOLEAN
  BY DEF AnnotationPart
<1>3. QuestionIsAboutComments'
  BY DEF AnnotationPart, QuestionIsAboutComments, Keeps
<1> QED BY <1>1, <1>2, <1>3 DEF AnnotationPart

\* The messages that keys and handlers send are sound.
LEMMA SoundMsgs ==
  /\ \A t : t \notin {"close", "choose", "openPicker"} => Sound([type |-> t])
  /\ Sound(Close(FALSE, "key")) /\ Sound(Close(FALSE, "history"))
  /\ Sound(Close(TRUE, "command")) /\ Sound(Close(TRUE, "discard"))
BY DEF Sound, Close

-----------------------------------------------------------------------------
(* Keys.                                                                     *)

\* A key that changes the list of views only keeps the invariant.
LEMMA KeyOnLayersKeeps ==
  ASSUME Parts, NEW new, Keeps(layers, new), KeyOnLayers(new)
  PROVE  Parts'
<1>1. /\ Len(new) <= MaxLayers /\ layers' = new /\ uncopied' = uncopied /\ confirming' = confirming
      /\ contentFocused' = contentFocused /\ baseOp' = baseOp /\ opLayers' = opLayers /\ msgs' = msgs
      /\ clearSequenceStatusHelp
  BY DEF KeyOnLayers, Fits, operationVars, annotationVars
<1>2. ListPart /\ StatusPart /\ RevisionsPart /\ AnnotationPart /\ BagInv(msgs)
  BY DEF Parts
<1>3. ListPart' /\ AnnotationPart'
  BY <1>1, <1>2, NewList
<1>4. StatusPart'
  BY <1>1, <1>2, ClearKeeps
<1>5. RevisionsPart' /\ BagInv(msgs')
  BY <1>1, <1>2 DEF RevisionsPart
<1> QED BY <1>3, <1>4, <1>5 DEF Parts

\* A key that sends a message only keeps the invariant.
LEMMA KeyPostsKeeps ==
  ASSUME Parts, NEW m, Sound(m), KeyPosts(m)
  PROVE  Parts'
<1>1. /\ msgs' = Post(msgs, m)
      /\ layers' = layers /\ uncopied' = uncopied /\ confirming' = confirming
      /\ contentFocused' = contentFocused /\ baseOp' = baseOp /\ opLayers' = opLayers
      /\ clearSequenceStatusHelp
  BY DEF KeyPosts, operationVars, annotationVars
<1>2. ListPart /\ StatusPart /\ RevisionsPart /\ AnnotationPart /\ BagInv(msgs)
  BY DEF Parts
<1>3. BagInv(msgs')
  BY <1>1, <1>2, PostCopies
<1>4. StatusPart'
  BY <1>1, <1>2, ClearKeeps
<1>5. ListPart' /\ RevisionsPart' /\ AnnotationPart'
  BY <1>1, <1>2 DEF ListPart, RevisionsPart, AnnotationPart, QuestionIsAboutComments
<1> QED BY <1>3, <1>4, <1>5 DEF Parts

\* Keys that change the help only.
LEMMA StatusKeyKeeps ==
  ASSUME Parts, setSequenceStatusHelp \/ CancelHelp \/ ExpandStatusToggle \/ Frame
  PROVE  Parts'
<1>1. /\ layers' = layers /\ uncopied' = uncopied /\ confirming' = confirming
      /\ contentFocused' = contentFocused /\ baseOp' = baseOp /\ opLayers' = opLayers /\ msgs' = msgs
  BY DEF setSequenceStatusHelp, CancelHelp, ExpandStatusToggle, Frame, operationVars, annotationVars
<1>2. StatusPart
  BY DEF Parts
<1>3. StatusPart'
  <2>1. CASE setSequenceStatusHelp
    BY <1>2, <2>1 DEF StatusPart, setSequenceStatusHelp, statusVars
  <2>2. CASE CancelHelp \/ Frame
    BY <1>2, <2>2 DEF StatusPart, CancelHelp, Frame
  <2>3. CASE ExpandStatusToggle
    BY <1>2, <2>3 DEF StatusPart, ExpandStatusToggle
  <2> QED BY <2>1, <2>2, <2>3
<1>4. ListPart' /\ RevisionsPart' /\ AnnotationPart' /\ BagInv(msgs')
  BY <1>1 DEF Parts, ListPart, RevisionsPart, AnnotationPart, QuestionIsAboutComments
<1> QED BY <1>3, <1>4 DEF Parts

\* A key in the annotation that adds or copies a comment keeps the
\* invariant.
LEMMA AnnotationKeyKeeps ==
  ASSUME Parts, NEW u \in BOOLEAN, AnnotationKey(u, FALSE)
  PROVE  Parts'
<1>1. /\ layers' = layers /\ uncopied' = u /\ confirming' = FALSE
      /\ contentFocused' = contentFocused /\ baseOp' = baseOp /\ opLayers' = opLayers /\ msgs' = msgs
      /\ clearSequenceStatusHelp
  BY DEF AnnotationKey, operationVars
<1>2. StatusPart'
  BY <1>1, ClearKeeps DEF Parts
<1>3. AnnotationPart'
  BY <1>1 DEF AnnotationPart, QuestionIsAboutComments
<1>4. ListPart' /\ RevisionsPart' /\ BagInv(msgs')
  BY <1>1 DEF Parts, ListPart, RevisionsPart
<1> QED BY <1>2, <1>3, <1>4 DEF Parts

\* Keys of the revisions view.
LEMMA RevisionsKeyKeeps ==
  ASSUME Parts, StartOperation \/ FocusPane
  PROVE  Parts'
<1>1. /\ layers' = layers /\ uncopied' = uncopied /\ confirming' = confirming /\ msgs' = msgs
      /\ clearSequenceStatusHelp
  BY DEF StartOperation, FocusPane, annotationVars
<1>2. StatusPart'
  BY <1>1, ClearKeeps DEF Parts
<1>3. RevisionsPart'
  <2>1. RevisionsPart
    BY DEF Parts
  <2>2. CASE StartOperation
    BY <2>1, <2>2, BoundsAssumption DEF RevisionsPart, StartOperation
  <2>3. CASE FocusPane
    BY <2>1, <2>3 DEF RevisionsPart, FocusPane, operationVars
  <2> QED BY <2>2, <2>3
<1>4. ListPart' /\ AnnotationPart' /\ BagInv(msgs')
  BY <1>1 DEF Parts, ListPart, AnnotationPart, QuestionIsAboutComments
<1> QED BY <1>2, <1>3, <1>4 DEF Parts

\* Every key keeps the invariant.
LEMMA KeyKeeps ==
  ASSUME Parts, Key
  PROVE  Parts'
<1>1. ListInv(layers) /\ Keeps(layers, closeDialog(layers))
  BY CloseDialogList DEF Parts, ListPart
<1>2. CASE OpenBookmarks
  BY <1>1, <1>2, OpenDialogList, KeyOnLayersKeeps DEF OpenBookmarks
<1>3. CASE OpLogOpen
  <2>1. Keeps(layers, openScreen(layers, "oplog"))
    BY <1>1, OpenScreenList DEF Screens
  <2> QED BY <1>3, <2>1, KeyOnLayersKeeps DEF OpLogOpen
<1>4. CASE CommandHistoryToggle
  BY <1>1, <1>4, OpenDialogList, KeyOnLayersKeeps DEF CommandHistoryToggle
<1>5. ASSUME NEW type \in {"rows", "diffShow", "annotationShow"}, ShowFromRevisions(type) PROVE Parts'
  BY <1>5, SoundMsgs, KeyPostsKeeps DEF ShowFromRevisions
<1>6. CASE OpenTargetPicker
  <2>1. Sound([type |-> "openPicker"])
    BY <1>6 DEF OpenTargetPicker, Sound
  <2> QED BY <1>6, <2>1, KeyPostsKeeps DEF OpenTargetPicker
<1>7. CASE ShowChoose
  <2>1. Sound([type |-> "choose"])
    BY <1>7 DEF ShowChoose, Sound
  <2> QED BY <1>7, <2>1, KeyPostsKeeps DEF ShowChoose
<1>8. CASE CancelKey
  <2>1. KeyPosts([type |-> "answered"]) \/ KeyPosts([type |-> "pickerDone"]) \/ KeyPosts(Close(FALSE, "key"))
    BY <1>8 DEF CancelKey
  <2> QED BY <2>1, SoundMsgs, KeyPostsKeeps
<1>9. CASE ApplyCommand \/ KeepReviewing \/ Discard
  BY <1>9, SoundMsgs, KeyPostsKeeps DEF ApplyCommand, KeepReviewing, Discard
<1>10. CASE AddComment \/ CopyComments
  BY <1>10, AnnotationKeyKeeps DEF AddComment, CopyComments
<1> QED BY <1>2, <1>3, <1>4, <1>5, <1>6, <1>7, <1>8, <1>9, <1>10, StatusKeyKeeps, RevisionsKeyKeeps DEF Key

-----------------------------------------------------------------------------
(* Messages.                                                                 *)

\* A close that reaches the layer on top: it stays and asks, or it goes.
LEMMA CloseLayerKeeps ==
  ASSUME Parts, NEW m, NEW rest, BagInv(rest), layers # <<>>, closeTopLayer(m, rest)
  PROVE  ListPart' /\ AnnotationPart' /\ BagInv(msgs')
<1>1. ListPart /\ AnnotationPart /\ ListInv(layers) /\ Len(layers) \in Nat /\ Len(layers) <= MaxLayers
  BY DEF Parts, ListPart, ListInv
<1>2. /\ ListInv(Front(layers)) /\ Len(Front(layers)) = Len(layers) - 1
      /\ Last(layers) = layers[Len(layers)] /\ Last(layers) \in Kinds
      /\ Last(layers) # "annotation" => Keeps(layers, Front(layers))
  BY <1>1, FrontList
<1>3. Top = Last(layers)
  BY DEF Top
<1>4. CASE Top = "annotation" /\ ~m.applied /\ uncopied
  <2>1. confirming' = TRUE /\ msgs' = rest /\ layers' = layers /\ uncopied' = uncopied
    BY <1>4 DEF closeTopLayer
  <2>2. "annotation" \in Range(layers)
    <3>1. layers \in Seq(Kinds) /\ Len(layers) \in 1 .. Len(layers) /\ layers[Len(layers)] = "annotation"
      BY <1>1, <1>2, <1>3, <1>4 DEF ListInv
    <3> QED BY <3>1, InRange
  <2>3. AnnotationPart'
    BY <1>1, <1>4, <2>1, <2>2 DEF AnnotationPart, QuestionIsAboutComments
  <2> QED BY <1>1, <2>1, <2>3 DEF ListPart
<1>5. CASE ~(Top = "annotation" /\ ~m.applied /\ uncopied)
  <2>1. layers' = Front(layers)
    BY <1>5 DEF closeTopLayer
  <2>2. msgs' \in {rest, Post(rest, [type |-> "answered"]), Post(rest, Close(FALSE, "history"))}
    BY <1>5 DEF closeTopLayer
  <2>3. BagInv(msgs')
    BY <2>2, PostCopies, SoundMsgs
  <2>4. ListPart'
    BY <1>1, <1>2, <2>1, BoundsAssumption DEF ListPart
  <2>5. CASE Top = "annotation"
    <3>1. uncopied' = FALSE /\ confirming' = FALSE
      BY <1>5, <2>5 DEF closeTopLayer, ForgetAnnotation
    <3> QED BY <2>3, <2>4, <3>1 DEF AnnotationPart, QuestionIsAboutComments
  <2>6. CASE Top # "annotation"
    <3>1. uncopied' = uncopied /\ confirming' = confirming
      BY <1>5, <2>6 DEF closeTopLayer, annotationVars
    <3>2. Keeps(layers, Front(layers)) /\ Len(Front(layers)) <= MaxLayers
      BY <1>1, <1>2, <1>3, <2>6, BoundsAssumption
    <3>3. AnnotationPart'
      BY <1>1, <2>1, <3>1, <3>2, NewList
    <3> QED BY <2>3, <2>4, <3>3
  <2> QED BY <2>5, <2>6
<1> QED BY <1>4, <1>5

\* The revisions view loses a layer of its own, if it has one.
LEMMA PopKeeps ==
  ASSUME opLayers \in 0 .. MaxOpLayers, popLayer
  PROVE  opLayers' \in 0 .. MaxOpLayers /\ baseOp' = baseOp
<1>1. baseOp' = baseOp
  BY DEF popLayer
<1>2. opLayers' = IF opLayers > 0 THEN opLayers - 1 ELSE 0
  BY DEF popLayer
<1> QED BY <1>1, <1>2, BoundsAssumption

\* A close keeps the invariant, whichever view it closes (closeTopScope).
LEMMA CloseKeeps ==
  ASSUME Parts, NEW m, NEW rest, BagInv(rest), closeTopScope(m, rest)
  PROVE  Parts'
<1>1. ListPart /\ StatusPart /\ RevisionsPart /\ AnnotationPart
  BY DEF Parts
<1>2. CASE ~m.applied /\ ~IsDialog(Top) /\ statusExpanded
  <2>1. /\ statusExpanded' = FALSE /\ sequence' = sequence /\ msgs' = rest
        /\ layers' = layers /\ uncopied' = uncopied /\ confirming' = confirming
        /\ contentFocused' = contentFocused /\ baseOp' = baseOp /\ opLayers' = opLayers
    BY <1>2 DEF closeTopScope, operationVars, annotationVars
  <2> QED BY <1>1, <2>1 DEF Parts, ListPart, StatusPart, RevisionsPart, AnnotationPart, QuestionIsAboutComments
<1>3. CASE ~(~m.applied /\ ~IsDialog(Top) /\ statusExpanded) /\ layers # <<>>
  <2>1. /\ closeTopLayer(m, rest) /\ statusExpanded' = statusExpanded /\ sequence' = sequence
        /\ contentFocused' = contentFocused /\ baseOp' = baseOp /\ opLayers' = opLayers
    BY <1>3 DEF closeTopScope, statusVars, operationVars
  <2>2. ListPart' /\ AnnotationPart' /\ BagInv(msgs')
    BY <1>3, <2>1, CloseLayerKeeps
  <2> QED BY <1>1, <2>1, <2>2 DEF Parts, StatusPart, RevisionsPart
<1>4. CASE ~(~m.applied /\ ~IsDialog(Top) /\ statusExpanded) /\ layers = <<>>
  <2>1. /\ contentFocused' = FALSE /\ msgs' = rest /\ statusExpanded' = statusExpanded
        /\ sequence' = sequence /\ layers' = layers /\ uncopied' = uncopied /\ confirming' = confirming
        /\ IF contentFocused THEN UNCHANGED operationVars ELSE RevisionsClose
    BY <1>4 DEF closeTopScope, statusVars, annotationVars
  <2>2. RevisionsPart'
    <3>1. CASE contentFocused
      BY <1>1, <2>1, <3>1 DEF RevisionsPart, operationVars
    <3>2. CASE ~contentFocused /\ opLayers > 0
      <4>1. opLayers' \in 0 .. MaxOpLayers /\ baseOp' = baseOp
        BY <1>1, <2>1, <3>2, BoundsAssumption, PopKeeps DEF RevisionsPart, RevisionsClose
      <4> QED BY <1>1, <2>1, <4>1 DEF RevisionsPart
    <3>3. CASE ~contentFocused /\ ~(opLayers > 0)
      BY <1>1, <2>1, <3>3 DEF RevisionsPart, RevisionsClose
    <3> QED BY <3>1, <3>2, <3>3
  <2> QED BY <1>1, <2>1, <2>2 DEF Parts, ListPart, StatusPart, AnnotationPart, QuestionIsAboutComments
<1> QED BY <1>2, <1>3, <1>4

\* The handlers that change the list only.
LEMMA ListMsgKeeps ==
  ASSUME Parts, NEW new, NEW rest, BagInv(rest), ListMsg(new, rest), Keeps(layers, new),
         uncopied' = uncopied, confirming' \in {confirming, FALSE},
         baseOp' = baseOp, opLayers' \in 0 .. MaxOpLayers
  PROVE  Parts'
<1>1. /\ Len(new) <= MaxLayers /\ layers' = new /\ msgs' = rest
      /\ statusExpanded' = statusExpanded /\ sequence' = sequence /\ contentFocused' = contentFocused
  BY DEF ListMsg, Fits, statusVars
<1>2. ListPart' /\ AnnotationPart'
  BY <1>1, NewList DEF Parts
<1>3. StatusPart' /\ RevisionsPart'
  BY <1>1 DEF Parts, StatusPart, RevisionsPart
<1> QED BY <1>1, <1>2, <1>3 DEF Parts

\* Every message keeps the invariant, whatever is open when it arrives.
LEMMA HandleKeeps ==
  ASSUME Parts, NEW m \in BagToSet(msgs), Handle(m)
  PROVE  Parts'
<1> DEFINE rest == msgs (-) SetToBag({m})
<1>1. /\ ListInv(layers) /\ Keeps(layers, layers) /\ Keeps(layers, closeDialog(layers))
      /\ opLayers \in 0 .. MaxOpLayers
  BY CloseDialogList DEF Parts, ListPart, RevisionsPart, Keeps
<1>2. BagInv(rest) /\ Sound(m)
  BY TakeCopies DEF Parts, BagInv, BagToSet
<1>3. \/ CloseView(m, rest) \/ Answered(m, rest) \/ ShowChooseMsg(m, rest)
      \/ OpenTargetPickerMsg(m, rest) \/ DiffShow(m, rest) \/ AnnotationShow(m, rest)
      \/ KeepReviewingMsg(m, rest) \/ Broadcast(m, rest)
  BY DEF Handle
<1> HIDE DEF rest
<1>4. CASE CloseView(m, rest)
  BY <1>2, <1>4, CloseKeeps DEF CloseView
<1>5. CASE Answered(m, rest)
  <2> DEFINE new == IF m.type = "answered" \/ acceptsTargets THEN closeDialog(layers) ELSE layers
  <2>1. ListMsg(new, rest) /\ uncopied' = uncopied /\ confirming' = confirming
    BY <1>5 DEF Answered, annotationVars
  <2>2. baseOp' = baseOp /\ opLayers' \in 0 .. MaxOpLayers
    <3>1. popLayer \/ (baseOp' = baseOp /\ opLayers' = opLayers)
      BY <1>5 DEF Answered, operationVars
    <3> QED BY <1>1, <3>1, PopKeeps
  <2>3. Keeps(layers, new)
    BY <1>1
  <2> HIDE DEF new
  <2> QED BY <1>2, <2>1, <2>2, <2>3, ListMsgKeeps
<1>6. CASE ShowChooseMsg(m, rest)
  <2>1. Keeps(layers, openDialog(layers, "choose"))
    BY <1>1, <1>2, <1>6, OpenDialogList DEF ShowChooseMsg, Sound
  <2> QED BY <1>1, <1>2, <1>6, <2>1, ListMsgKeeps DEF ShowChooseMsg, operationVars, annotationVars
<1>7. CASE OpenTargetPickerMsg(m, rest)
  <2> DEFINE new == IF acceptsTargets THEN openDialog(layers, "picker") ELSE layers
  <2>1. ListMsg(new, rest) /\ uncopied' = uncopied /\ confirming' = confirming /\ baseOp' = baseOp
    BY <1>7 DEF OpenTargetPickerMsg, annotationVars
  <2>2. opLayers' \in 0 .. MaxOpLayers
    BY <1>1, <1>7, BoundsAssumption DEF OpenTargetPickerMsg
  <2>3. Keeps(layers, new)
    BY <1>1, <1>2, <1>7, OpenDialogList DEF OpenTargetPickerMsg, Sound
  <2> HIDE DEF new
  <2> QED BY <1>2, <2>1, <2>2, <2>3, ListMsgKeeps
<1>8. CASE DiffShow(m, rest)
  <2>1. Keeps(layers, openScreen(layers, "diff"))
    BY <1>1, OpenScreenList DEF Screens
  <2> QED BY <1>1, <1>2, <1>8, <2>1, ListMsgKeeps DEF DiffShow, operationVars, annotationVars
<1>9. CASE AnnotationShow(m, rest)
  <2>1. /\ Len(openScreen(layers, "annotation")) <= MaxLayers /\ msgs' = rest
        /\ layers' = openScreen(layers, "annotation") /\ uncopied' = FALSE /\ confirming' = FALSE
        /\ statusExpanded' = statusExpanded /\ sequence' = sequence /\ contentFocused' = contentFocused
        /\ baseOp' = baseOp /\ opLayers' = opLayers
    BY <1>9 DEF AnnotationShow, ListMsg, Fits, ForgetAnnotation, statusVars, operationVars
  <2>2. ListInv(openScreen(layers, "annotation"))
    BY <1>1, OpenScreenList DEF Screens
  <2>3. ListPart' /\ AnnotationPart'
    BY <2>1, <2>2 DEF ListPart, AnnotationPart, QuestionIsAboutComments
  <2>4. StatusPart' /\ RevisionsPart'
    BY <2>1 DEF Parts, StatusPart, RevisionsPart
  <2> QED BY <1>2, <2>1, <2>3, <2>4 DEF Parts
<1>10. CASE KeepReviewingMsg(m, rest)
  BY <1>1, <1>2, <1>10, ListMsgKeeps DEF KeepReviewingMsg, operationVars
<1>11. CASE Broadcast(m, rest)
  BY <1>1, <1>2, <1>11, ListMsgKeeps DEF Broadcast, operationVars, annotationVars
<1> QED BY <1>3, <1>4, <1>5, <1>6, <1>7, <1>8, <1>9, <1>10, <1>11

-----------------------------------------------------------------------------
(* The theorems.                                                             *)

\* The invariant holds at the start.
LEMMA LayersInit == Init => Parts
<1> SUFFICES ASSUME Init PROVE Parts
  OBVIOUS
<1>1. DOMAIN EmptyBag = {} /\ IsABag(EmptyBag)
  BY DEF EmptyBag, SetToBag, IsABag
<1>2. BagInv(msgs)
  BY <1>1 DEF Init, BagInv
<1>3. ListPart
  BY BoundsAssumption DEF Init, ListPart, ListInv
<1>4. StatusPart /\ AnnotationPart
  BY Zenon DEF Init, StatusPart, AnnotationPart, QuestionIsAboutComments
<1>5. RevisionsPart
  <2>1. contentFocused \in BOOLEAN /\ baseOp \in BOOLEAN
    BY Zenon DEF Init
  <2>2. opLayers \in 0 .. MaxOpLayers
    BY BoundsAssumption DEF Init
  <2> QED BY <2>1, <2>2, Zenon DEF RevisionsPart
<1> QED BY <1>2, <1>3, <1>4, <1>5 DEF Parts

\* Every step keeps the invariant.
LEMMA LayersStep == Parts /\ [Next]_vars => Parts'
<1> SUFFICES ASSUME Parts, [Next]_vars PROVE Parts'
  OBVIOUS
<1>1. CASE Key
  BY <1>1, KeyKeeps
<1>2. ASSUME NEW m \in BagToSet(msgs), Handle(m) PROVE Parts'
  BY <1>2, HandleKeeps
<1>3. CASE Frame
  BY <1>3, StatusKeyKeeps
<1>4. CASE UNCHANGED vars
  BY <1>4 DEF vars, statusVars, operationVars, annotationVars, Parts, ListPart, StatusPart, RevisionsPart,
              AnnotationPart, QuestionIsAboutComments
<1> QED BY <1>1, <1>2, <1>3, <1>4 DEF Next

\* LayersInv, in its parts, is an invariant of the views.
LEMMA LayersInvariant == Spec => []Parts
BY LayersInit, LayersStep, PTL DEF Spec

\* However views are opened over one another and messages close them, there is one screen of a kind, and
\* the question about comments has comments to ask about, for any dialogs and any bounds (layers.go).
THEOREM LayersAreAlwaysSound == Spec => []LayersAreSound
<1>1. Parts => LayersAreSound
  BY PartsAreAll DEF LayersInv
<1> QED BY <1>1, LayersInvariant, PTL

-----------------------------------------------------------------------------
(* What a close may take.                                                    *)

\* A key takes no message, and comments only when it copies them.
LEMMA KeysTakeNothing ==
  ASSUME Parts, Key \/ Frame \/ UNCHANGED vars
  PROVE  /\ \A e : ~(Copies(e, msgs') < Copies(e, msgs))
         /\ ~Loses
<1>1. BagInv(msgs)
  BY DEF Parts
<1>2. \A e : Copies(e, msgs) \in Nat
  BY <1>1, CopiesTyped DEF BagInv
<1>3. msgs' = msgs \/ \E m : msgs' = Post(msgs, m)
  <2>1. CASE \/ setSequenceStatusHelp \/ OpenBookmarks \/ OpLogOpen \/ CommandHistoryToggle \/ CancelHelp
             \/ ExpandStatusToggle \/ AddComment \/ CopyComments \/ StartOperation \/ FocusPane
             \/ Frame \/ UNCHANGED vars
    BY <2>1 DEF setSequenceStatusHelp, OpenBookmarks, OpLogOpen, CommandHistoryToggle, CancelHelp,
                ExpandStatusToggle, AddComment, CopyComments, AnnotationKey, StartOperation, FocusPane,
                Frame, KeyOnLayers, vars
  <2>2. CASE \/ \E type \in {"rows", "diffShow", "annotationShow"} : ShowFromRevisions(type)
             \/ OpenTargetPicker \/ ShowChoose \/ CancelKey \/ ApplyCommand \/ KeepReviewing \/ Discard
    BY <2>2 DEF ShowFromRevisions, OpenTargetPicker, ShowChoose, CancelKey, ApplyCommand, KeepReviewing,
                Discard, KeyPosts
  <2> QED BY <2>1, <2>2 DEF Key
<1>4. uncopied' = uncopied \/ AddComment \/ CopyComments
  <2>1. CASE \/ setSequenceStatusHelp \/ OpenBookmarks \/ OpLogOpen \/ CommandHistoryToggle \/ CancelHelp
             \/ ExpandStatusToggle \/ StartOperation \/ FocusPane \/ Frame \/ UNCHANGED vars
    BY <2>1 DEF setSequenceStatusHelp, OpenBookmarks, OpLogOpen, CommandHistoryToggle, CancelHelp,
                ExpandStatusToggle, StartOperation, FocusPane, Frame, KeyOnLayers, vars, annotationVars
  <2>2. CASE \/ \E type \in {"rows", "diffShow", "annotationShow"} : ShowFromRevisions(type)
             \/ OpenTargetPicker \/ ShowChoose \/ CancelKey \/ ApplyCommand \/ KeepReviewing \/ Discard
    BY <2>2 DEF ShowFromRevisions, OpenTargetPicker, ShowChoose, CancelKey, ApplyCommand, KeepReviewing,
                Discard, KeyPosts, annotationVars
  <2> QED BY <2>1, <2>2 DEF Key
<1>5. \A e : ~(Copies(e, msgs') < Copies(e, msgs))
  <2> SUFFICES ASSUME NEW e PROVE ~(Copies(e, msgs') < Copies(e, msgs))
    OBVIOUS
  <2>1. CASE msgs' = msgs
    BY <1>2, <2>1
  <2>2. ASSUME NEW m, msgs' = Post(msgs, m) PROVE ~(Copies(e, msgs') < Copies(e, msgs))
    <3>1. Copies(e, msgs') = IF e = m THEN Copies(e, msgs) + 1 ELSE Copies(e, msgs)
      BY <1>1, <2>2, PostCopies
    <3> QED BY <1>2, <3>1
  <2> QED BY <1>3, <2>1, <2>2
<1>6. ~Loses
  BY <1>4 DEF Loses, AddComment, AnnotationKey
<1> QED BY <1>5, <1>6

\* A handler takes its own message, and at most answers with another one.
LEMMA HandlerTakesItsOwn ==
  ASSUME Parts, NEW m \in BagToSet(msgs), Handle(m)
  PROVE  /\ \A e : Copies(e, msgs') < Copies(e, msgs) => e = m
         /\ msgs' = msgs (-) SetToBag({m}) => Handled(m)
<1> DEFINE rest == msgs (-) SetToBag({m})
<1>1. BagInv(msgs) /\ m \in DOMAIN msgs
  BY DEF Parts, BagToSet
<1>2. /\ BagInv(rest)
      /\ \A e : Copies(e, rest) = IF e = m THEN Copies(e, msgs) - 1 ELSE Copies(e, msgs)
  BY <1>1, TakeCopies
<1>3. \A e : Copies(e, msgs) \in Nat /\ Copies(e, rest) \in Nat
  BY <1>1, <1>2, CopiesTyped DEF BagInv
<1>4. \/ CloseView(m, rest) \/ Answered(m, rest) \/ ShowChooseMsg(m, rest)
      \/ OpenTargetPickerMsg(m, rest) \/ DiffShow(m, rest) \/ AnnotationShow(m, rest)
      \/ KeepReviewingMsg(m, rest) \/ Broadcast(m, rest)
  BY DEF Handle
<1> HIDE DEF rest
<1>5. msgs' = rest \/ \E x : msgs' = Post(rest, x)
  <2>1. CASE CloseView(m, rest)
    BY <2>1 DEF CloseView, closeTopScope, closeTopLayer
  <2>2. CASE ~CloseView(m, rest)
    BY <1>4, <2>2 DEF Answered, ShowChooseMsg, OpenTargetPickerMsg, DiffShow, AnnotationShow,
                      KeepReviewingMsg, Broadcast, ListMsg
  <2> QED BY <2>1, <2>2
<1>6. ASSUME NEW e, e # m, Copies(e, msgs') < Copies(e, msgs) PROVE FALSE
  <2>1. Copies(e, rest) = Copies(e, msgs)
    BY <1>2, <1>6
  <2>2. CASE msgs' = rest
    BY <1>3, <1>6, <2>1, <2>2
  <2>3. ASSUME NEW x, msgs' = Post(rest, x) PROVE FALSE
    <3>1. Copies(e, msgs') = IF e = x THEN Copies(e, rest) + 1 ELSE Copies(e, rest)
      BY <1>2, <2>3, PostCopies
    <3> QED BY <1>3, <1>6, <2>1, <3>1
  <2> QED BY <1>5, <2>2, <2>3
<1>7. msgs' = rest => Handled(m)
  BY <1>2, <1>3 DEF Handled
<1> QED BY <1>6, <1>7 DEF rest

\* A close that nobody applied never takes uncopied comments with it, for any dialogs and any messages
\* under way: only an applied close or a new annotation does (layers.go closeTopLayer).
THEOREM PlainCloseAlwaysKeepsComments == Spec => PlainCloseKeepsComments
<1> DEFINE Said == Loses => \E m \in BagToSet(msgs) :
                              /\ Handled(m)
                              /\ m.type = "annotationShow" \/ (m.type = "close" /\ m.applied)
<1>1. Parts /\ [Next]_vars => [Said]_vars
  <2> SUFFICES ASSUME Parts, [Next]_vars, Loses
               PROVE  \E m \in BagToSet(msgs) :
                        /\ Handled(m)
                        /\ m.type = "annotationShow" \/ (m.type = "close" /\ m.applied)
    OBVIOUS
  <2>1. PICK m \in BagToSet(msgs) : Handle(m)
    BY KeysTakeNothing DEF Next
  <2> DEFINE rest == msgs (-) SetToBag({m})
  <2>2. \/ CloseView(m, rest) \/ Answered(m, rest) \/ ShowChooseMsg(m, rest)
        \/ OpenTargetPickerMsg(m, rest) \/ DiffShow(m, rest) \/ AnnotationShow(m, rest)
        \/ KeepReviewingMsg(m, rest) \/ Broadcast(m, rest)
    BY <2>1 DEF Handle
  <2>3. msgs' = rest => Handled(m)
    BY <2>1, HandlerTakesItsOwn
  <2> HIDE DEF rest
  <2>4. uncopied /\ ~uncopied'
    BY DEF Loses
  <2>5. CASE AnnotationShow(m, rest)
    BY <2>3, <2>5 DEF AnnotationShow, ListMsg
  <2>6. CASE CloseView(m, rest)
    <3>1. closeTopScope(m, rest) /\ m.type = "close"
      BY <2>6 DEF CloseView
    <3>2. closeTopLayer(m, rest)
      BY <2>4, <3>1 DEF closeTopScope, annotationVars
    <3>3. ~(Top = "annotation" /\ ~m.applied /\ uncopied)
      BY <2>4, <3>2 DEF closeTopLayer
    <3>4. Top = "annotation"
      BY <2>4, <3>2, <3>3 DEF closeTopLayer, annotationVars
    <3>5. msgs' = rest
      BY <3>2, <3>3, <3>4 DEF closeTopLayer
    <3> QED BY <2>1, <2>3, <2>4, <3>1, <3>3, <3>4, <3>5
  <2>7. CASE ~AnnotationShow(m, rest) /\ ~CloseView(m, rest)
    BY <2>2, <2>4, <2>7 DEF Answered, ShowChooseMsg, OpenTargetPickerMsg, DiffShow,
                            KeepReviewingMsg, Broadcast, annotationVars
  <2> QED BY <2>5, <2>6, <2>7
<1> QED BY <1>1, LayersInvariant, PTL DEF Spec, PlainCloseKeepsComments

\* Taking a close, and posting no other, leaves one close less.
LEMMA OneCloseLess ==
  ASSUME Parts, NEW m \in BagToSet(msgs), m.type = "close", Handle(m), layers # <<>>, Top # "history"
  PROVE  Closes' < Closes
<1> DEFINE rest == msgs (-) SetToBag({m})
<1>1. BagInv(msgs) /\ m \in DOMAIN msgs /\ Sound(m)
  BY DEF Parts, BagToSet, BagInv
<1>2. /\ BagInv(rest)
      /\ \A e : Copies(e, rest) = IF e = m THEN Copies(e, msgs) - 1 ELSE Copies(e, msgs)
  BY <1>1, TakeCopies
<1>3. \A e : Copies(e, msgs) \in Nat
  BY <1>1, CopiesTyped DEF BagInv
<1>4. closeTopScope(m, rest)
  BY DEF Handle, CloseView, Answered, ShowChooseMsg, OpenTargetPickerMsg, DiffShow, AnnotationShow,
         KeepReviewingMsg, Broadcast
<1> HIDE DEF rest
<1>5. msgs' = rest \/ msgs' = Post(rest, [type |-> "answered"])
  BY <1>4 DEF closeTopScope, closeTopLayer
<1>6. ASSUME NEW e, e.type = "close" PROVE Copies(e, msgs') = IF e = m THEN Copies(e, msgs) - 1 ELSE Copies(e, msgs)
  <2>1. e # [type |-> "answered"]
    BY <1>6
  <2>2. Copies(e, Post(rest, [type |-> "answered"])) = Copies(e, rest)
    BY <1>2, <2>1, PostCopies
  <2> QED BY <1>2, <1>5, <2>2
<1> DEFINE k == Close(FALSE, "key")
           h == Close(FALSE, "history")
           c == Close(TRUE, "command")
           d == Close(TRUE, "discard")
<1>7. k.type = "close" /\ h.type = "close" /\ c.type = "close" /\ d.type = "close"
  BY DEF Close
<1>8. k # h /\ k # c /\ k # d /\ h # c /\ h # d /\ c # d
  BY DEF Close
<1>9. m \in {k, h, c, d}
  BY <1>1 DEF Sound
<1>10. Closes = Copies(k, msgs) + Copies(h, msgs) + Copies(c, msgs) + Copies(d, msgs)
  BY DEF Closes
<1>11. Closes' = Copies(k, msgs') + Copies(h, msgs') + Copies(c, msgs') + Copies(d, msgs')
  BY DEF Closes, Copies, Close
<1> HIDE DEF k, h, c, d
<1>12. /\ Copies(k, msgs') = IF k = m THEN Copies(k, msgs) - 1 ELSE Copies(k, msgs)
       /\ Copies(h, msgs') = IF h = m THEN Copies(h, msgs) - 1 ELSE Copies(h, msgs)
       /\ Copies(c, msgs') = IF c = m THEN Copies(c, msgs) - 1 ELSE Copies(c, msgs)
       /\ Copies(d, msgs') = IF d = m THEN Copies(d, msgs) - 1 ELSE Copies(d, msgs)
  BY <1>6, <1>7
<1>13. Copies(k, msgs) \in Nat /\ Copies(h, msgs) \in Nat /\ Copies(c, msgs) \in Nat /\ Copies(d, msgs) \in Nat
  BY <1>3
<1> QED BY <1>8, <1>9, <1>10, <1>11, <1>12, <1>13

\* A close takes one layer and is gone, whatever is under way: it is not answered with another close
\* that would take the next one, except by the command history (layers.go closeTopLayer).
THEOREM OneCloseAlwaysOneLayer == Spec => OneCloseOneLayer
<1>1. Parts /\ [Next]_vars => [LayerClosed /\ Top # "history" => Closes' < Closes]_vars
  <2> SUFFICES ASSUME Parts, [Next]_vars, LayerClosed, Top # "history" PROVE Closes' < Closes
    OBVIOUS
  <2>1. PICK m \in BagToSet(msgs) : m.type = "close" /\ Copies(m, msgs') < Copies(m, msgs)
    BY DEF LayerClosed, Handled
  <2>2. PICK n \in BagToSet(msgs) : Handle(n)
    BY <2>1, KeysTakeNothing DEF Next
  <2>3. m = n
    BY <2>1, <2>2, HandlerTakesItsOwn
  <2> QED BY <2>1, <2>2, <2>3, OneCloseLess DEF LayerClosed
<1> QED BY <1>1, LayersInvariant, PTL DEF Spec, OneCloseOneLayer
=============================================================================
