---------------------------- MODULE ScriptsProofs ----------------------------
(***************************************************************************)
(* That scripts call one another as a stack, that no call is lost or       *)
(* answered twice, and that the effects of an action come before its       *)
(* answer, for any bounds.  The inductive invariant says that at most one  *)
(* call is in the messages: the one that the runner on top waits for.      *)
(***************************************************************************)
EXTENDS Scripts, SequenceTheorems, TLAPS

Frame == [id : Nat, wait : [kind : WaitKinds, id : Nat]]

\* A sequence under way: only three types of messages carry a call, two of them
\* always do, and an effect of an action is followed by the answer to its call.
WellFormed(s) ==
  /\ s \in Seq(Message) /\ s # <<>>
  /\ \A k \in DOMAIN s :
       /\ s[k].id # 0 => s[k].type \in {"runLua", "dispatch", "completed"}
       /\ s[k].type \in {"dispatch", "completed"} => s[k].id # 0
       /\ s[k].of # 0 => \E l \in DOMAIN s : k < l /\ s[l].id = s[k].of

\* A sequence that carries no call; one that carries the call i once and no other.
Quiet(s) == \A k \in DOMAIN s : s[k].id = 0
Carrier(s, i) ==
  \E p \in DOMAIN s : s[p].id = i /\ \A k \in DOMAIN s \ {p} : s[k].id = 0

\* The messages under way carry the call i once and no other; none if i is 0.
BagInv(bag, i) ==
  /\ IsABag(bag)
  /\ \A s \in DOMAIN bag : WellFormed(s)
  /\ IF i = 0 THEN \A s \in DOMAIN bag : Quiet(s)
     ELSE \E c \in DOMAIN bag : /\ bag[c] = 1 /\ Carrier(c, i)
                              /\ \A s \in DOMAIN bag \ {c} : Quiet(s)

\* The call that the runner on top waits for, 0 if it waits for something else.
TopCall(fs) ==
  IF fs # <<>> /\ Waiting(fs[Len(fs)], "action") THEN fs[Len(fs)].wait.id ELSE 0

\* The numbers of the waits grow from bottom to top, and the stack is a chain.
FramesInv(fs, w) ==
  /\ fs \in Seq(Frame) /\ w \in Nat
  /\ \A k \in DOMAIN fs : fs[k].wait.id \in 1 .. w
  /\ \A j, k \in DOMAIN fs : j < k => fs[j].wait.id < fs[k].wait.id
  /\ \A k \in DOMAIN fs :
       IF k = 1 THEN fs[k].id = 0
       ELSE Waiting(fs[k - 1], "action") /\ fs[k].id = fs[k - 1].wait.id

ScriptsInv ==
  /\ waits \in 0 .. MaxWaits /\ layers \in Seq(LayerKinds)
  /\ FramesInv(frames, waits)
  /\ BagInv(cmds, TopCall(frames))

-----------------------------------------------------------------------------
(* Bags of sequences.                                                        *)

\* Posting a sequence adds one copy of it and leaves the others alone.
LEMMA PostBag ==
  ASSUME NEW B, IsABag(B), NEW s, s # <<>>
  PROVE  /\ IsABag(Post(B, s))
         /\ DOMAIN Post(B, s) = DOMAIN B \cup {s}
         /\ \A t \in DOMAIN B : t # s => Post(B, s)[t] = B[t]
         /\ s \notin DOMAIN B => Post(B, s)[s] = 1
<1> DEFINE S == SetToBag({s})
           P == Post(B, s)
<1>1. DOMAIN S = {s} /\ S[s] = 1
  BY DEF SetToBag
<1>2. P = B (+) S
  BY DEF Post
<1>3. DOMAIN P = DOMAIN B \cup {s}
  BY <1>1, <1>2 DEF (+)
<1>4. ASSUME NEW t \in DOMAIN B \cup {s}
      PROVE  P[t] = (IF t \in DOMAIN B THEN B[t] ELSE 0) + (IF t \in {s} THEN S[t] ELSE 0)
  BY <1>1, <1>2, <1>4 DEF (+)
<1>5. ASSUME NEW t \in DOMAIN B PROVE B[t] \in Nat /\ B[t] > 0
  BY <1>5 DEF IsABag
<1>6. \A t \in DOMAIN B \cup {s} : P[t] \in {n \in Nat : n > 0}
  <2> SUFFICES ASSUME NEW t \in DOMAIN B \cup {s} PROVE P[t] \in Nat /\ P[t] > 0
    OBVIOUS
  <2> HIDE DEF P, S
  <2> QED BY <1>1, <1>4, <1>5
<1>7. P = [t \in DOMAIN B \cup {s} |-> P[t]]
  BY <1>2, <1>3, <1>1 DEF (+)
<1>8. IsABag(P)
  <2> HIDE DEF P, S
  <2> QED BY <1>3, <1>6, <1>7 DEF IsABag
<1>9. \A t \in DOMAIN B : t # s => P[t] = B[t]
  <2> HIDE DEF P, S
  <2> QED BY <1>4, <1>5
<1>10. s \notin DOMAIN B => P[s] = 1
  <2> HIDE DEF P, S
  <2> QED BY <1>1, <1>4
<1> QED BY <1>3, <1>8, <1>9, <1>10

\* Taking a sequence takes one copy of it: the last one takes it away.
LEMMA TakeBag ==
  ASSUME NEW B, IsABag(B), NEW s \in DOMAIN B
  PROVE  /\ IsABag(B (-) SetToBag({s}))
         /\ DOMAIN (B (-) SetToBag({s})) \subseteq DOMAIN B
         /\ DOMAIN B \ {s} \subseteq DOMAIN (B (-) SetToBag({s}))
         /\ \A t \in DOMAIN B \ {s} : (B (-) SetToBag({s}))[t] = B[t]
         /\ B[s] = 1 => s \notin DOMAIN (B (-) SetToBag({s}))
<1> DEFINE C == [t \in DOMAIN B |-> IF t \in DOMAIN SetToBag({s}) THEN B[t] - SetToBag({s})[t] ELSE B[t]]
           D == {d \in DOMAIN C : C[d] > 0}
<1>1. DOMAIN SetToBag({s}) = {s} /\ SetToBag({s})[s] = 1
  BY DEF SetToBag
<1>2. B (-) SetToBag({s}) = [t \in D |-> C[t]]
  BY DEF (-)
<1>3. ASSUME NEW t \in DOMAIN B
      PROVE  /\ B[t] \in Nat /\ B[t] > 0
             /\ C[t] = IF t = s THEN B[t] - 1 ELSE B[t]
  BY <1>1, <1>3 DEF IsABag
<1>4. \A t \in D : t \in DOMAIN B /\ C[t] \in {n \in Nat : n > 0}
  BY <1>3
<1>5. DOMAIN B \ {s} \subseteq D /\ (B[s] = 1 => s \notin D)
  BY <1>3
<1>6. \A t \in DOMAIN B \ {s} : C[t] = B[t]
  BY <1>3
<1> HIDE DEF C, D
<1> QED BY <1>2, <1>4, <1>5, <1>6 DEF IsABag

-----------------------------------------------------------------------------
(* What posting and taking do to the calls under way.                        *)

\* A sequence without a call changes nothing.
LEMMA PostQuiet ==
  ASSUME NEW B, NEW i, BagInv(B, i), NEW t, WellFormed(t), Quiet(t)
  PROVE  BagInv(Post(B, t), i)
<1>1. t # <<>>
  BY DEF WellFormed
<1>2. /\ IsABag(Post(B, t)) /\ DOMAIN Post(B, t) = DOMAIN B \cup {t}
      /\ \A u \in DOMAIN B : u # t => Post(B, t)[u] = B[u]
  BY <1>1, PostBag DEF BagInv
<1>3. CASE i = 0
  BY <1>2, <1>3 DEF BagInv
<1>4. CASE i # 0
  <2>1. PICK c \in DOMAIN B : B[c] = 1 /\ Carrier(c, i) /\ \A s \in DOMAIN B \ {c} : Quiet(s)
    BY <1>4 DEF BagInv
  <2>2. c # t
    BY <2>1, <1>4 DEF Carrier, Quiet
  <2> QED BY <1>2, <1>4, <2>1, <2>2 DEF BagInv
<1> QED BY <1>3, <1>4

\* A sequence with a call brings it to messages that carry none.
LEMMA PostCarrier ==
  ASSUME NEW B, BagInv(B, 0), NEW i, i # 0, NEW t, WellFormed(t), Carrier(t, i)
  PROVE  BagInv(Post(B, t), i)
<1>1. t # <<>> /\ t \notin DOMAIN B
  BY DEF WellFormed, BagInv, Carrier, Quiet
<1>2. /\ IsABag(Post(B, t)) /\ DOMAIN Post(B, t) = DOMAIN B \cup {t}
      /\ Post(B, t)[t] = 1
  BY <1>1, PostBag DEF BagInv
<1> QED BY <1>1, <1>2 DEF BagInv

\* Taking a sequence without a call leaves the call where it is.
LEMMA TakeQuiet ==
  ASSUME NEW B, NEW i, BagInv(B, i), NEW s \in DOMAIN B, Quiet(s)
  PROVE  BagInv(B (-) SetToBag({s}), i)
<1> DEFINE R == B (-) SetToBag({s})
<1>1. /\ IsABag(R) /\ DOMAIN R \subseteq DOMAIN B /\ DOMAIN B \ {s} \subseteq DOMAIN R
      /\ \A t \in DOMAIN B \ {s} : R[t] = B[t]
  BY TakeBag DEF BagInv
<1> HIDE DEF R
<1> SUFFICES BagInv(R, i)
  BY DEF R
<1>2. CASE i = 0
  BY <1>1, <1>2 DEF BagInv
<1>3. CASE i # 0
  <2>1. PICK c \in DOMAIN B : B[c] = 1 /\ Carrier(c, i) /\ \A t \in DOMAIN B \ {c} : Quiet(t)
    BY <1>3 DEF BagInv
  <2>2. c # s
    BY <2>1, <1>3 DEF Carrier, Quiet
  <2> QED BY <1>1, <1>3, <2>1, <2>2 DEF BagInv
<1> QED BY <1>2, <1>3

\* Taking the sequence with the call leaves none.
LEMMA TakeCarrier ==
  ASSUME NEW B, NEW i, BagInv(B, i), NEW s \in DOMAIN B, ~Quiet(s)
  PROVE  i # 0 /\ Carrier(s, i) /\ BagInv(B (-) SetToBag({s}), 0)
<1> DEFINE R == B (-) SetToBag({s})
<1>1. /\ IsABag(R) /\ DOMAIN R \subseteq DOMAIN B
      /\ B[s] = 1 => s \notin DOMAIN R
  BY TakeBag DEF BagInv
<1> HIDE DEF R
<1>2. i # 0
  BY DEF BagInv
<1>3. PICK c \in DOMAIN B : B[c] = 1 /\ Carrier(c, i) /\ \A t \in DOMAIN B \ {c} : Quiet(t)
  BY <1>2 DEF BagInv
<1>4. c = s
  BY <1>3
<1> QED BY <1>1, <1>2, <1>3, <1>4 DEF BagInv, R

\* What is left of a sequence after its first message.
LEMMA TailOf ==
  ASSUME NEW s, WellFormed(s), Tail(s) # <<>>
  PROVE  WellFormed(Tail(s))
<1>1. /\ s \in Seq(Message) /\ Len(s) \in Nat /\ Len(s) > 0 /\ DOMAIN s = 1 .. Len(s)
  BY DEF WellFormed
<1>2. /\ Tail(s) \in Seq(Message) /\ Len(Tail(s)) = Len(s) - 1
      /\ DOMAIN Tail(s) = 1 .. Len(s) - 1
      /\ \A k \in 1 .. Len(s) - 1 : Tail(s)[k] = s[k + 1] /\ k + 1 \in DOMAIN s
  BY <1>1
<1>3. ASSUME NEW k \in DOMAIN Tail(s), Tail(s)[k].of # 0
      PROVE  \E l \in DOMAIN Tail(s) : k < l /\ Tail(s)[l].id = Tail(s)[k].of
  <2>1. PICK l \in DOMAIN s : k + 1 < l /\ s[l].id = s[k + 1].of
    BY <1>2, <1>3 DEF WellFormed
  <2>2. l - 1 \in 1 .. Len(s) - 1 /\ k < l - 1 /\ (l - 1) + 1 = l
    BY <1>1, <1>2, <1>3, <2>1
  <2> QED BY <1>2, <1>3, <2>1, <2>2
<1> QED BY <1>2, <1>3 DEF WellFormed

\* Taking the first message of a sequence: its call, if it has one, is taken too.
LEMMA TakeFirst ==
  ASSUME NEW B, NEW i, BagInv(B, i), NEW s \in DOMAIN B
  PROVE  /\ Head(s) \in Message /\ Head(s).id \in {0, i}
         /\ Head(s).id # 0 => Head(s).type \in {"runLua", "dispatch", "completed"}
         /\ Head(s).type \in {"dispatch", "completed"} => Head(s).id # 0
         /\ BagInv(Post(B (-) SetToBag({s}), Tail(s)), IF Head(s).id = 0 THEN i ELSE 0)
<1> DEFINE R == B (-) SetToBag({s})
<1>1. /\ WellFormed(s) /\ s \in Seq(Message) /\ Len(s) \in Nat /\ Len(s) > 0 /\ DOMAIN s = 1 .. Len(s)
      /\ Head(s) = s[1]
  BY DEF BagInv, WellFormed
<1>2. /\ DOMAIN Tail(s) = 1 .. Len(s) - 1
      /\ \A k \in 1 .. Len(s) - 1 : Tail(s)[k] = s[k + 1] /\ k + 1 \in DOMAIN s
  BY <1>1
<1>3. /\ Head(s) \in Message
      /\ Head(s).id # 0 => Head(s).type \in {"runLua", "dispatch", "completed"}
      /\ Head(s).type \in {"dispatch", "completed"} => Head(s).id # 0
  BY <1>1 DEF WellFormed
<1>4. ASSUME NEW j, BagInv(R, j), Quiet(Tail(s)) PROVE BagInv(Post(R, Tail(s)), j)
  BY <1>1, <1>4, PostQuiet, TailOf DEF Post
<1>5. CASE Quiet(s)
  <2>1. Head(s).id = 0 /\ Quiet(Tail(s))
    BY <1>1, <1>2, <1>5 DEF Quiet
  <2>2. BagInv(R, i)
    BY <1>5, TakeQuiet
  <2> QED BY <1>3, <1>4, <2>1, <2>2
<1>6. CASE ~Quiet(s)
  <2>1. i # 0 /\ Carrier(s, i) /\ BagInv(R, 0)
    BY <1>6, TakeCarrier
  <2>2. PICK p \in DOMAIN s : s[p].id = i /\ \A k \in DOMAIN s \ {p} : s[k].id = 0
    BY <2>1 DEF Carrier
  <2>3. CASE p = 1
    <3>1. Head(s).id = i /\ Quiet(Tail(s))
      BY <1>1, <1>2, <2>2, <2>3 DEF Quiet
    <3> QED BY <1>3, <1>4, <2>1, <3>1
  <2>4. CASE p # 1
    <3>1. Head(s).id = 0
      BY <1>1, <2>2, <2>4
    <3>2. p - 1 \in DOMAIN Tail(s) /\ Tail(s)[p - 1].id = i
      BY <1>1, <1>2, <2>2, <2>4
    <3>3. \A k \in DOMAIN Tail(s) \ {p - 1} : Tail(s)[k].id = 0
      BY <1>1, <1>2, <2>2
    <3>4. Tail(s) # <<>> /\ Carrier(Tail(s), i)
      BY <3>2, <3>3 DEF Carrier
    <3>5. BagInv(Post(R, Tail(s)), i)
      BY <1>1, <2>1, <3>4, PostCarrier, TailOf
    <3> QED BY <1>3, <3>1, <3>5
  <2> QED BY <2>3, <2>4
<1> QED BY <1>5, <1>6

-----------------------------------------------------------------------------
(* The stack of runners.                                                     *)

\* A runner that suspends on top waits with a number of its own.
LEMMA PushFrame ==
  ASSUME NEW fs, NEW w, FramesInv(fs, w), fs = <<>> \/ TopCall(fs) # 0,
         NEW kind \in WaitKinds,
         NEW f, f = [id |-> TopCall(fs), wait |-> [kind |-> kind, id |-> w + 1]]
  PROVE  /\ FramesInv(Append(fs, f), w + 1)
         /\ TopCall(Append(fs, f)) = IF kind = "action" THEN w + 1 ELSE 0
<1> DEFINE gs == Append(fs, f)
           n == Len(fs)
<1>1. fs \in Seq(Frame) /\ w \in Nat /\ n \in Nat /\ DOMAIN fs = 1 .. n
  BY DEF FramesInv
<1>2. TopCall(fs) \in Nat
  <2>1. fs # <<>> => fs[n] \in Frame
    BY <1>1
  <2>2. fs # <<>> => fs[n].wait.id \in Nat
    BY <2>1 DEF Frame
  <2> QED BY <2>2 DEF TopCall
<1>3. f \in Frame /\ f.id = TopCall(fs) /\ f.wait.kind = kind /\ f.wait.id = w + 1
  BY <1>1, <1>2 DEF Frame
<1>4. /\ gs \in Seq(Frame) /\ Len(gs) = n + 1 /\ DOMAIN gs = 1 .. n + 1
      /\ gs[n + 1] = f /\ \A k \in 1 .. n : gs[k] = fs[k]
  BY <1>1, <1>3
<1> HIDE DEF gs
<1>5. \A k \in 1 .. n : fs[k].wait.id \in 1 .. w
  BY <1>1 DEF FramesInv
<1>6. \A k \in 1 .. n + 1 : gs[k].wait.id \in 1 .. w + 1
  BY <1>1, <1>3, <1>4, <1>5
<1>7. \A j, k \in 1 .. n + 1 : j < k => gs[j].wait.id < gs[k].wait.id
  <2> SUFFICES ASSUME NEW j \in 1 .. n + 1, NEW k \in 1 .. n + 1, j < k
               PROVE  gs[j].wait.id < gs[k].wait.id
    OBVIOUS
  <2>1. CASE k \in 1 .. n
    <3>1. j \in 1 .. n /\ gs[j] = fs[j] /\ gs[k] = fs[k]
      BY <1>1, <1>4, <2>1
    <3> QED BY <1>1, <2>1, <3>1 DEF FramesInv
  <2>2. CASE k = n + 1
    BY <1>1, <1>3, <1>4, <1>5, <2>2
  <2> QED BY <1>1, <2>1, <2>2
<1>8. \A k \in 1 .. n + 1 :
        IF k = 1 THEN gs[k].id = 0
        ELSE Waiting(gs[k - 1], "action") /\ gs[k].id = gs[k - 1].wait.id
  <2> SUFFICES ASSUME NEW k \in 1 .. n + 1
               PROVE  IF k = 1 THEN gs[k].id = 0
                      ELSE Waiting(gs[k - 1], "action") /\ gs[k].id = gs[k - 1].wait.id
    OBVIOUS
  <2>1. CASE k \in 1 .. n
    <3>1. gs[k] = fs[k] /\ (k # 1 => k - 1 \in 1 .. n /\ gs[k - 1] = fs[k - 1])
      BY <1>1, <1>4, <2>1
    <3> QED BY <1>1, <2>1, <3>1 DEF FramesInv
  <2>2. CASE k = n + 1 /\ n = 0
    <3>1. fs = <<>>
      BY <1>1, <2>2
    <3> QED BY <1>3, <1>4, <2>2, <3>1 DEF TopCall
  <2>3. CASE k = n + 1 /\ n # 0
    <3>1. fs # <<>> /\ gs[k - 1] = fs[n] /\ gs[k] = f /\ k # 1
      BY <1>1, <1>4, <2>3
    <3>2. Waiting(fs[n], "action") /\ TopCall(fs) = fs[n].wait.id
      BY <3>1 DEF TopCall
    <3> QED BY <1>3, <3>1, <3>2
  <2> QED BY <1>1, <2>1, <2>2, <2>3
<1>9. FramesInv(gs, w + 1)
  BY <1>1, <1>4, <1>6, <1>7, <1>8 DEF FramesInv
<1>10. TopCall(gs) = IF kind = "action" THEN w + 1 ELSE 0
  <2>1. gs # <<>> /\ gs[Len(gs)] = f
    BY <1>1, <1>4
  <2> QED BY <1>3, <2>1 DEF TopCall, Waiting
<1> QED BY <1>9, <1>10 DEF gs

\* Below the top runner is the one that waits for the call that it serves.
LEMMA PopFrame ==
  ASSUME NEW fs, NEW w, FramesInv(fs, w), fs # <<>>
  PROVE  /\ FramesInv(Front(fs), w)
         /\ Last(fs) = fs[Len(fs)]
         /\ TopCall(Front(fs)) = Last(fs).id
         /\ Front(fs) = <<>> \/ Last(fs).id # 0
<1> DEFINE gs == Front(fs)
           n == Len(fs)
<1>1. fs \in Seq(Frame) /\ w \in Nat /\ n \in Nat /\ n > 0 /\ DOMAIN fs = 1 .. n
  BY DEF FramesInv
<1>2. Last(fs) = fs[n]
  BY DEF Last
<1>3. /\ gs \in Seq(Frame) /\ Len(gs) = n - 1 /\ DOMAIN gs = 1 .. n - 1
      /\ \A k \in 1 .. n - 1 : gs[k] = fs[k]
  BY <1>1 DEF Front
<1> HIDE DEF gs
<1>4. \A k \in 1 .. n - 1 : k \in DOMAIN fs /\ gs[k] = fs[k] /\ (k # 1 => k - 1 \in 1 .. n - 1 /\ gs[k - 1] = fs[k - 1])
  BY <1>1, <1>3
<1>5. /\ \A k \in DOMAIN gs : gs[k].wait.id \in 1 .. w
      /\ \A j, k \in DOMAIN gs : j < k => gs[j].wait.id < gs[k].wait.id
  BY <1>3, <1>4 DEF FramesInv
<1>6. \A k \in DOMAIN gs :
        IF k = 1 THEN gs[k].id = 0
        ELSE Waiting(gs[k - 1], "action") /\ gs[k].id = gs[k - 1].wait.id
  BY <1>3, <1>4 DEF FramesInv
<1>7. FramesInv(gs, w)
  BY <1>1, <1>3, <1>5, <1>6 DEF FramesInv
<1>8. CASE n = 1
  <2>1. gs = <<>> /\ fs[n].id = 0
    BY <1>1, <1>3, <1>8 DEF FramesInv
  <2> QED BY <1>2, <1>7, <2>1 DEF TopCall, gs
<1>9. CASE n # 1
  <2>1. gs # <<>> /\ gs[Len(gs)] = fs[n - 1] /\ n - 1 \in DOMAIN fs
    BY <1>1, <1>3, <1>9
  <2>2. Waiting(fs[n - 1], "action") /\ fs[n].id = fs[n - 1].wait.id
    BY <1>1, <1>9 DEF FramesInv
  <2>3. fs[n - 1].wait.id # 0
    BY <1>1, <2>1 DEF FramesInv
  <2> QED BY <1>2, <1>7, <2>1, <2>2, <2>3 DEF TopCall, gs
<1> QED BY <1>8, <1>9

-----------------------------------------------------------------------------
(* The sequences that the handlers post.                                     *)

\* A message on its own, whose action sent nothing before it.
Sound(m) ==
  /\ m \in Message
  /\ m.id # 0 => m.type \in {"runLua", "dispatch", "completed"}
  /\ m.type \in {"dispatch", "completed"} => m.id # 0

\* A sequence of one message that no call waits for before is well formed.
LEMMA OneMessage ==
  ASSUME NEW m, Sound(m), m.of = 0
  PROVE  WellFormed(<<m>>) /\ (m.id = 0 => Quiet(<<m>>)) /\ Carrier(<<m>>, m.id)
<1> DEFINE s == <<m>>
<1>1. s \in Seq(Message) /\ s # <<>> /\ DOMAIN s = {1} /\ s[1] = m
  BY DEF Sound
<1> HIDE DEF s
<1>2. WellFormed(s)
  BY <1>1 DEF WellFormed, Sound
<1>3. m.id = 0 => Quiet(s)
  BY <1>1 DEF Quiet
<1>4. Carrier(s, m.id)
  BY <1>1 DEF Carrier
<1> QED BY <1>2, <1>3, <1>4 DEF s

\* A message without call, followed by another that may answer it, is well formed.
LEMMA TwoMessages ==
  ASSUME NEW m, Sound(m), m.id = 0, NEW n, Sound(n), n.of = 0, m.of \in {0, n.id}
  PROVE  WellFormed(<<m, n>>) /\ (n.id = 0 => Quiet(<<m, n>>)) /\ Carrier(<<m, n>>, n.id)
<1> DEFINE s == <<m, n>>
<1>1. s \in Seq(Message) /\ s # <<>> /\ DOMAIN s = {1, 2} /\ s[1] = m /\ s[2] = n
  BY DEF Sound
<1> HIDE DEF s
<1>2. WellFormed(s)
  BY <1>1 DEF WellFormed, Sound
<1>3. n.id = 0 => Quiet(s)
  BY <1>1 DEF Quiet
<1>4. Carrier(s, n.id)
  BY <1>1 DEF Carrier
<1> QED BY <1>2, <1>3, <1>4 DEF s

\* Messages without a call, and calls.
LEMMA MsgIsSound ==
  ASSUME NEW t \in MsgTypes \ {"dispatch", "completed"}
  PROVE  Sound(Msg(t)) /\ Msg(t).id = 0 /\ Msg(t).of = 0
BY DEF Sound, Msg, Message

\* A message that carries a call is sound.
LEMMA CallIsSound ==
  ASSUME NEW t \in {"runLua", "dispatch", "completed"}, NEW i \in Nat, i # 0
  PROVE  Sound(Call(t, i)) /\ Call(t, i).id = i /\ Call(t, i).of = 0
BY DEF Sound, Call, Message, MsgTypes

\* An effect of a call is sound: it carries none itself.
LEMMA EffectIsSound ==
  ASSUME NEW t \in {"close", "refresh"}, NEW i \in Nat
  PROVE  Sound(Effect(t, i)) /\ Effect(t, i).id = 0 /\ Effect(t, i).of = i
BY DEF Sound, Effect, Message, MsgTypes

\* Short concatenations.
LEMMA Concatenations ==
  ASSUME NEW a, NEW b
  PROVE  <<>> \o <<a>> = <<a>> /\ <<a>> \o <<>> = <<a>> /\ <<a>> \o <<b>> = <<a, b>> /\ <<>> \o <<>> = <<>>
<1> DEFINE S == {a, b}
<1>1. <<a>> \in Seq(S) /\ <<b>> \in Seq(S) /\ <<a, b>> \in Seq(S) /\ <<>> \in Seq(S)
  OBVIOUS
<1>2. <<a>> \o <<b>> \in Seq(S) /\ Len(<<a>> \o <<b>>) = Len(<<a, b>>)
  BY <1>1
<1>3. \A k \in 1 .. Len(<<a, b>>) : (<<a>> \o <<b>>)[k] = <<a, b>>[k]
  BY <1>1
<1>4. <<a>> \o <<b>> = <<a, b>>
  BY <1>1, <1>2, <1>3, SeqEqual
<1> HIDE DEF S
<1> QED BY <1>1, <1>4, ConcatEmptySeq

\* A message after the steps that do not wait.
LEMMA PostMsg ==
  ASSUME NEW B, NEW i, BagInv(B, i), NEW t \in MsgTypes \ {"dispatch", "completed"}
  PROVE  /\ BagInv(Post(B, <<Msg(t)>>), i)
         /\ \A before \in StepsBefore :
              /\ BagInv(Post(B, before \o <<Msg(t)>>), i)
              /\ BagInv(Post(B, before \o <<>>), i)
<1>1. WellFormed(<<Msg(t)>>) /\ Quiet(<<Msg(t)>>)
  BY MsgIsSound, OneMessage
<1>2. BagInv(Post(B, <<Msg(t)>>), i)
  BY <1>1, PostQuiet
<1>3. "execCompleted" \in MsgTypes \ {"dispatch", "completed"}
  BY DEF MsgTypes
<1> DEFINE e == Msg("execCompleted")
<1>4. Sound(e) /\ e.id = 0 /\ e.of = 0
  BY <1>3, MsgIsSound
<1>5. WellFormed(<<e>>) /\ Quiet(<<e>>)
  BY <1>4, OneMessage
<1>6. WellFormed(<<e, Msg(t)>>) /\ Quiet(<<e, Msg(t)>>)
  BY <1>4, MsgIsSound, TwoMessages
<1> HIDE DEF e
<1>7. /\ <<>> \o <<Msg(t)>> = <<Msg(t)>> /\ <<e>> \o <<Msg(t)>> = <<e, Msg(t)>>
      /\ <<>> \o <<>> = <<>> /\ <<e>> \o <<>> = <<e>>
  BY Concatenations
<1>8. BagInv(Post(B, <<e>>), i) /\ BagInv(Post(B, <<e, Msg(t)>>), i) /\ BagInv(Post(B, <<>>), i)
  <2>1. Post(B, <<>>) = B
    BY DEF Post
  <2> QED BY <1>5, <1>6, <2>1, PostQuiet
<1>9. StepsBefore = {<<>>, <<e>>}
  BY DEF StepsBefore, e
<1> QED BY <1>2, <1>7, <1>8, <1>9

\* A call after the steps that do not wait.
LEMMA PostCall ==
  ASSUME NEW B, BagInv(B, 0), NEW i \in Nat, i # 0, NEW t \in {"runLua", "dispatch", "completed"}
  PROVE  /\ BagInv(Post(B, <<Call(t, i)>>), i)
         /\ \A before \in StepsBefore : BagInv(Post(B, before \o <<Call(t, i)>>), i)
<1> DEFINE e == Msg("execCompleted")
           c == Call(t, i)
<1>1. Sound(c) /\ c.id = i /\ c.of = 0
  BY CallIsSound
<1>2. "execCompleted" \in MsgTypes \ {"dispatch", "completed"}
  BY DEF MsgTypes
<1>3. Sound(e) /\ e.id = 0 /\ e.of = 0
  BY <1>2, MsgIsSound
<1> HIDE DEF e, c
<1>4. WellFormed(<<c>>) /\ Carrier(<<c>>, i) /\ WellFormed(<<e, c>>) /\ Carrier(<<e, c>>, i)
  <2>1. WellFormed(<<c>>) /\ Carrier(<<c>>, c.id)
    BY <1>1, OneMessage
  <2>2. WellFormed(<<e, c>>) /\ Carrier(<<e, c>>, c.id)
    BY <1>1, <1>3, TwoMessages
  <2> QED BY <1>1, <2>1, <2>2
<1>5. BagInv(Post(B, <<c>>), i) /\ BagInv(Post(B, <<e, c>>), i)
  BY <1>4, PostCarrier
<1>6. <<>> \o <<c>> = <<c>> /\ <<e>> \o <<c>> = <<e, c>>
  BY Concatenations
<1>7. StepsBefore = {<<>>, <<e>>}
  BY DEF StepsBefore, e
<1> QED BY <1>5, <1>6, <1>7 DEF c

\* The answer to the call i; there is none to the script of a key.
LEMMA PostAnswer ==
  ASSUME NEW B, BagInv(B, 0), NEW i \in Nat
  PROVE  /\ BagInv(Post(B, actionCompleted(i)), i)
         /\ \A before \in StepsBefore : BagInv(Post(B, before \o actionCompleted(i)), i)
<1>1. CASE i = 0
  <2>1. actionCompleted(i) = <<>> /\ Post(B, <<>>) = B
    BY <1>1 DEF actionCompleted, Post
  <2>2. "refresh" \in MsgTypes \ {"dispatch", "completed"}
    BY DEF MsgTypes
  <2>3. \A before \in StepsBefore : BagInv(Post(B, before \o <<>>), 0)
    BY <2>2, PostMsg
  <2> QED BY <1>1, <2>1, <2>3
<1>2. CASE i # 0
  <2>1. actionCompleted(i) = <<Call("completed", i)>>
    BY <1>2 DEF actionCompleted
  <2> QED BY <1>2, <2>1, PostCall
<1> QED BY <1>1, <1>2

-----------------------------------------------------------------------------
(* The runner and the handlers.                                              *)

\* A runner that goes on ends or waits for its next step, and what it sends carries
\* its call or a new one.
LEMMA ResumeRunner ==
  ASSUME MaxWaits \in Nat, waits \in 0 .. MaxWaits,
         NEW below, FramesInv(below, waits), below = <<>> \/ TopCall(below) # 0,
         NEW rest, BagInv(rest, 0), NEW i \in Nat, i = TopCall(below), Resume(below, i, rest)
  PROVE  /\ waits' \in 0 .. MaxWaits /\ FramesInv(frames', waits')
         /\ BagInv(cmds', TopCall(frames'))
<1>1. PICK before \in StepsBefore :
    \/ /\ waits < MaxWaits
       /\ waits' = waits + 1
       /\ \E kind \in WaitKinds : \E command \in StepCommands(kind, waits + 1) :
            /\ frames' = Append(below, [id |-> i, wait |-> [kind |-> kind, id |-> waits + 1]])
            /\ cmds' = Post(rest, before \o command)
    \/ /\ frames' = below
       /\ cmds' = Post(rest, before \o actionCompleted(i))
       /\ UNCHANGED waits
  BY DEF Resume
<1>2. CASE /\ frames' = below
           /\ cmds' = Post(rest, before \o actionCompleted(i))
           /\ UNCHANGED waits
  BY <1>2, PostAnswer
<1>3. ASSUME waits < MaxWaits, waits' = waits + 1,
             NEW kind \in WaitKinds, NEW command \in StepCommands(kind, waits + 1),
             frames' = Append(below, [id |-> i, wait |-> [kind |-> kind, id |-> waits + 1]]),
             cmds' = Post(rest, before \o command)
      PROVE  /\ waits' \in 0 .. MaxWaits /\ FramesInv(frames', waits')
             /\ BagInv(cmds', TopCall(frames'))
  <2>1. waits' \in 0 .. MaxWaits /\ waits + 1 \in Nat /\ waits + 1 # 0
    BY <1>3
  <2>2. /\ FramesInv(frames', waits')
        /\ TopCall(frames') = IF kind = "action" THEN waits + 1 ELSE 0
    BY <1>3, PushFrame
  <2>3. CASE kind = "action"
    <3>1. command = <<Call("dispatch", waits + 1)>>
      BY <1>3, <2>3 DEF StepCommands, generatedAction
    <3> QED BY <1>3, <2>1, <2>2, <2>3, <3>1, PostCall
  <2>4. CASE kind # "action"
    <3>1. command = <<>> \/ \E t \in MsgTypes \ {"dispatch", "completed"} : command = <<Msg(t)>>
      BY <1>3, <2>4 DEF StepCommands, WaitKinds, MsgTypes
    <3>2. "refresh" \in MsgTypes \ {"dispatch", "completed"}
      BY DEF MsgTypes
    <3>3. BagInv(Post(rest, before \o command), 0)
      BY <3>1, <3>2, PostMsg
    <3> QED BY <1>3, <2>1, <2>2, <2>4, <3>3
  <2> QED BY <2>3, <2>4
<1> QED BY <1>1, <1>2, <1>3

\* What a handler finds: the message m is taken, and if it carried a call it was
\* the one that the runner on top waits for.
Found(m, rest) ==
  /\ waits \in 0 .. MaxWaits /\ layers \in Seq(LayerKinds)
  /\ FramesInv(frames, waits)
  /\ Sound(m) /\ m.id \in {0, TopCall(frames)}
  /\ BagInv(rest, IF m.id = 0 THEN TopCall(frames) ELSE 0)

\* What it leaves.
Left ==
  /\ waits' \in 0 .. MaxWaits
  /\ FramesInv(frames', waits')
  /\ BagInv(cmds', TopCall(frames'))

\* handleScriptMsg resumes the top runner on the message it waits for, and keeps
\* frames and messages sound.
LEMMA ScriptMsg ==
  ASSUME MaxWaits \in Nat, NEW m, NEW rest, Found(m, rest),
         m.type \in {"completed", "chosen", "entered", "close", "updated"},
         handleScriptMsg(m, rest)
  PROVE  Left
<1>1. /\ waits \in 0 .. MaxWaits /\ FramesInv(frames, waits) /\ Sound(m)
      /\ m.id \in {0, TopCall(frames)}
      /\ m.id = 0 => BagInv(rest, TopCall(frames))
      /\ m.id # 0 => BagInv(rest, 0)
  BY DEF Found
<1>2. CASE frames # <<>> /\ Matches(Last(frames).wait, m)
  <2>1. Resume(Front(frames), Last(frames).id, rest)
    BY <1>2 DEF handleScriptMsg
  <2>2. /\ FramesInv(Front(frames), waits) /\ Last(frames) = frames[Len(frames)]
        /\ TopCall(Front(frames)) = Last(frames).id
        /\ Front(frames) = <<>> \/ Last(frames).id # 0
    BY <1>1, <1>2, PopFrame
  <2>3. Last(frames) \in Frame
    BY <1>1, <1>2, <2>2 DEF FramesInv
  <2>4. Last(frames).id \in Nat /\ Last(frames).wait.kind \in WaitKinds
    BY <2>3 DEF Frame
  <2>5. BagInv(rest, 0)
    <3>1. CASE Last(frames).wait.kind = "action"
      <4>1. m.type = "completed"
        BY <1>2, <3>1 DEF Matches
      <4>2. m.id # 0
        BY <1>1, <4>1 DEF Sound
      <4> QED BY <1>1, <4>2
    <3>2. CASE Last(frames).wait.kind # "action"
      <4>1. TopCall(frames) = 0
        BY <2>2, <3>2 DEF TopCall, Waiting
      <4> QED BY <1>1, <4>1
    <3> QED BY <3>1, <3>2
  <2> QED BY <1>1, <2>1, <2>2, <2>4, <2>5, ResumeRunner DEF Left
<1>3. CASE ~(frames # <<>> /\ Matches(Last(frames).wait, m))
  <2>1. cmds' = rest /\ frames' = frames /\ waits' = waits
    BY <1>3 DEF handleScriptMsg
  <2>2. m.id = 0
    <3> SUFFICES ASSUME m.id # 0 PROVE FALSE
      OBVIOUS
    <3>1. m.id = TopCall(frames) /\ m.type = "completed"
      BY <1>1 DEF Sound
    <3>2. frames # <<>> /\ frames[Len(frames)].wait.kind = "action" /\ m.id = frames[Len(frames)].wait.id
      BY <3>1 DEF TopCall, Waiting
    <3>3. Last(frames) = frames[Len(frames)]
      BY <1>1, <3>2, PopFrame
    <3> QED BY <1>3, <3>1, <3>2, <3>3 DEF Matches
  <2> QED BY <1>1, <2>1, <2>2 DEF Left
<1> QED BY <1>2, <1>3

\* The views keep their type.
LEMMA LayersTyped ==
  ASSUME layers \in Seq(LayerKinds)
  PROVE  /\ layers # <<>> => Front(layers) \in Seq(LayerKinds)
         /\ closeDialog \in Seq(LayerKinds)
         /\ \A kind \in LayerKinds : /\ openDialog(kind) \in Seq(LayerKinds)
                                     /\ openScreen(kind) \in Seq(LayerKinds)
<1>1. layers # <<>> => Front(layers) \in Seq(LayerKinds)
  BY DEF Front
<1>2. closeDialog \in Seq(LayerKinds)
  <2>1. CASE layers = <<>>
    BY <2>1 DEF closeDialog, Top, Dialogs, LayerKinds
  <2>2. CASE layers # <<>>
    BY <1>1, <2>2 DEF closeDialog
  <2> QED BY <2>1, <2>2
<1>3. ASSUME NEW kind \in LayerKinds PROVE WithoutScreen(layers, kind) \in Seq(LayerKinds)
  <2> DEFINE at == CHOOSE i \in DOMAIN layers : layers[i] = kind
  <2>1. CASE kind \in Range(layers)
    <3>1. \E i \in DOMAIN layers : layers[i] = kind
      BY <2>1 DEF Range
    <3>2. at \in DOMAIN layers
      BY <3>1
    <3> HIDE DEF at
    <3>3. /\ SubSeq(layers, 1, at - 1) \in Seq(LayerKinds)
          /\ SubSeq(layers, at + 1, Len(layers)) \in Seq(LayerKinds)
      BY <3>2
    <3>4. RemoveAt(layers, at) \in Seq(LayerKinds)
      BY <3>3 DEF RemoveAt
    <3> QED BY <2>1, <3>4 DEF WithoutScreen, at
  <2>2. CASE kind \notin Range(layers)
    BY <2>2 DEF WithoutScreen
  <2> QED BY <2>1, <2>2
<1> QED BY <1>1, <1>2, <1>3 DEF openDialog, openScreen

\* The number that the runner on top waits with.
LEMMA TopCallTyped ==
  ASSUME NEW fs, NEW w, FramesInv(fs, w)
  PROVE  TopCall(fs) \in Nat /\ (fs = <<>> => TopCall(fs) = 0)
<1>1. fs \in Seq(Frame)
  BY DEF FramesInv
<1>2. CASE fs # <<>>
  <2>1. fs[Len(fs)] \in Frame
    BY <1>1, <1>2
  <2>2. fs[Len(fs)].wait.id \in Nat
    BY <2>1 DEF Frame
  <2> QED BY <1>2, <2>2 DEF TopCall
<1> QED BY <1>2 DEF TopCall

\* A script starts, of a key or of the call that the runner on top waits for.
LEMMA StartScript ==
  ASSUME MaxWaits \in Nat, NEW m, NEW rest, Found(m, rest), m.type = "runLua", RunLuaScript(m, rest)
  PROVE  Left
<1>1. /\ waits \in 0 .. MaxWaits /\ FramesInv(frames, waits)
      /\ m.id \in {0, TopCall(frames)}
      /\ m.id = 0 => BagInv(rest, TopCall(frames))
      /\ m.id # 0 => BagInv(rest, 0)
  BY DEF Found
<1>2. CASE Rejected(m.id)
  <2>1. m.id = 0 /\ cmds' = rest /\ frames' = frames /\ waits' = waits
    BY <1>2 DEF RunLuaScript, Rejected
  <2> QED BY <1>1, <2>1 DEF Left
<1>3. CASE ~Rejected(m.id)
  <2>1. RunScript(m.id, rest)
    BY <1>3 DEF RunLuaScript
  <2>2. TopCall(frames) \in Nat /\ (frames = <<>> => TopCall(frames) = 0)
    BY <1>1, TopCallTyped
  <2>3. m.id = TopCall(frames) /\ (frames = <<>> \/ TopCall(frames) # 0)
    BY <1>1, <1>3, <2>2 DEF Rejected
  <2>4. BagInv(rest, 0)
    BY <1>1, <2>3
  <2>5. CASE cmds' = Post(rest, actionCompleted(m.id)) /\ UNCHANGED <<frames, waits>>
    <3>1. BagInv(Post(rest, actionCompleted(m.id)), TopCall(frames))
      BY <2>2, <2>3, <2>4, PostAnswer
    <3> QED BY <1>1, <2>5, <3>1 DEF Left
  <2>6. CASE Resume(frames, m.id, rest)
    BY <1>1, <2>2, <2>3, <2>4, <2>6, ResumeRunner DEF Left
  <2> QED BY <2>1, <2>5, <2>6 DEF RunScript
<1> QED BY <1>2, <1>3

\* A call that another script will serve, or that an intent has answered.
LEMMA DispatchCall ==
  ASSUME NEW m, NEW rest, Found(m, rest), m.type = "dispatch",
         DispatchLua(m, rest) \/ DispatchIntent(m, rest)
  PROVE  Left
<1>1. /\ waits \in 0 .. MaxWaits /\ FramesInv(frames, waits)
      /\ m.id # 0 /\ m.id = TopCall(frames) /\ BagInv(rest, 0)
  BY DEF Found, Sound
<1>2. m.id \in Nat
  BY <1>1, TopCallTyped
<1>3. frames' = frames /\ waits' = waits
  BY DEF DispatchLua, DispatchIntent
<1> SUFFICES BagInv(cmds', m.id)
  BY <1>1, <1>3 DEF Left
<1>4. CASE DispatchLua(m, rest)
  BY <1>1, <1>2, <1>4, PostCall DEF DispatchLua
<1>5. CASE cmds' = Post(rest, actionCompleted(m.id))
  BY <1>1, <1>2, <1>5, PostAnswer
<1>6. ASSUME NEW type \in {"close", "refresh"},
             cmds' = Post(rest, <<Effect(type, m.id)>> \o actionCompleted(m.id))
      PROVE  BagInv(cmds', m.id)
  <2> DEFINE e == Effect(type, m.id)
             c == Call("completed", m.id)
  <2>1. Sound(e) /\ e.id = 0 /\ e.of = m.id
    BY <1>2, EffectIsSound
  <2>2. Sound(c) /\ c.id = m.id /\ c.of = 0
    BY <1>1, <1>2, CallIsSound
  <2>3. actionCompleted(m.id) = <<c>>
    BY <1>1 DEF actionCompleted
  <2> HIDE DEF e, c
  <2>4. WellFormed(<<e, c>>) /\ Carrier(<<e, c>>, c.id)
    BY <2>1, <2>2, TwoMessages
  <2>5. <<e>> \o <<c>> = <<e, c>>
    BY Concatenations
  <2>6. BagInv(Post(rest, <<e, c>>), m.id)
    BY <1>1, <2>2, <2>4, PostCarrier
  <2> QED BY <1>6, <2>3, <2>5, <2>6 DEF e
<1>7. ASSUME cmds' = Post(rest, <<>> \o actionCompleted(m.id))
      PROVE  BagInv(cmds', m.id)
  <2>1. actionCompleted(m.id) = <<Call("completed", m.id)>>
    BY <1>1 DEF actionCompleted
  <2>2. <<>> \o actionCompleted(m.id) = actionCompleted(m.id)
    BY <2>1, Concatenations
  <2> QED BY <1>5, <1>7, <2>2
<1> QED BY <1>4, <1>5, <1>6, <1>7 DEF DispatchIntent

\* The other handlers leave the runners alone and post messages without a call.
LEMMA QuietHandler ==
  ASSUME NEW m, NEW rest, Found(m, rest), m.id = 0, frames' = frames, waits' = waits,
         \/ cmds' = rest
         \/ \E t \in {"chosen", "entered", "close", "refresh", "updated"} : cmds' = Post(rest, <<Msg(t)>>)
  PROVE  Left
<1>1. waits \in 0 .. MaxWaits /\ FramesInv(frames, waits) /\ BagInv(rest, TopCall(frames))
  BY DEF Found
<1>2. {"chosen", "entered", "close", "refresh", "updated"} \subseteq MsgTypes \ {"dispatch", "completed"}
  BY DEF MsgTypes
<1>3. BagInv(cmds', TopCall(frames))
  BY <1>1, <1>2, PostMsg
<1> QED BY <1>1, <1>3 DEF Left

\* Every handler of Update leaves frames, messages and layers sound.
LEMMA HandleKeeps ==
  ASSUME MaxWaits \in Nat, NEW m, NEW rest, Found(m, rest), Handle(m, rest)
  PROVE  Left /\ layers' \in Seq(LayerKinds)
<1>1. Sound(m) /\ layers \in Seq(LayerKinds)
  BY DEF Found
<1>2. /\ layers # <<>> => Front(layers) \in Seq(LayerKinds)
      /\ closeDialog \in Seq(LayerKinds)
      /\ \A kind \in LayerKinds : /\ openDialog(kind) \in Seq(LayerKinds)
                                  /\ openScreen(kind) \in Seq(LayerKinds)
  BY <1>1, LayersTyped
<1>3. {"choose", "input", "dialog", "oplog"} \subseteq LayerKinds
  BY DEF LayerKinds
<1>4. CASE m.type = "runLua" /\ RunLuaScript(m, rest)
  BY <1>1, <1>4, StartScript DEF RunLuaScript
<1>5. CASE m.type = "dispatch" /\ (DispatchLua(m, rest) \/ DispatchIntent(m, rest))
  <2>1. layers' \in Seq(LayerKinds)
    BY <1>1, <1>2, <1>3, <1>5 DEF DispatchLua, DispatchIntent
  <2> QED BY <1>5, <2>1, DispatchCall
<1>6. CASE m.type = "completed" /\ ActionCompleted(m, rest)
  BY <1>1, <1>6, ScriptMsg DEF ActionCompleted
<1>7. CASE m.type \in {"showChoose", "showInput"} /\ ShowDialog(m, rest)
  <2>1. m.id = 0
    BY <1>1, <1>7 DEF Sound
  <2>2. frames' = frames /\ waits' = waits /\ cmds' = rest /\ layers' \in Seq(LayerKinds)
    BY <1>2, <1>3, <1>7 DEF ShowDialog
  <2> QED BY <2>1, <2>2, QuietHandler
<1>8. CASE m.type \in {"chosen", "entered"} /\ Answered(m, rest)
  BY <1>2, <1>8, ScriptMsg DEF Answered
<1>9. CASE m.type = "close" /\ (CloseOverlay(m, rest) \/ CloseLayer(m, rest) \/ CloseOperation(m, rest))
  <2>1. m.id = 0
    BY <1>1, <1>9 DEF Sound
  <2>2. CASE CloseOverlay(m, rest)
    BY <1>1, <2>1, <2>2, QuietHandler DEF CloseOverlay
  <2>3. CASE CloseLayer(m, rest)
    <3>1. frames' = frames /\ waits' = waits /\ layers' \in Seq(LayerKinds)
      BY <1>2, <2>3 DEF CloseLayer
    <3>2. cmds' = rest \/ \E t \in {"chosen", "entered", "close"} : cmds' = Post(rest, <<Msg(t)>>)
      BY <2>3 DEF CloseLayer
    <3> QED BY <2>1, <3>1, <3>2, QuietHandler
  <2>4. CASE CloseOperation(m, rest)
    BY <1>1, <1>9, <2>4, ScriptMsg DEF CloseOperation
  <2> QED BY <1>9, <2>2, <2>3, <2>4
<1>10. CASE m.type = "refresh" /\ Refresh(m, rest)
  <2>1. m.id = 0
    BY <1>1, <1>10 DEF Sound
  <2> QED BY <1>1, <1>10, <2>1, QuietHandler DEF Refresh
<1>11. CASE m.type = "updated" /\ Updated(m, rest)
  BY <1>1, <1>11, ScriptMsg DEF Updated
<1>12. CASE m.type = "execCompleted" /\ ExecCompleted(m, rest)
  <2>1. m.id = 0
    BY <1>1, <1>12 DEF Sound
  <2> QED BY <1>1, <1>12, <2>1, QuietHandler DEF ExecCompleted
<1> QED BY <1>4, <1>5, <1>6, <1>7, <1>8, <1>9, <1>10, <1>11, <1>12 DEF Handle

-----------------------------------------------------------------------------
(* The inductive invariant.                                                  *)

\* The invariant holds at the start.
LEMMA ScriptsInit == Init => ScriptsInv
<1> SUFFICES ASSUME Init PROVE ScriptsInv
  OBVIOUS
<1>1. frames = <<>> /\ waits = 0 /\ layers = <<>> /\ cmds = EmptyBag
  BY DEF Init
<1>2. DOMAIN EmptyBag = {} /\ IsABag(EmptyBag)
  BY DEF EmptyBag, SetToBag, IsABag
<1>3. TopCall(frames) = 0
  BY <1>1 DEF TopCall
<1>4. BagInv(cmds, 0)
  BY <1>1, <1>2 DEF BagInv
<1>5. FramesInv(frames, waits)
  BY <1>1 DEF FramesInv
<1> QED BY <1>1, <1>3, <1>4, <1>5, ScriptBounds DEF ScriptsInv

\* Every step keeps the invariant: one case per action of Next.
LEMMA ScriptsStep == ScriptsInv /\ [Next]_vars => ScriptsInv'
<1> SUFFICES ASSUME ScriptsInv, [Next]_vars PROVE ScriptsInv'
  OBVIOUS
<1> USE ScriptBounds
<1>1. /\ waits \in 0 .. MaxWaits /\ layers \in Seq(LayerKinds)
      /\ FramesInv(frames, waits) /\ BagInv(cmds, TopCall(frames))
  BY DEF ScriptsInv
<1>2. ASSUME NEW s \in DOMAIN cmds, Deliver(s) PROVE ScriptsInv'
  <2> DEFINE m == Head(s)
             rest == Post(cmds (-) SetToBag({s}), Tail(s))
  <2>1. /\ m \in Message /\ m.id \in {0, TopCall(frames)}
        /\ m.id # 0 => m.type \in {"runLua", "dispatch", "completed"}
        /\ m.type \in {"dispatch", "completed"} => m.id # 0
        /\ BagInv(rest, IF m.id = 0 THEN TopCall(frames) ELSE 0)
    BY <1>1, TakeFirst
  <2>2. Handle(m, rest)
    BY <1>2 DEF Deliver
  <2> HIDE DEF m, rest
  <2>3. Found(m, rest)
    BY <1>1, <2>1 DEF Found, Sound
  <2>4. Left /\ layers' \in Seq(LayerKinds)
    BY <2>2, <2>3, HandleKeeps
  <2> QED BY <2>4 DEF ScriptsInv, Left, FramesInv, BagInv, TopCall
<1>3. ASSUME NEW t \in MsgTypes \ {"dispatch", "completed"}, KeyPosts(Msg(t)) PROVE ScriptsInv'
  <2>1. BagInv(Post(cmds, <<Msg(t)>>), TopCall(frames))
    BY <1>1, PostMsg
  <2>2. /\ cmds' = Post(cmds, <<Msg(t)>>)
        /\ frames' = frames /\ waits' = waits /\ layers' = layers
    BY <1>3 DEF KeyPosts
  <2> QED BY <1>1, <2>1, <2>2 DEF ScriptsInv
<1>4. CASE ScriptKey \/ ChooseKey \/ InputKey \/ CloseKey \/ RefreshKey
  <2>1. {"runLua", "chosen", "entered", "close", "refresh"} \subseteq MsgTypes \ {"dispatch", "completed"}
    BY DEF MsgTypes
  <2> QED BY <1>3, <1>4, <2>1 DEF ScriptKey, ChooseKey, InputKey, CloseKey, RefreshKey
<1>5. CASE ViewKey
  <2>1. {"dialog", "oplog"} \subseteq LayerKinds
    BY DEF LayerKinds
  <2>2. layers' \in Seq(LayerKinds) /\ frames' = frames /\ waits' = waits /\ cmds' = cmds
    BY <1>1, <1>5, <2>1, LayersTyped DEF ViewKey
  <2> QED BY <1>1, <2>2 DEF ScriptsInv
<1>6. CASE UNCHANGED vars
  BY <1>1, <1>6 DEF ScriptsInv, vars
<1> QED BY <1>2, <1>4, <1>5, <1>6 DEF Next

\* The inductive invariant holds in every state.
LEMMA ScriptsInvariant == Spec => []ScriptsInv
BY ScriptsInit, ScriptsStep, PTL DEF Spec

-----------------------------------------------------------------------------
(* What follows from it.                                                     *)

\* A call in the messages is the one that the runner on top waits for.
LEMMA OnlyOneCarried ==
  ASSUME NEW B, NEW i, BagInv(B, i), NEW s \in DOMAIN B, NEW t \in DOMAIN B,
         NEW j \in DOMAIN s, NEW k \in DOMAIN t, s[j].id # 0, t[k].id # 0
  PROVE  s = t /\ j = k /\ B[s] = 1 /\ s[j].id = i
<1>1. ~Quiet(s) /\ ~Quiet(t)
  BY DEF Quiet
<1>2. i # 0
  BY <1>1 DEF BagInv
<1>3. PICK c \in DOMAIN B : B[c] = 1 /\ Carrier(c, i) /\ \A u \in DOMAIN B \ {c} : Quiet(u)
  BY <1>2 DEF BagInv
<1>4. c = s /\ c = t
  BY <1>1, <1>3
<1>5. PICK p \in DOMAIN c : c[p].id = i /\ \A q \in DOMAIN c \ {p} : c[q].id = 0
  BY <1>3 DEF Carrier
<1>6. j = p /\ k = p
  BY <1>4, <1>5
<1> QED BY <1>3, <1>4, <1>5, <1>6

\* The parts of the invariant give the types.
LEMMA InvMeansTypeOK == ScriptsInv => TypeOK
<1> SUFFICES ASSUME ScriptsInv PROVE TypeOK
  OBVIOUS
<1>1. frames \in Seq(Frame) /\ waits \in 0 .. MaxWaits /\ layers \in Seq(LayerKinds)
  BY DEF ScriptsInv, FramesInv
<1>2. IsABag(cmds) /\ \A s \in DOMAIN cmds : s \in Seq(Message) /\ s # <<>>
  BY DEF ScriptsInv, BagInv, WellFormed
<1> QED BY <1>1, <1>2 DEF TypeOK, Frame

\* No two runners serve the same call: the numbers of the calls grow along the stack.
LEMMA InvMeansServedOnce ==
  ASSUME ScriptsInv
  PROVE  ServedOnce
<1> SUFFICES ASSUME NEW j \in DOMAIN frames, NEW k \in DOMAIN frames,
                    j < k, frames[j].id = frames[k].id
             PROVE  FALSE
  <2>1. frames \in Seq(Frame)
    BY DEF ScriptsInv, FramesInv
  <2>2. \A j, k \in DOMAIN frames : j < k \/ k < j \/ j = k
    BY <2>1
  <2> QED BY <2>2 DEF ServedOnce
<1>1. /\ frames \in Seq(Frame) /\ waits \in Nat /\ Len(frames) \in Nat /\ DOMAIN frames = 1 .. Len(frames)
      /\ \A h \in DOMAIN frames : frames[h].wait.id \in 1 .. waits
      /\ \A g, h \in DOMAIN frames : g < h => frames[g].wait.id < frames[h].wait.id
      /\ \A h \in DOMAIN frames : IF h = 1 THEN frames[h].id = 0 ELSE frames[h].id = frames[h - 1].wait.id
  BY DEF ScriptsInv, FramesInv
<1>2. k # 1 /\ k - 1 \in DOMAIN frames /\ frames[k].id = frames[k - 1].wait.id
  BY <1>1
<1>3. CASE j = 1
  BY <1>1, <1>2, <1>3
<1>4. CASE j # 1
  <2>1. j - 1 \in DOMAIN frames /\ j - 1 < k - 1 /\ frames[j].id = frames[j - 1].wait.id
    BY <1>1, <1>4
  <2>2. frames[j - 1].wait.id < frames[k - 1].wait.id
    BY <1>1, <1>2, <2>1
  <2>3. frames[j - 1].wait.id \in Nat /\ frames[k - 1].wait.id \in Nat
    BY <1>1, <1>2, <2>1
  <2> QED BY <1>2, <2>1, <2>2, <2>3
<1> QED BY <1>3, <1>4

\* Every call that a runner waits for is in one place.
LEMMA InvMeansOnePlace ==
  ASSUME ScriptsInv, NEW i \in 1 .. MaxWaits
  PROVE  /\ Awaited(i) <=> Carried(i) \/ Served(i)
         /\ ~(Carried(i) /\ Served(i))
<1> DEFINE n == Len(frames)
<1>1. /\ frames \in Seq(Frame) /\ waits \in Nat /\ n \in Nat /\ DOMAIN frames = 1 .. n
      /\ \A h \in DOMAIN frames : frames[h].wait.id \in 1 .. waits
      /\ \A g, h \in DOMAIN frames : g < h => frames[g].wait.id < frames[h].wait.id
      /\ \A h \in DOMAIN frames :
           IF h = 1 THEN frames[h].id = 0
           ELSE Waiting(frames[h - 1], "action") /\ frames[h].id = frames[h - 1].wait.id
  BY DEF ScriptsInv, FramesInv
<1>2. i # 0
  BY ScriptBounds
<1>3. Carried(i) <=> n # 0 /\ Waiting(frames[n], "action") /\ frames[n].wait.id = i
  <2>1. frames # <<>> <=> n # 0
    BY <1>1
  <2>2. TopCall(frames) = i <=> n # 0 /\ Waiting(frames[n], "action") /\ frames[n].wait.id = i
    BY <1>2, <2>1 DEF TopCall
  <2>3. BagInv(cmds, TopCall(frames))
    BY DEF ScriptsInv
  <2>4. ASSUME Carried(i) PROVE TopCall(frames) = i
    <3>1. PICK s \in DOMAIN cmds : Carries(s, i)
      BY <2>4 DEF Carried
    <3>2. PICK k \in DOMAIN s : s[k].id = i
      BY <3>1 DEF Carries
    <3> QED BY <1>2, <2>3, <3>2, OnlyOneCarried
  <2>5. ASSUME TopCall(frames) = i PROVE Carried(i)
    BY <1>2, <2>3, <2>5 DEF BagInv, Carrier, Carried, Carries
  <2> QED BY <2>2, <2>4, <2>5
<1>4. Served(i) <=> \E k \in 1 .. n - 1 : Waiting(frames[k], "action") /\ frames[k].wait.id = i
  <2>1. ASSUME Served(i) PROVE \E k \in 1 .. n - 1 : Waiting(frames[k], "action") /\ frames[k].wait.id = i
    <3>1. PICK h \in DOMAIN frames : frames[h].id = i
      BY <2>1 DEF Served
    <3>2. h # 1 /\ h - 1 \in 1 .. n - 1
      BY <1>1, <1>2, <3>1
    <3>3. Waiting(frames[h - 1], "action") /\ frames[h - 1].wait.id = i
      BY <1>1, <3>1, <3>2
    <3> QED BY <3>2, <3>3
  <2>2. ASSUME NEW k \in 1 .. n - 1, frames[k].wait.id = i PROVE Served(i)
    <3>1. k + 1 \in DOMAIN frames /\ k + 1 # 1 /\ (k + 1) - 1 = k
      BY <1>1
    <3>2. frames[k + 1].id = frames[(k + 1) - 1].wait.id
      BY <1>1, <3>1
    <3> QED BY <2>2, <3>1, <3>2 DEF Served
  <2> QED BY <2>1, <2>2
<1>5. Awaited(i) <=> \E k \in 1 .. n : Waiting(frames[k], "action") /\ frames[k].wait.id = i
  BY <1>1 DEF Awaited
<1>6. ~(Carried(i) /\ Served(i))
  <2> SUFFICES ASSUME Carried(i), Served(i) PROVE FALSE
    OBVIOUS
  <2>1. PICK k \in 1 .. n - 1 : frames[k].wait.id = i
    BY <1>4
  <2>2. frames[n].wait.id = i /\ n # 0
    BY <1>3
  <2>3. k \in DOMAIN frames /\ n \in DOMAIN frames /\ k < n
    BY <1>1, <2>1
  <2>4. frames[k].wait.id < frames[n].wait.id
    BY <1>1, <2>3
  <2> QED BY <2>1, <2>2, <2>4
<1>7. Awaited(i) <=> Carried(i) \/ Served(i)
  <2>1. n \in Nat
    BY <1>1
  <2> HIDE DEF n
  <2>2. ASSUME NEW k \in 1 .. n PROVE n # 0 /\ (k # n => k \in 1 .. n - 1)
    BY <2>1
  <2>3. (n # 0 => n \in 1 .. n) /\ 1 .. n - 1 \subseteq 1 .. n
    BY <2>1
  <2> QED BY <1>3, <1>4, <1>5, <2>2, <2>3
<1> QED BY <1>6, <1>7

\* Scripts call one another as a stack, and every call under way is in exactly one place, for any
\* number of waits, messages and views (ui.go handleScriptMsg, DispatchActionMsg, RunLuaScriptMsg).
THEOREM CallsAlwaysNest == Spec => []CallsNest
<1>1. ScriptsInv => CallChain
  BY DEF ScriptsInv, FramesInv, CallChain
<1>2. ScriptsInv => CarriedOnce(cmds)
  BY OnlyOneCarried DEF ScriptsInv, CarriedOnce
<1>3. ScriptsInv => CallIsSomewhere
  BY <1>2, InvMeansServedOnce, InvMeansOnePlace DEF CallIsSomewhere
<1>4. ScriptsInv => CallsNest
  BY <1>1, <1>3, InvMeansTypeOK DEF CallsNest
<1> QED BY <1>4, ScriptsInvariant, PTL

\* When the answer to a call is about to be delivered, none of the messages of its action is still
\* under way: a script never resumes before the effects of what it called (ui.go Update).
THEOREM EffectsAlwaysBeforeResume == Spec => []EffectsBeforeResume
<1>1. ScriptsInv => EffectsBeforeResume
  <2> SUFFICES ASSUME ScriptsInv, NEW s \in DOMAIN cmds, Head(s).type = "completed",
                      NEW t \in DOMAIN cmds, NEW k \in DOMAIN t, t[k].of = Head(s).id
               PROVE  FALSE
    BY DEF EffectsBeforeResume
  <2>1. BagInv(cmds, TopCall(frames)) /\ WellFormed(s) /\ WellFormed(t)
    BY DEF ScriptsInv, BagInv
  <2>2. 1 \in DOMAIN s /\ Head(s) = s[1]
    BY <2>1 DEF WellFormed
  <2>3. s[1].id # 0
    BY <2>1, <2>2 DEF WellFormed
  <2>4. PICK l \in DOMAIN t : k < l /\ t[l].id = s[1].id
    BY <2>1, <2>2, <2>3 DEF WellFormed
  <2>5. l = 1
    BY <2>1, <2>2, <2>3, <2>4, OnlyOneCarried
  <2>6. k \in Nat /\ k >= 1
    BY <2>1 DEF WellFormed
  <2> QED BY <2>4, <2>5, <2>6
<1> QED BY <1>1, ScriptsInvariant, PTL
=============================================================================
