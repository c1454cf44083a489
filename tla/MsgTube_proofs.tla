---------------------------- MODULE MsgTube_proofs ----------------------------
(***************************************************************************)
(* Proofs about MsgTube for every ring size, every set of messages and any *)
(* number of them: messages run in sending order, the ring never cuts one, *)
(* executeUntil() leaves nothing that was due, and the cache only grows    *)
(* while the consumer can make room.                                       *)
(***************************************************************************)
EXTENDS MsgTube, SequenceTheorems, WellFoundedInduction, TLAPS

(* Induction on a number, for a property given as the set where it holds *)

LEMMA SmallestNat ==
  ASSUME NEW T, T \subseteq Nat, T # {}
  PROVE  \E n \in T : \A m \in T : n <= m
<1> DEFINE R == {ss \in Nat \X Nat : ss[1] < ss[2]}
<1>1. IsWellFoundedOn(R, Nat)
  BY NatLessThanWellFounded DEF OpToRel
<1> HIDE DEF R
<1>2. PICK n \in T : \A m \in T : ~ (<<m, n>> \in R)
  BY <1>1, WFMin
<1>3. \A m \in T : ~ (m < n)
  BY <1>2 DEF R
<1> QED BY <1>3

LEMMA UpTo ==
  ASSUME NEW N \in Nat, NEW S, 0 \in S,
         \A k \in 0 .. N - 1 : k \in S => k + 1 \in S
  PROVE  0 .. N \subseteq S
<1> SUFFICES ASSUME (0 .. N) \ S # {} PROVE FALSE
  OBVIOUS
<1> DEFINE T == (0 .. N) \ S
<1>1. T \subseteq Nat /\ T # {}
  OBVIOUS
<1> HIDE DEF T
<1>2. PICK n \in T : \A m \in T : n <= m
  BY <1>1, SmallestNat
<1>3. n - 1 \in 0 .. N - 1
  BY <1>2 DEF T
<1>4. n - 1 \in S
  BY <1>2, <1>3 DEF T
<1> QED BY <1>2, <1>3, <1>4 DEF T

-----------------------------------------------------------------------------
(* Bytes() adds the sizes up: it is 0 for no message, and changes by the   *)
(* size of the message that joins or leaves.                               *)

LEMMA MessageShape ==
  ASSUME NEW m \in Message
  PROVE  m.id \in Id /\ m.size \in Sizes /\ m.size \in Nat \ {0} /\ m.t \in Time /\ m.t \in Nat
<1>1. m.id \in Id /\ m.size \in Sizes /\ m.t \in 0 .. MaxTime
  BY DEF Message, Time
<1>2. m.size \in Nat \ {0}
  BY <1>1, SizesAssumption
<1>3. m.t \in Nat
  BY <1>1, MaxTimeAssumption
<1> QED BY <1>1, <1>2, <1>3 DEF Time

\* f holds the partial sums of the first N sizes.
PartialSums(f, msgs, N) ==
  f = [n \in 0 .. N |-> IF n = 0 THEN 0 ELSE f[n - 1] + msgs[n].size]

LEMMA PartialSumsExist ==
  ASSUME NEW msgs \in Seq(Message)
  PROVE  \E f : PartialSums(f, msgs, Len(msgs))
<1> DEFINE S == {k \in 0 .. Len(msgs) : \E f : PartialSums(f, msgs, k)}
<1>1. 0 \in S
  <2>1. PartialSums([n \in 0 .. 0 |-> 0], msgs, 0)
    BY DEF PartialSums
  <2> QED BY <2>1, LenProperties
<1>2. ASSUME NEW k \in 0 .. Len(msgs) - 1, k \in S
      PROVE  k + 1 \in S
  <2>1. PICK f : PartialSums(f, msgs, k)
    BY <1>2
  <2> DEFINE g == [n \in 0 .. k + 1 |->
                     IF n = k + 1 THEN f[k] + msgs[k + 1].size ELSE f[n]]
  <2>2. \A n \in 0 .. k + 1 :
          g[n] = IF n = 0 THEN 0 ELSE g[n - 1] + msgs[n].size
    BY <2>1, LenProperties DEF PartialSums
  <2>3. PartialSums(g, msgs, k + 1)
    BY <2>2 DEF PartialSums
  <2> QED BY <2>3, LenProperties
<1> HIDE DEF S
<1>3. 0 .. Len(msgs) \subseteq S
  BY <1>1, <1>2, UpTo, LenProperties
<1> QED BY <1>3, LenProperties DEF S

\* What the sums of any message sequence are made of
LEMMA PartialSumsStep ==
  ASSUME NEW msgs \in Seq(Message), NEW f, PartialSums(f, msgs, Len(msgs))
  PROVE  /\ f[0] = 0
         /\ \A n \in 1 .. Len(msgs) : f[n] = f[n - 1] + msgs[n].size
         /\ \A n \in 0 .. Len(msgs) : f[n] \in Nat
<1>1. Len(msgs) \in Nat
  BY LenProperties
<1>2. \A n \in 0 .. Len(msgs) :
        f[n] = IF n = 0 THEN 0 ELSE f[n - 1] + msgs[n].size
  BY Zenon DEF PartialSums
<1>3. f[0] = 0 /\ \A n \in 1 .. Len(msgs) : f[n] = f[n - 1] + msgs[n].size
  BY <1>1, <1>2
<1> DEFINE S == {k \in 0 .. Len(msgs) : f[k] \in Nat}
<1>4. 0 \in S
  BY <1>1, <1>3
<1>5. ASSUME NEW k \in 0 .. Len(msgs) - 1, k \in S
      PROVE  k + 1 \in S
  <2>1. k + 1 \in 1 .. Len(msgs) /\ (k + 1) - 1 = k
    BY <1>1
  <2>2. msgs[k + 1].size \in Nat
    BY <2>1, ElementOfSeq, MessageShape
  <2>3. f[k + 1] = f[k] + msgs[k + 1].size
    BY <1>3, <2>1
  <2> QED BY <1>5, <2>1, <2>2, <2>3
<1> HIDE DEF S
<1>6. 0 .. Len(msgs) \subseteq S
  BY <1>1, <1>4, <1>5, UpTo
<1> QED BY <1>3, <1>6 DEF S

LEMMA PartialSumsAgree ==
  ASSUME NEW a \in Seq(Message), NEW b \in Seq(Message),
         NEW N \in Nat, N <= Len(a), NEW d \in Nat, N + d <= Len(b),
         \A n \in 1 .. N : a[n] = b[n + d],
         NEW f, PartialSums(f, a, Len(a)), NEW g, PartialSums(g, b, Len(b))
  PROVE  \A n \in 0 .. N : g[n + d] = g[d] + f[n]
<1>1. Len(a) \in Nat /\ Len(b) \in Nat
  BY LenProperties
<1>2. /\ f[0] = 0
      /\ \A n \in 1 .. Len(a) : f[n] = f[n - 1] + a[n].size
      /\ \A n \in 0 .. Len(a) : f[n] \in Nat
  BY PartialSumsStep
<1>3. /\ \A n \in 1 .. Len(b) : g[n] = g[n - 1] + b[n].size
      /\ \A n \in 0 .. Len(b) : g[n] \in Nat
  BY PartialSumsStep
<1> DEFINE S == {k \in 0 .. N : g[k + d] = g[d] + f[k]}
<1>4. 0 \in S
  BY <1>1, <1>2, <1>3
<1>5. ASSUME NEW k \in 0 .. N - 1, k \in S
      PROVE  k + 1 \in S
  <2>1. /\ k + 1 \in 1 .. N /\ k + 1 \in 1 .. Len(a)
        /\ k + 1 + d \in 1 .. Len(b)
        /\ k \in 0 .. Len(a) /\ k + d \in 0 .. Len(b) /\ d \in 0 .. Len(b)
        /\ (k + 1) - 1 = k /\ (k + 1 + d) - 1 = k + d
    BY <1>1
  <2>2. f[k + 1] = f[k] + a[k + 1].size /\ f[k] \in Nat
    BY <1>2, <2>1, Zenon
  <2>3. g[k + 1 + d] = g[k + d] + b[k + 1 + d].size /\ g[d] \in Nat
    BY <1>3, <2>1, Zenon
  <2>4. a[k + 1] = b[k + 1 + d] /\ a[k + 1].size \in Nat
    BY <2>1, ElementOfSeq, MessageShape
  <2>5. g[k + d] = g[d] + f[k]
    BY <1>5
  <2>6. g[k + 1 + d] = (g[d] + f[k]) + a[k + 1].size
    BY <2>3, <2>4, <2>5, Zenon
  <2>7. g[k + 1 + d] = g[d] + f[k + 1]
    BY <2>2, <2>3, <2>4, <2>6
  <2> QED BY <2>1, <2>7
<1> HIDE DEF S
<1>6. 0 .. N \subseteq S
  BY <1>4, <1>5, UpTo
<1> QED BY <1>6 DEF S

LEMMA BytesAreSums ==
  ASSUME NEW msgs \in Seq(Message)
  PROVE  \E f : PartialSums(f, msgs, Len(msgs)) /\ Bytes(msgs) = f[Len(msgs)]
<1> DEFINE sum == CHOOSE f : PartialSums(f, msgs, Len(msgs))
<1>1. PartialSums(sum, msgs, Len(msgs))
  BY PartialSumsExist, Zenon
<1>2. Bytes(msgs) = sum[Len(msgs)]
  BY DEF Bytes, PartialSums
<1> QED BY <1>1, <1>2

LEMMA BytesOfNone == Bytes(<<>>) = 0
<1>1. <<>> \in Seq(Message) /\ Len(<<>>) = 0
  BY EmptySeq
<1> QED BY <1>1, BytesAreSums, PartialSumsStep

LEMMA BytesAreNat ==
  ASSUME NEW msgs \in Seq(Message)
  PROVE  Bytes(msgs) \in Nat
<1>1. Len(msgs) \in 0 .. Len(msgs)
  BY LenProperties
<1> QED BY <1>1, BytesAreSums, PartialSumsStep

LEMMA BytesOfAppend ==
  ASSUME NEW msgs \in Seq(Message), NEW m \in Message
  PROVE  Bytes(Append(msgs, m)) = Bytes(msgs) + m.size
<1> DEFINE more == Append(msgs, m)
           N == Len(msgs)
<1>1. /\ more \in Seq(Message) /\ Len(more) = N + 1 /\ more[N + 1] = m
      /\ \A n \in 1 .. N : msgs[n] = more[n]
  BY AppendProperties
<1>2. N \in Nat
  BY LenProperties
<1> HIDE DEF more, N
<1>3. PICK f : PartialSums(f, msgs, N) /\ Bytes(msgs) = f[N]
  BY BytesAreSums DEF N
<1>4. PICK g : PartialSums(g, more, Len(more)) /\ Bytes(more) = g[Len(more)]
  BY <1>1, BytesAreSums
<1>5. /\ g[0] = 0
      /\ \A n \in 1 .. Len(more) : g[n] = g[n - 1] + more[n].size
  BY <1>1, <1>4, PartialSumsStep
<1>6. \A n \in 0 .. N : g[n + 0] = g[0] + f[n]
  BY <1>1, <1>2, <1>3, <1>4, PartialSumsAgree DEF N
<1>7. f[N] \in Nat
  BY <1>2, <1>3, PartialSumsStep DEF N
<1>8. g[N] = f[N]
  BY <1>2, <1>5, <1>6, <1>7
<1>9. g[N + 1] = g[N] + m.size
  BY <1>1, <1>2, <1>5
<1> QED BY <1>1, <1>3, <1>4, <1>8, <1>9 DEF more

LEMMA BytesOfTail ==
  ASSUME NEW msgs \in Seq(Message), msgs # <<>>
  PROVE  Bytes(msgs) = Head(msgs).size + Bytes(Tail(msgs))
<1> DEFINE rest == Tail(msgs)
           N == Len(rest)
<1>1. /\ rest \in Seq(Message) /\ Len(msgs) = N + 1
      /\ \A n \in 1 .. N : rest[n] = msgs[n + 1]
      /\ Head(msgs) = msgs[1]
  BY HeadTailProperties, LenProperties
<1>2. N \in Nat
  BY <1>1, LenProperties
<1> HIDE DEF rest, N
<1>3. PICK f : PartialSums(f, rest, N) /\ Bytes(rest) = f[N]
  BY <1>1, BytesAreSums DEF N
<1>4. PICK g : PartialSums(g, msgs, N + 1) /\ Bytes(msgs) = g[N + 1]
  BY <1>1, BytesAreSums
<1>5. \A n \in 0 .. N : g[n + 1] = g[1] + f[n]
  <2>1. PartialSums(f, rest, Len(rest)) /\ N <= Len(rest)
    BY <1>2, <1>3 DEF N
  <2>2. PartialSums(g, msgs, Len(msgs)) /\ N + 1 <= Len(msgs)
    BY <1>1, <1>2, <1>4
  <2> QED BY <1>1, <1>2, <2>1, <2>2, PartialSumsAgree
<1>6. g[0] = 0 /\ g[1] = g[0] + msgs[1].size
  BY <1>1, <1>2, <1>4, PartialSumsStep
<1>7. msgs[1].size \in Nat
  BY <1>1, <1>2, ElementOfSeq, MessageShape
<1> QED BY <1>1, <1>2, <1>3, <1>4, <1>5, <1>6, <1>7 DEF rest

-----------------------------------------------------------------------------
(* The inductive invariant, in parts *)

TypeOK ==
  /\ ring \in Seq(Message) /\ cacheq \in Seq(Message) /\ pending \in Seq(Message)
  /\ cur \in Message \cup {NoMsg} /\ running \in Message \cup {NoMsg}
  /\ now \in Time /\ until \in Time

\* What the place a thread is at says about the message it holds; a message
\* goes straight to the ring only when none is cached.
Places ==
  /\ ppc = "idle" <=> cur = NoMsg
  /\ cpc = "call" <=> running # NoMsg
  /\ ppc = "direct" => cacheq = <<>>

\* A message that can never fit is not among those that wait for room.
WaitingFits ==
  /\ \A i \in 1 .. Len(cacheq) : cacheq[i].size < MemSize
  /\ cur # NoMsg => cur.size < MemSize

\* The producer gives timestamps that do not decrease.
SentInTimeOrder ==
  /\ \A i \in 1 .. Len(pending) : pending[i].t <= now
  /\ \A i, j \in 1 .. Len(pending) : i < j => pending[i].t <= pending[j].t

IInv == TypeOK /\ Places /\ WaitingFits /\ SentInTimeOrder /\ SentOrderKept /\ RingNeverTruncates

LEMMA InitIInv == Init => IInv
<1> SUFFICES ASSUME Init PROVE IInv
  OBVIOUS
<1>1. TypeOK
  BY EmptySeq, MaxTimeAssumption DEF Init, TypeOK, Time
<1>2. Places /\ WaitingFits /\ SentInTimeOrder
  BY DEF Init, Places, WaitingFits, SentInTimeOrder
<1>3. SentOrderKept
  BY ConcatEmptySeq, EmptySeq DEF Init, SentOrderKept, Inside, OneOrNone
<1>4. RingNeverTruncates
  BY BytesOfNone, MemSizeAssumption DEF Init, RingNeverTruncates
<1> QED BY <1>1, <1>2, <1>3, <1>4 DEF IInv

-----------------------------------------------------------------------------
(* Moving messages between the sequences does not change their order. *)

LEMMA Regroup ==
  \A a, b, c \in Seq(Message) : (a \o b) \o c = a \o (b \o c)
BY ConcatAssociative

LEMMA OneOrNoneIsSeq ==
  ASSUME NEW m \in Message \cup {NoMsg}
  PROVE  /\ OneOrNone(m) \in Seq(Message)
         /\ m \in Message => OneOrNone(m) = <<m>>
         /\ m = NoMsg => OneOrNone(m) = <<>>
BY NoMsgAssumption DEF OneOrNone

\* What comes after the message whose function runs
Waiting == ring \o cacheq \o OneOrNone(cur)

LEMMA InsideIsWaiting ==
  ASSUME TypeOK
  PROVE  /\ Waiting \in Seq(Message)
         /\ Inside = OneOrNone(running) \o Waiting
<1> DEFINE run == OneOrNone(running)
           new == OneOrNone(cur)
           mid == ring \o cacheq
<1>1. /\ run \in Seq(Message) /\ new \in Seq(Message)
      /\ ring \in Seq(Message) /\ cacheq \in Seq(Message)
  BY OneOrNoneIsSeq DEF TypeOK
<1> HIDE DEF run, new
<1>2. (run \o ring) \o cacheq = run \o mid
  BY <1>1, ConcatAssociative
<1>3. mid \in Seq(Message)
  BY <1>1, ConcatProperties
<1> HIDE DEF mid
<1>4. mid \o new \in Seq(Message)
  BY <1>1, <1>3, ConcatProperties
<1>5. (run \o mid) \o new = run \o (mid \o new)
  BY <1>1, <1>3, ConcatAssociative
<1> QED BY <1>2, <1>4, <1>5 DEF Inside, Waiting, run, new, mid

LEMMA HeadThenTail ==
  ASSUME NEW s \in Seq(Message), s # <<>>
  PROVE  s = <<Head(s)>> \o Tail(s)
<1>1. /\ Head(s) \in Message /\ Tail(s) \in Seq(Message)
      /\ Len(s) \in Nat /\ Len(s) = 1 + Len(Tail(s)) /\ s[1] = Head(s)
      /\ \A i \in 1 .. Len(Tail(s)) : Tail(s)[i] = s[i + 1]
  BY HeadTailProperties, LenProperties
<1>2. <<Head(s)>> \in Seq(Message) /\ Len(<<Head(s)>>) = 1 /\ <<Head(s)>>[1] = Head(s)
  BY <1>1
<1> DEFINE one == <<Head(s)>>
           rest == Tail(s)
<1> HIDE DEF one, rest
<1>3. one \o rest \in Seq(Message) /\ Len(one \o rest) = Len(s)
  BY <1>1, <1>2, ConcatProperties DEF one, rest
<1>4. \A i \in 1 .. Len(s) : (one \o rest)[i] = IF i <= 1 THEN one[i] ELSE rest[i - 1]
  BY <1>1, <1>2, ConcatProperties DEF one, rest
<1>5. \A i \in 1 .. Len(s) : (one \o rest)[i] = s[i]
  <2> TAKE i \in 1 .. Len(s)
  <2>1. CASE i = 1
    BY <1>1, <1>2, <1>4, <2>1 DEF one
  <2>2. CASE i # 1
    <3>1. i - 1 \in 1 .. Len(Tail(s)) /\ (i - 1) + 1 = i
      BY <1>1, <2>2
    <3>2. rest[i - 1] = s[i]
      BY <1>1, <3>1, Zenon DEF rest
    <3>3. ~ (i <= 1)
      BY <1>1, <2>2
    <3> QED BY <1>4, <3>2, <3>3, Zenon
  <2> QED BY <2>1, <2>2
<1> QED BY <1>3, <1>5, SeqEqual DEF one, rest

\* The front of a sequence, moved to the end of the one before it
LEMMA MoveFront ==
  ASSUME NEW s \in Seq(Message), NEW t \in Seq(Message), t # <<>>
  PROVE  Append(s, Head(t)) \o Tail(t) = s \o t
<1> DEFINE one == <<Head(t)>>
<1>1. Head(t) \in Message /\ Tail(t) \in Seq(Message)
  BY HeadTailProperties
<1>2. one \in Seq(Message) /\ Append(s, Head(t)) = s \o one /\ t = one \o Tail(t)
  BY <1>1, AppendIsConcat, HeadThenTail
<1> HIDE DEF one
<1>3. (s \o one) \o Tail(t) = s \o (one \o Tail(t))
  BY <1>1, <1>2, ConcatAssociative
<1> QED BY <1>2, <1>3

-----------------------------------------------------------------------------
(* The producer's steps *)

LEMMA SetNowKeeps ==
  ASSUME IInv, NEW t \in Time, SetNow(t)
  PROVE  IInv'
<1> USE DEF SetNow, cvars
<1>1. TypeOK'
  BY DEF IInv, TypeOK
<1>2. Places' /\ WaitingFits' /\ SentOrderKept' /\ RingNeverTruncates'
  BY DEF IInv, Places, WaitingFits, SentOrderKept, Inside, RingNeverTruncates
<1>3. SentInTimeOrder'
  <2>1. \A i \in 1 .. Len(pending) : pending[i].t \in Nat
    BY ElementOfSeq, MessageShape DEF IInv, TypeOK
  <2>2. now \in Nat /\ now' \in Nat
    BY MaxTimeAssumption DEF IInv, TypeOK, Time
  <2> QED BY <2>1, <2>2 DEF IInv, SentInTimeOrder
<1> QED BY <1>1, <1>2, <1>3 DEF IInv

LEMMA SendKeeps ==
  ASSUME IInv, NEW i \in Id, NEW size \in Sizes, Send(i, size)
  PROVE  IInv'
<1> DEFINE new == [id |-> i, size |-> size, t |-> now]
<1> USE DEF Send, cvars
<1>1. cur = NoMsg /\ ppc' = "flush" /\ cur' = new /\ new \in Message
  BY DEF IInv, TypeOK, Places, Message
<1>2. new.t = now /\ new.size = size
  OBVIOUS
<1> HIDE DEF new
<1>3. TypeOK'
  BY <1>1, AppendProperties DEF IInv, TypeOK
<1>4. Places' /\ WaitingFits' /\ RingNeverTruncates'
  BY <1>1, <1>2, NoMsgAssumption DEF IInv, Places, WaitingFits, RingNeverTruncates
<1>5. SentOrderKept'
  <2> DEFINE before == OneOrNone(running) \o ring \o cacheq
  <2>1. before \in Seq(Message)
    BY ConcatProperties, OneOrNoneIsSeq DEF IInv, TypeOK
  <2>2. OneOrNone(cur) = <<>> /\ OneOrNone(cur)' = <<new>> /\ before' = before
    BY <1>1, NoMsgAssumption DEF OneOrNone
  <2>3. pending = before \o <<>> /\ Inside' = before \o <<new>>
    BY <2>2 DEF IInv, SentOrderKept, Inside
  <2> HIDE DEF before
  <2>4. pending' = Append(before, new)
    BY <1>1, <2>1, <2>3, ConcatEmptySeq
  <2>5. Append(before, new) = before \o <<new>>
    BY <1>1, <2>1, AppendIsConcat
  <2> QED BY <2>3, <2>4, <2>5 DEF SentOrderKept
<1>6. SentInTimeOrder'
  <2>1. /\ Len(pending) \in Nat /\ Len(pending') = Len(pending) + 1
        /\ \A k \in 1 .. Len(pending) : pending'[k] = pending[k]
        /\ pending'[Len(pending) + 1] = new
    BY <1>1, AppendProperties, LenProperties DEF IInv, TypeOK
  <2>2. \A k \in 1 .. Len(pending) : pending[k].t \in Nat
    BY ElementOfSeq, MessageShape DEF IInv, TypeOK
  <2>3. now \in Nat /\ now' = now
    BY MaxTimeAssumption DEF IInv, TypeOK, Time
  <2> QED BY <1>2, <2>1, <2>2, <2>3 DEF IInv, SentInTimeOrder
<1> QED BY <1>3, <1>4, <1>5, <1>6 DEF IInv

LEMMA FlushOneKeeps ==
  ASSUME IInv, FlushOne
  PROVE  IInv'
<1> USE DEF FlushOne, cvars
<1>1. /\ cacheq # <<>> /\ cacheq \in Seq(Message) /\ ring \in Seq(Message)
      /\ Head(cacheq) \in Message /\ Tail(cacheq) \in Seq(Message)
  BY HeadTailProperties DEF IInv, TypeOK
<1>2. TypeOK'
  BY <1>1, AppendProperties DEF IInv, TypeOK
<1>3. Places' /\ SentInTimeOrder'
  BY DEF IInv, Places, SentInTimeOrder
<1>4. WaitingFits'
  <2>1. /\ Len(cacheq) \in Nat /\ Len(Tail(cacheq)) = Len(cacheq) - 1
        /\ \A i \in 1 .. Len(Tail(cacheq)) : Tail(cacheq)[i] = cacheq[i + 1]
    BY <1>1, HeadTailProperties, LenProperties
  <2>2. cacheq' = Tail(cacheq) /\ cur' = cur
    OBVIOUS
  <2>3. ASSUME NEW i \in 1 .. Len(Tail(cacheq))
        PROVE  Tail(cacheq)[i].size < MemSize
    <3>1. i + 1 \in 1 .. Len(cacheq)
      BY <2>1
    <3> QED BY <2>1, <3>1, Zenon DEF IInv, WaitingFits
  <2> QED BY <2>2, <2>3 DEF IInv, WaitingFits
<1>5. RingNeverTruncates'
  <2>1. Bytes(ring') = Bytes(ring) + Head(cacheq).size
    BY <1>1, BytesOfAppend
  <2>2. Head(cacheq).size < MemSize - 1 - Bytes(ring)
    BY DEF WriteSpace
  <2>3. Bytes(ring) \in Nat /\ Head(cacheq).size \in Nat /\ MemSize \in Nat
    BY <1>1, BytesAreNat, MessageShape, MemSizeAssumption
  <2> QED BY <2>1, <2>2, <2>3 DEF RingNeverTruncates
<1>6. SentOrderKept'
  <2> DEFINE run == OneOrNone(running)
  <2>1. run \in Seq(Message) /\ run' = run
    BY OneOrNoneIsSeq DEF IInv, TypeOK, OneOrNone
  <2>2. ring' \o cacheq' = ring \o cacheq
    BY <1>1, MoveFront
  <2> HIDE DEF run
  <2>3. /\ (run \o ring) \o cacheq = run \o (ring \o cacheq)
        /\ (run \o ring') \o cacheq' = run \o (ring' \o cacheq')
    <3>1. ring' \in Seq(Message) /\ cacheq' \in Seq(Message)
      BY <1>2 DEF TypeOK
    <3>2. run \in Seq(Message) /\ ring \in Seq(Message) /\ cacheq \in Seq(Message)
      BY <1>1, <2>1
    <3>3. (run \o ring) \o cacheq = run \o (ring \o cacheq)
      BY <3>2, Regroup, Zenon
    <3>4. (run \o ring') \o cacheq' = run \o (ring' \o cacheq')
      <4>1. PICK b, c : b = ring' /\ c = cacheq'
        OBVIOUS
      <4>2. b \in Seq(Message) /\ c \in Seq(Message)
        BY <3>1, <4>1
      <4>3. (run \o b) \o c = run \o (b \o c)
        BY <3>2, <4>2, Regroup, Zenon
      <4> QED BY <4>1, <4>3
    <3> QED BY <3>3, <3>4
  <2>4. OneOrNone(cur)' = OneOrNone(cur) /\ pending' = pending
    BY DEF OneOrNone
  <2>5. Inside = (run \o (ring \o cacheq)) \o OneOrNone(cur)
    BY <2>3 DEF Inside, run
  <2>6. Inside' = (run \o (ring \o cacheq)) \o OneOrNone(cur)
    BY <2>1, <2>2, <2>3, <2>4 DEF Inside, run
  <2> QED BY <2>4, <2>5, <2>6 DEF IInv, SentOrderKept
<1> QED BY <1>2, <1>3, <1>4, <1>5, <1>6 DEF IInv

\* Both ways to cache the message the producer holds
LEMMA CacheKeeps ==
  ASSUME IInv, cur # NoMsg,
         cacheq' = Append(cacheq, cur), cur' = NoMsg, ppc' = "idle",
         UNCHANGED <<ring, pending, now, cvars>>
  PROVE  IInv'
<1> USE DEF cvars
<1>1. cur \in Message /\ cacheq \in Seq(Message)
  BY DEF IInv, TypeOK
<1>2. TypeOK'
  BY <1>1, AppendProperties DEF IInv, TypeOK
<1>3. Places' /\ SentInTimeOrder' /\ RingNeverTruncates'
  BY DEF IInv, Places, SentInTimeOrder, RingNeverTruncates
<1>4. WaitingFits'
  BY <1>1, AppendProperties, LenProperties DEF IInv, WaitingFits
<1>5. SentOrderKept'
  <2> DEFINE before == OneOrNone(running) \o ring
             one == <<cur>>
  <2>1. before \in Seq(Message) /\ before' = before /\ one \in Seq(Message)
    BY <1>1, ConcatProperties, OneOrNoneIsSeq DEF IInv, TypeOK, OneOrNone
  <2>2. OneOrNone(cur) = one /\ OneOrNone(cur)' = <<>> /\ pending' = pending
    BY DEF OneOrNone
  <2>3. cacheq' = cacheq \o one
    BY <1>1, AppendIsConcat
  <2>4. Inside = (before \o cacheq) \o one /\ Inside' = (before \o cacheq') \o <<>>
    BY <2>1, <2>2 DEF Inside
  <2> HIDE DEF before, one
  <2>5. (before \o cacheq) \o one = before \o cacheq'
    BY <1>1, <2>1, <2>3, ConcatAssociative
  <2>6. Inside' = before \o cacheq'
    BY <1>2, <2>1, <2>4, ConcatProperties, ConcatEmptySeq DEF TypeOK
  <2> QED BY <2>2, <2>4, <2>5, <2>6 DEF IInv, SentOrderKept
<1> QED BY <1>2, <1>3, <1>4, <1>5 DEF IInv

LEMMA FlushFailsKeeps ==
  ASSUME IInv, FlushFails
  PROVE  IInv'
<1>1. cur # NoMsg
  BY DEF IInv, Places, FlushFails
<1> QED BY <1>1, CacheKeeps DEF FlushFails

LEMMA FlushDoneKeeps ==
  ASSUME IInv, FlushDone
  PROVE  IInv'
BY DEF FlushDone, cvars, IInv, TypeOK, Places, WaitingFits, SentInTimeOrder,
       SentOrderKept, Inside, RingNeverTruncates

LEMMA WriteDirectKeeps ==
  ASSUME IInv, WriteDirect
  PROVE  IInv'
<1> USE DEF WriteDirect, cvars
<1>1. /\ cur \in Message /\ cacheq = <<>> /\ ring \in Seq(Message)
      /\ cur' = NoMsg /\ ppc' = "idle"
  BY DEF IInv, TypeOK, Places
<1>2. CASE WriteSpace < cur.size
  <2>1. ~ (WriteSpace >= cur.size)
    BY <1>1, <1>2, BytesAreNat, MessageShape, MemSizeAssumption DEF WriteSpace
  <2> QED BY <1>1, <2>1, NoMsgAssumption, CacheKeeps
<1>3. CASE WriteSpace >= cur.size
  <2>1. ring' = Append(ring, cur) /\ cacheq' = cacheq
    BY <1>3
  <2>2. TypeOK'
    BY <1>1, <2>1, AppendProperties DEF IInv, TypeOK
  <2>3. Places' /\ WaitingFits' /\ SentInTimeOrder'
    BY <1>1, <2>1 DEF IInv, Places, WaitingFits, SentInTimeOrder
  <2>4. RingNeverTruncates'
    <3>1. Bytes(ring') = Bytes(ring) + cur.size
      BY <1>1, <2>1, BytesOfAppend
    <3>2. Bytes(ring) \in Nat /\ cur.size \in Nat /\ MemSize \in Nat
      BY <1>1, BytesAreNat, MessageShape, MemSizeAssumption
    <3> QED BY <1>3, <3>1, <3>2 DEF RingNeverTruncates, WriteSpace
  <2>5. SentOrderKept'
    <3> DEFINE run == OneOrNone(running)
               one == <<cur>>
    <3>1. run \in Seq(Message) /\ run' = run /\ one \in Seq(Message)
      BY <1>1, OneOrNoneIsSeq DEF IInv, TypeOK, OneOrNone
    <3>2. OneOrNone(cur) = one /\ OneOrNone(cur)' = <<>> /\ pending' = pending
      BY <1>1, NoMsgAssumption DEF OneOrNone
    <3>3. ring' = ring \o one
      BY <1>1, <2>1, AppendIsConcat
    <3>4. /\ Inside = ((run \o ring) \o <<>>) \o one
          /\ Inside' = ((run \o ring') \o <<>>) \o <<>>
      BY <1>1, <2>1, <3>1, <3>2 DEF Inside
    <3> HIDE DEF run, one
    <3>5. Inside = (run \o ring) \o one
      BY <1>1, <3>1, <3>4, ConcatProperties, ConcatEmptySeq
    <3>6. Inside' = run \o ring'
      BY <2>2, <3>1, <3>4, ConcatProperties, ConcatEmptySeq DEF TypeOK
    <3>7. (run \o ring) \o one = run \o ring'
      BY <1>1, <3>1, <3>3, ConcatAssociative
    <3> QED BY <3>2, <3>5, <3>6, <3>7 DEF IInv, SentOrderKept
  <2> QED BY <2>2, <2>3, <2>4, <2>5 DEF IInv
<1>4. WriteSpace \in Int /\ cur.size \in Int
  BY <1>1, BytesAreNat, MessageShape, MemSizeAssumption DEF WriteSpace
<1> QED BY <1>2, <1>3, <1>4

-----------------------------------------------------------------------------
(* The consumer's steps *)

LEMMA ConsumerTurnsKeep ==
  ASSUME IInv, ExecuteReturn \/ \E t \in Time : ExecuteUntil(t)
  PROVE  IInv'
BY DEF ExecuteReturn, ExecuteUntil, pvars, IInv, TypeOK, Places, WaitingFits,
       SentInTimeOrder, SentOrderKept, Inside, RingNeverTruncates

LEMMA TakeDueKeeps ==
  ASSUME IInv, TakeDue
  PROVE  IInv'
<1> USE DEF TakeDue, pvars
<1>1. /\ ring # <<>> /\ ring \in Seq(Message) /\ running = NoMsg
      /\ Head(ring) \in Message /\ Tail(ring) \in Seq(Message)
  BY HeadTailProperties DEF HeadIsDue, IInv, TypeOK, Places
<1>2. TypeOK'
  BY <1>1 DEF IInv, TypeOK
<1>3. Places' /\ WaitingFits' /\ SentInTimeOrder'
  BY <1>1, NoMsgAssumption DEF IInv, Places, WaitingFits, SentInTimeOrder
<1>4. RingNeverTruncates'
  <2>1. Bytes(ring) = Head(ring).size + Bytes(ring')
    BY <1>1, BytesOfTail
  <2>2. Bytes(ring') \in Nat /\ Head(ring).size \in Nat /\ MemSize \in Nat
    BY <1>1, BytesAreNat, MessageShape, MemSizeAssumption
  <2> QED BY <2>1, <2>2 DEF IInv, RingNeverTruncates
<1>5. SentOrderKept'
  <2>1. OneOrNone(running) = <<>> /\ OneOrNone(running') = <<Head(ring)>>
    BY <1>1, NoMsgAssumption DEF OneOrNone
  <2>2. <<>> \o ring = OneOrNone(running') \o ring'
    BY <1>1, <2>1, HeadThenTail, ConcatEmptySeq
  <2>3. OneOrNone(cur)' = OneOrNone(cur) /\ pending' = pending /\ cacheq' = cacheq
    BY DEF OneOrNone
  <2> QED BY <2>1, <2>2, <2>3 DEF IInv, SentOrderKept, Inside
<1> QED BY <1>2, <1>3, <1>4, <1>5 DEF IInv

LEMMA TailOfOneMore ==
  ASSUME NEW m \in Message, NEW s \in Seq(Message)
  PROVE  Tail(<<m>> \o s) = s
<1> DEFINE one == <<m>>
<1>1. one \in Seq(Message) /\ Len(one) = 1
  OBVIOUS
<1>2. Len(s) \in Nat
  BY LenProperties
<1> HIDE DEF one
<1> DEFINE all == one \o s
<1>3. /\ all \in Seq(Message) /\ Len(all) = 1 + Len(s)
      /\ \A i \in 1 .. 1 + Len(s) : all[i] = IF i <= 1 THEN one[i] ELSE s[i - 1]
  <2>1. /\ all \in Seq(Message) /\ Len(all) = Len(one) + Len(s)
        /\ \A i \in 1 .. Len(one) + Len(s) :
              all[i] = IF i <= Len(one) THEN one[i] ELSE s[i - Len(one)]
    BY <1>1, ConcatProperties, Zenon
  <2> QED BY <1>1, <2>1, Zenon
<1> HIDE DEF all
<1>4. all # <<>>
  BY <1>2, <1>3, EmptySeq
<1>5. /\ Tail(all) \in Seq(Message) /\ Len(Tail(all)) = Len(s)
      /\ \A i \in 1 .. Len(s) : Tail(all)[i] = all[i + 1]
  BY <1>2, <1>3, <1>4, HeadTailProperties
<1>6. \A i \in 1 .. Len(s) : Tail(all)[i] = s[i]
  <2> TAKE i \in 1 .. Len(s)
  <2>1. i + 1 \in 1 .. 1 + Len(s) /\ ~ (i + 1 <= 1) /\ (i + 1) - 1 = i
    BY <1>2
  <2> QED BY <1>3, <1>5, <2>1, Zenon
<1>7. Tail(all) = s
  BY <1>5, <1>6, SeqEqual
<1> QED BY <1>7 DEF all, one

LEMMA CallReturnKeeps ==
  ASSUME IInv, CallReturn
  PROVE  IInv'
<1> USE DEF CallReturn, pvars
<1>1. running \in Message /\ running' = NoMsg
  BY DEF IInv, TypeOK, Places
<1>2. Waiting' = Waiting /\ Waiting \in Seq(Message)
  BY InsideIsWaiting DEF IInv, Waiting, OneOrNone
<1>3. pending = <<running>> \o Waiting
  BY <1>1, NoMsgAssumption, InsideIsWaiting DEF IInv, SentOrderKept, OneOrNone
<1>4. pending' = Waiting
  BY <1>1, <1>2, <1>3, TailOfOneMore
<1>5. TypeOK'
  BY <1>1, <1>2, <1>4 DEF IInv, TypeOK
<1>6. Places' /\ WaitingFits' /\ RingNeverTruncates'
  BY <1>1 DEF IInv, Places, WaitingFits, RingNeverTruncates
<1>7. SentOrderKept'
  <2>1. (TypeOK => Inside = OneOrNone(running) \o Waiting)'
    BY InsideIsWaiting, PTL
  <2>2. OneOrNone(running)' = <<>>
    BY <1>1 DEF OneOrNone
  <2>3. Inside' = <<>> \o Waiting
    BY <1>2, <1>5, <2>1, <2>2
  <2> QED BY <1>2, <1>4, <2>3, ConcatEmptySeq DEF SentOrderKept
<1>8. SentInTimeOrder'
  <2>1. pending \in Seq(Message) /\ pending # <<>>
    <3>1. <<running>> \in Seq(Message) /\ <<running>> # <<>>
      BY <1>1
    <3> QED BY <1>2, <1>3, <3>1, ConcatEqualIffEmpty DEF IInv, TypeOK
  <2>2. /\ Len(pending) \in Nat /\ Len(pending') = Len(pending) - 1
        /\ \A i \in 1 .. Len(pending') : pending'[i] = pending[i + 1]
    BY <2>1, HeadTailProperties, LenProperties
  <2>3. now' = now
    OBVIOUS
  <2>4. ASSUME NEW i \in 1 .. Len(pending')
        PROVE  pending'[i].t <= now
    <3>1. i + 1 \in 1 .. Len(pending)
      BY <2>2
    <3> QED BY <2>2, <3>1, Zenon DEF IInv, SentInTimeOrder
  <2>5. ASSUME NEW i \in 1 .. Len(pending'), NEW j \in 1 .. Len(pending'), i < j
        PROVE  pending'[i].t <= pending'[j].t
    <3>1. i + 1 \in 1 .. Len(pending) /\ j + 1 \in 1 .. Len(pending) /\ i + 1 < j + 1
      BY <2>2, <2>5
    <3> QED BY <2>2, <3>1, Zenon DEF IInv, SentInTimeOrder
  <2> QED BY <2>3, <2>4, <2>5 DEF SentInTimeOrder
<1> QED BY <1>5, <1>6, <1>7, <1>8 DEF IInv

-----------------------------------------------------------------------------
(* The theorems *)

LEMMA StepKeepsIInv == IInv /\ [Next]_vars => IInv'
<1> SUFFICES ASSUME IInv, [Next]_vars PROVE IInv'
  OBVIOUS
<1>1. CASE Next
  BY <1>1, SetNowKeeps, SendKeeps, FlushOneKeeps, FlushFailsKeeps, FlushDoneKeeps,
     WriteDirectKeeps, ConsumerTurnsKeep, TakeDueKeeps, CallReturnKeeps DEF Next
<1>2. CASE UNCHANGED vars
  BY <1>2 DEF vars, pvars, cvars, IInv, TypeOK, Places, WaitingFits,
              SentInTimeOrder, SentOrderKept, Inside, RingNeverTruncates
<1> QED BY <1>1, <1>2

LEMMA AlwaysIInv == Spec => []IInv
<1> QED BY InitIInv, StepKeepsIInv, PTL DEF Spec

\* Whatever the ring's size and however long the two threads run, the messages
\* executed, in the ring, cached and being sent make up the sequence that was
\* sent: writeData() and flushCache() neither lose, double nor reorder any.
THEOREM MessagesKeepSentOrder == Spec => []SentOrderKept
<1>1. IInv => SentOrderKept
  BY DEF IInv
<1> QED BY <1>1, AlwaysIInv, PTL

\* Both tests of the space, the strict one of flushCache() and the other one of
\* writeData(), leave the ring with every byte of every message.
THEOREM RingHoldsWholeMessages == Spec => []RingNeverTruncates
<1>1. IInv => RingNeverTruncates
  BY DEF IInv
<1> QED BY <1>1, AlwaysIInv, PTL

\* The messages in the ring are in the order of their timestamps.
LEMMA RingInTimeOrder ==
  ASSUME IInv, ring # <<>>, running = NoMsg
  PROVE  \A m \in ToSet(ring) : Head(ring).t <= m.t
<1> DEFINE new == OneOrNone(cur)
           rest == cacheq \o new
<1>1. ring \in Seq(Message) /\ cacheq \in Seq(Message) /\ new \in Seq(Message)
  BY OneOrNoneIsSeq DEF IInv, TypeOK
<1>2. rest \in Seq(Message) /\ Waiting = ring \o rest
  <2>1. Waiting = (ring \o cacheq) \o new
    BY DEF Waiting
  <2> HIDE DEF new
  <2> QED BY <1>1, <2>1, ConcatProperties, Regroup, Zenon
<1> HIDE DEF rest
<1>3. pending = ring \o rest
  BY <1>2, InsideIsWaiting, ConcatEmptySeq DEF IInv, SentOrderKept, OneOrNone
<1>4. /\ Len(ring) \in Nat /\ Len(rest) \in Nat /\ Len(pending) = Len(ring) + Len(rest)
      /\ \A i \in 1 .. Len(ring) + Len(rest) :
           pending[i] = IF i <= Len(ring) THEN ring[i] ELSE rest[i - Len(ring)]
  BY <1>1, <1>2, <1>3, ConcatProperties, LenProperties
<1>5. Len(ring) >= 1 /\ Head(ring) = ring[1] /\ DOMAIN ring = 1 .. Len(ring)
  BY <1>1, <1>4, EmptySeq, LenProperties
<1>6. ASSUME NEW i \in 1 .. Len(ring)
      PROVE  ring[1].t <= ring[i].t
  <2>1. 1 \in 1 .. Len(pending) /\ i \in 1 .. Len(pending) /\ 1 \in 1 .. Len(ring)
    BY <1>4, <1>5
  <2>2. pending[1] = ring[1] /\ pending[i] = ring[i]
    BY <1>4, <2>1
  <2>3. CASE i = 1
    <3>1. ring[1].t \in Nat
      BY <1>1, <2>1, ElementOfSeq, MessageShape
    <3> QED BY <2>3, <3>1
  <2>4. CASE i # 1
    <3>1. 1 < i
      BY <1>4, <2>4
    <3>2. pending[1].t <= pending[i].t
      BY <2>1, <3>1 DEF IInv, SentInTimeOrder
    <3> QED BY <2>2, <3>2
  <2> QED BY <2>3, <2>4
<1> QED BY <1>5, <1>6 DEF ToSet

\* executeUntil() stops at the first message that is not due, and because the
\* producer's timestamps do not decrease, the ones behind it are not due either.
THEOREM NothingDueIsLeft == Spec => DueMessagesRun
<1>1. ASSUME IInv, [Next]_vars, cpc = "loop", cpc' = "idle"
      PROVE  \A m \in ToSet(ring) \cap atCall : m.t > until
  <2>1. cpc # cpc'
    BY <1>1
  <2>2. ~ HeadIsDue
    BY <1>1, <2>1 DEF Next, vars, cvars, pvars, SetNow, Send, FlushOne, FlushFails,
      FlushDone, WriteDirect, ExecuteUntil, ExecuteReturn, TakeDue, CallReturn
  <2>3. CASE ring = <<>>
    BY <2>3 DEF ToSet
  <2>4. CASE ring # <<>>
    <3>1. running = NoMsg
      BY <1>1 DEF IInv, Places
    <3>2. \A m \in ToSet(ring) : Head(ring).t <= m.t
      BY <1>1, <2>4, <3>1, RingInTimeOrder
    <3>3. \A m \in ToSet(ring) : m \in Message
      BY <1>1, LenProperties, ElementOfSeq DEF ToSet, IInv, TypeOK
    <3>4. Head(ring) \in Message /\ until \in Nat
      BY <1>1, <2>4, HeadTailProperties, MaxTimeAssumption DEF IInv, TypeOK, Time
    <3>5. Head(ring).t > until
      BY <2>2, <2>4, <3>4, MessageShape DEF HeadIsDue
    <3> QED BY <3>2, <3>3, <3>4, <3>5, MessageShape
  <2> QED BY <2>3, <2>4
<1>2. IInv /\ [Next]_vars =>
        [cpc = "loop" /\ cpc' = "idle" =>
           \A m \in ToSet(ring) \cap atCall : m.t > until]_vars
  BY <1>1
<1> QED BY <1>2, AlwaysIInv, PTL DEF Spec, DueMessagesRun

\* However large the messages and the ring are, the cache grows while the ring
\* is empty only behind a message of exactly MemSize - 1 bytes, the one size that
\* writeData() accepts and flushCache() never moves.
THEOREM FullSizeAloneIsStuck == Spec => OnlyFullSizeIsStuck
<1>1. ASSUME NEW m \in Message, m.size < MemSize, ring = <<>>
      PROVE  /\ WriteSpace >= m.size
             /\ m.size >= WriteSpace => m.size = MemSize - 1
  <2>1. WriteSpace = MemSize - 1
    BY <1>1, BytesOfNone, MemSizeAssumption DEF WriteSpace
  <2>2. m.size \in Nat
    BY MessageShape
  <2> QED BY <1>1, <2>1, <2>2, MemSizeAssumption
<1>2. ASSUME IInv, [Next]_vars, Len(cacheq') > Len(cacheq), ring = <<>>
      PROVE  Head(cacheq').size = MemSize - 1
  <2>1. cacheq \in Seq(Message) /\ Len(cacheq) \in Nat
    BY <1>2, LenProperties DEF IInv, TypeOK
  <2>2. ASSUME FlushOne PROVE FALSE
    <3>1. Len(cacheq') = Len(cacheq) - 1
      BY <2>1, <2>2, HeadTailProperties DEF FlushOne
    <3> QED BY <1>2, <2>1, <3>1
  <2>3. cacheq' # cacheq
    BY <1>2, <2>1
  <2>4. FlushFails \/ WriteDirect
    BY <1>2, <2>2, <2>3 DEF Next, vars, cvars, pvars, SetNow, Send, FlushDone,
      ExecuteUntil, ExecuteReturn, TakeDue, CallReturn
  <2>5. ASSUME FlushFails PROVE Head(cacheq').size = MemSize - 1
    <3>1. cacheq # <<>> /\ Len(cacheq) >= 1 /\ 1 \in 1 .. Len(cacheq) /\ Head(cacheq) = cacheq[1]
      BY <2>1, <2>5, EmptySeq DEF FlushFails
    <3>2. Head(cacheq) \in Message /\ Head(cacheq).size < MemSize
      BY <1>2, <2>1, <3>1, HeadTailProperties DEF IInv, WaitingFits
    <3>3. Head(cacheq).size = MemSize - 1
      BY <1>1, <1>2, <2>5, <3>2 DEF FlushFails
    <3>4. cur \in Message /\ cacheq' = Append(cacheq, cur)
      BY <1>2, <2>5 DEF FlushFails, IInv, TypeOK, Places
    <3>5. Append(cacheq, cur) \in Seq(Message) /\ Append(cacheq, cur)[1] = cacheq[1]
          /\ Append(cacheq, cur) # <<>>
      BY <2>1, <3>1, <3>4, AppendProperties
    <3>6. Head(cacheq') = Head(cacheq)
      BY <3>1, <3>4, <3>5
    <3> QED BY <3>3, <3>6
  <2>6. ASSUME WriteDirect PROVE FALSE
    <3>1. cur \in Message /\ cur.size < MemSize
      BY <1>2, <2>6 DEF WriteDirect, IInv, TypeOK, Places, WaitingFits
    <3>2. WriteSpace >= cur.size
      BY <1>1, <1>2, <3>1
    <3> QED BY <2>3, <2>6, <3>2 DEF WriteDirect
  <2> QED BY <2>4, <2>5, <2>6
<1>3. IInv /\ [Next]_vars
        => [Len(cacheq') > Len(cacheq)
              => ring # <<>> \/ Head(cacheq').size = MemSize - 1]_vars
  BY <1>2
<1> QED BY <1>3, AlwaysIInv, PTL DEF Spec, OnlyFullSizeIsStuck

===============================================================================
