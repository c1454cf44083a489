-------------------------- MODULE SynthSequencer_proofs --------------------------
(***************************************************************************)
(* Proofs about SynthSequencer for any number of voices, clients, events   *)
(* and frames per block: the three lists stay lists and share the voices   *)
(* out without loss, a sweep leaves at most one finished voice behind, and *)
(* an event sounds within a frame of its start time.                       *)
(***************************************************************************)
EXTENDS SynthSequencer, SequenceTheorems, FiniteSetTheorems, WellFoundedInduction, TLAPS

(* Induction on a number, for a property given as the set where it holds *)

LEMMA SmallestNat ==
  ASSUME NEW T, T \subseteq Nat, T # {}
  PROVE  \E n \in T : \A m \in T : n <= m
<1> DEFINE R == {ss \in Nat \X Nat : ss[1] < ss[2]}
<1>1. IsWellFoundedOn(R, Nat)
  BY NatLessThanWellFounded DEF OpToRel
<1> HIDE DEF R
<1>2. PICK n \in T : \A m \in T : ~ (<<m, n>> \in R)
  BY <1>1, WFMin
<1>3. \A m \in T : ~ (m < n)
  BY <1>2 DEF R
<1> QED BY <1>3

LEMMA UpTo ==
  ASSUME NEW N \in Nat, NEW S, 0 \in S,
         \A k \in 0 .. N - 1 : k \in S => k + 1 \in S
  PROVE  0 .. N \subseteq S
<1> SUFFICES ASSUME (0 .. N) \ S # {} PROVE FALSE
  OBVIOUS
<1> DEFINE T == (0 .. N) \ S
<1>1. T \subseteq Nat /\ T # {}
  OBVIOUS
<1> HIDE DEF T
<1>2. PICK n \in T : \A m \in T : n <= m
  BY <1>1, SmallestNat
<1>3. n - 1 \in 0 .. N - 1
  BY <1>2 DEF T
<1>4. n - 1 \in S
  BY <1>2, <1>3 DEF T
<1> QED BY <1>2, <1>3, <1>4 DEF T

LEMMA FunctionIsSeq ==
  ASSUME NEW S, NEW n \in Nat, NEW f \in [1 .. n -> S]
  PROVE  f \in Seq(S) /\ Len(f) = n
<1>1. f \in Seq(S)
  BY SeqDef
<1>2. Len(f) \in Nat /\ 1 .. Len(f) = 1 .. n
  BY <1>1, LenProperties
<1> QED BY <1>1, <1>2

-------------------------------------------------------------------------------
(* A list of voices and the links that hold it together *)

At(q, j) == IF j \in 1 .. Len(q) THEN q[j] ELSE Null

Linked(n, head, q) ==
  /\ head = At(q, 1)
  /\ \A j \in 1 .. Len(q) : n[q[j]] = At(q, j + 1)

Distinct(q) == \A j, k \in 1 .. Len(q) : q[j] = q[k] => j = k

Cells(q) == {q[j] : j \in 1 .. Len(q)}

N == Cardinality(Voice)

LEMMA ListShape ==
  ASSUME NEW q \in Seq(Voice)
  PROVE  /\ Len(q) \in Nat
         /\ \A j \in 1 .. Len(q) : q[j] \in Voice /\ q[j] # Null /\ At(q, j) = q[j]
         /\ \A j : j \notin 1 .. Len(q) => At(q, j) = Null
         /\ \A j : At(q, j) # Null => j \in 1 .. Len(q) /\ At(q, j) = q[j]
BY ElementOfSeq, LenProperties, NullAssumption DEF At

LEMMA ListFits ==
  ASSUME NEW q \in Seq(Voice), Distinct(q)
  PROVE  Len(q) <= N /\ N \in Nat
<1>0. Len(q) \in Nat
  BY LenProperties
<1>1. q \in Injection(1 .. Len(q), Voice)
  BY LenProperties DEF Distinct, Injection, IsInjective
<1>2. IsFiniteSet(1 .. Len(q)) /\ Cardinality(1 .. Len(q)) = Len(q)
  BY <1>0, FS_Interval
<1>3. Cardinality(1 .. Len(q)) <= Cardinality(Voice)
  BY <1>1, VoiceAssumption, FS_Injection
<1> QED BY <1>2, <1>3, VoiceAssumption, FS_CardinalityType DEF N

\* Walk() follows the links: it spells the list out, and Null behind it.
LEMMA WalkIs ==
  ASSUME NEW q \in Seq(Voice), Distinct(q), NEW head, Linked(next, head, q)
  PROVE  /\ DOMAIN Walk(head) = 0 .. N
         /\ \A n \in 0 .. N : Walk(head)[n] = At(q, n + 1)
<1> DEFINE Follows(f) ==
             f = [n \in 0 .. N |->
                    IF n = 0 THEN head
                    ELSE IF f[n - 1] = Null THEN Null ELSE next[f[n - 1]]]
<1>1. Len(q) \in Nat /\ N \in Nat
  BY ListFits, LenProperties
<1>2. ASSUME NEW n \in 1 .. N
      PROVE  At(q, n + 1) = IF At(q, n) = Null THEN Null ELSE next[At(q, n)]
  <2>1. CASE n \in 1 .. Len(q)
    BY <2>1, ListShape DEF Linked
  <2>2. CASE n \notin 1 .. Len(q)
    <3>1. n + 1 \notin 1 .. Len(q)
      BY <1>1, <2>2
    <3> QED BY <2>2, <3>1, ListShape
  <2> QED BY <2>1, <2>2
<1>3. \E f : Follows(f)
  <2> DEFINE g == [n \in 0 .. N |-> At(q, n + 1)]
  <2>1. ASSUME NEW n \in 0 .. N
        PROVE  g[n] = IF n = 0 THEN head
                      ELSE IF g[n - 1] = Null THEN Null ELSE next[g[n - 1]]
    <3>1. CASE n = 0
      BY <1>1, <3>1 DEF Linked
    <3>2. CASE n # 0
      <4>1. n \in 1 .. N /\ n - 1 \in 0 .. N /\ (n - 1) + 1 = n
        BY <1>1, <3>2
      <4>2. g[n - 1] = At(q, n) /\ g[n] = At(q, n + 1)
        BY <4>1
      <4> QED BY <1>2, <3>2, <4>1, <4>2
    <3> QED BY <3>1, <3>2
  <2>2. Follows(g)
    BY <2>1
  <2> QED BY <2>2
<1> DEFINE step == CHOOSE f : Follows(f)
<1>4. Follows(step)
  BY <1>3, Zenon
<1>5. Walk(head) = step
  BY DEF Walk, N
<1> HIDE DEF step
<1>6. \A n \in 0 .. N :
        step[n] = IF n = 0 THEN head
                  ELSE IF step[n - 1] = Null THEN Null ELSE next[step[n - 1]]
  BY <1>4, Zenon
<1> DEFINE S == {n \in 0 .. N : step[n] = At(q, n + 1)}
<1>7. 0 \in S
  BY <1>1, <1>6 DEF Linked
<1>8. ASSUME NEW k \in 0 .. N - 1, k \in S
      PROVE  k + 1 \in S
  <2>1. k + 1 \in 0 .. N /\ k + 1 \in 1 .. N /\ k + 1 # 0 /\ (k + 1) - 1 = k
    BY <1>1
  <2>2. step[k + 1] = IF step[k] = Null THEN Null ELSE next[step[k]]
    BY <1>6, <2>1, Zenon
  <2>3. step[k] = At(q, k + 1)
    BY <1>8
  <2>4. step[k + 1] = At(q, (k + 1) + 1)
    BY <1>2, <2>1, <2>2, <2>3, Zenon
  <2> QED BY <2>1, <2>4
<1> HIDE DEF S
<1>9. 0 .. N \subseteq S
  BY <1>1, <1>7, <1>8, UpTo
<1>10. \A n \in 0 .. N : step[n] = At(q, n + 1)
  BY <1>9 DEF S
<1>11. DOMAIN step = 0 .. N
  BY <1>4
<1> QED BY <1>5, <1>10, <1>11

LEMMA MembersAre ==
  ASSUME NEW q \in Seq(Voice), Distinct(q), NEW head, Linked(next, head, q)
  PROVE  /\ Members(head) = Cells(q)
         /\ Walk(head)[Cardinality(Voice)] = Null
         /\ Len(q) # 0 => LastOf(head) = q[Len(q)]
         /\ head = Null <=> Len(q) = 0
<1>1. Len(q) \in Nat /\ N \in Nat /\ Len(q) <= N
  BY ListFits, LenProperties
<1>2. /\ DOMAIN Walk(head) = 0 .. N
      /\ \A n \in 0 .. N : Walk(head)[n] = At(q, n + 1)
  BY WalkIs
<1>3. Members(head) = Cells(q)
  <2>1. ASSUME NEW v \in Members(head) PROVE v \in Cells(q)
    <3>1. PICK n \in 0 .. N : v = Walk(head)[n] /\ v # Null
      BY <1>2 DEF Members
    <3>2. At(q, n + 1) # Null /\ v = At(q, n + 1)
      BY <1>2, <3>1
    <3> QED BY <3>2, ListShape DEF Cells
  <2>2. ASSUME NEW v \in Cells(q) PROVE v \in Members(head)
    <3>1. PICK j \in 1 .. Len(q) : v = q[j]
      BY DEF Cells
    <3>2. j - 1 \in 0 .. N /\ (j - 1) + 1 = j
      BY <1>1
    <3>3. v = Walk(head)[j - 1] /\ v # Null
      BY <1>2, <3>1, <3>2, ListShape
    <3> QED BY <1>2, <3>2, <3>3 DEF Members
  <2> QED BY <2>1, <2>2
<1>4. Walk(head)[Cardinality(Voice)] = Null
  <2>1. N + 1 \notin 1 .. Len(q) /\ N \in 0 .. N
    BY <1>1
  <2> QED BY <1>2, <2>1, ListShape DEF N
<1>5. Len(q) # 0 => LastOf(head) = q[Len(q)]
  <2> HAVE Len(q) # 0
  <2>1. Len(q) \in 1 .. Len(q) /\ Len(q) + 1 \notin 1 .. Len(q)
    BY <1>1
  <2>2. next[q[Len(q)]] = Null /\ q[Len(q)] \in Members(head)
    BY <1>3, <2>1, ListShape DEF Linked, Cells
  <2>3. ASSUME NEW v \in Members(head), next[v] = Null PROVE v = q[Len(q)]
    <3>1. PICK j \in 1 .. Len(q) : v = q[j]
      BY <1>3 DEF Cells
    <3>2. At(q, j + 1) = Null
      BY <2>3, <3>1 DEF Linked
    <3>3. j + 1 \notin 1 .. Len(q)
      BY <3>2, ListShape
    <3>4. j = Len(q)
      BY <1>1, <3>3
    <3> QED BY <3>1, <3>4
  <2>4. LastOf(head) \in Members(head) /\ next[LastOf(head)] = Null
    BY <2>2 DEF LastOf
  <2> QED BY <2>3, <2>4
<1>6. head = Null <=> Len(q) = 0
  <2>1. 1 \in 1 .. Len(q) <=> Len(q) # 0
    BY <1>1
  <2> QED BY <2>1, ListShape DEF Linked
<1> QED BY <1>3, <1>4, <1>5, <1>6

-------------------------------------------------------------------------------
(* How lists change: one list in front of another, and without its k-th voice *)

Joined(q, r) ==
  [j \in 1 .. Len(q) + Len(r) |-> IF j <= Len(q) THEN q[j] ELSE r[j - Len(q)]]

Removed(q, k) == [j \in 1 .. Len(q) - 1 |-> IF j < k THEN q[j] ELSE q[j + 1]]

LEMMA JoinedShape ==
  ASSUME NEW q \in Seq(Voice), NEW r \in Seq(Voice)
  PROVE  /\ Joined(q, r) \in Seq(Voice) /\ Len(Joined(q, r)) = Len(q) + Len(r)
         /\ \A j \in 1 .. Len(q) : Joined(q, r)[j] = q[j]
         /\ \A j \in 1 .. Len(r) : Joined(q, r)[Len(q) + j] = r[j]
         /\ \A j \in 1 .. Len(q) + Len(r) :
              Joined(q, r)[j] = IF j <= Len(q) THEN q[j] ELSE r[j - Len(q)]
         /\ Cells(Joined(q, r)) = Cells(q) \cup Cells(r)
<1>1. Len(q) \in Nat /\ Len(r) \in Nat
  BY ListShape
<1>2. ASSUME NEW j \in 1 .. Len(q) + Len(r)
      PROVE  (IF j <= Len(q) THEN q[j] ELSE r[j - Len(q)]) \in Voice
  <2>1. CASE j <= Len(q)
    BY <1>1, <2>1, ListShape
  <2>2. CASE ~ (j <= Len(q))
    <3>1. j - Len(q) \in 1 .. Len(r)
      BY <1>1, <2>2
    <3> QED BY <2>2, <3>1, ListShape
  <2> QED BY <2>1, <2>2
<1>3. Joined(q, r) \in [1 .. Len(q) + Len(r) -> Voice]
  BY <1>2 DEF Joined
<1>4. Joined(q, r) \in Seq(Voice) /\ Len(Joined(q, r)) = Len(q) + Len(r)
  BY <1>1, <1>3, FunctionIsSeq
<1>5. \A j \in 1 .. Len(q) + Len(r) :
        Joined(q, r)[j] = IF j <= Len(q) THEN q[j] ELSE r[j - Len(q)]
  BY DEF Joined
<1>6. \A j \in 1 .. Len(q) : Joined(q, r)[j] = q[j]
  BY <1>1, <1>5
<1>7. \A j \in 1 .. Len(r) : Joined(q, r)[Len(q) + j] = r[j]
  <2> TAKE j \in 1 .. Len(r)
  <2>1. /\ Len(q) + j \in 1 .. Len(q) + Len(r)
        /\ ~ (Len(q) + j <= Len(q)) /\ (Len(q) + j) - Len(q) = j
    BY <1>1
  <2> QED BY <1>5, <2>1
<1>8. Cells(Joined(q, r)) = Cells(q) \cup Cells(r)
  <2>1. ASSUME NEW v \in Cells(q) PROVE v \in Cells(Joined(q, r))
    <3>1. PICK j \in 1 .. Len(q) : v = q[j]
      BY DEF Cells
    <3>2. j \in 1 .. Len(q) + Len(r)
      BY <1>1
    <3> QED BY <1>4, <1>6, <3>1, <3>2 DEF Cells
  <2>2. ASSUME NEW v \in Cells(r) PROVE v \in Cells(Joined(q, r))
    <3>1. PICK j \in 1 .. Len(r) : v = r[j]
      BY DEF Cells
    <3>2. Len(q) + j \in 1 .. Len(q) + Len(r)
      BY <1>1
    <3> QED BY <1>4, <1>7, <3>1, <3>2 DEF Cells
  <2>3. ASSUME NEW v \in Cells(Joined(q, r)) PROVE v \in Cells(q) \cup Cells(r)
    <3>1. PICK j \in 1 .. Len(q) + Len(r) : v = Joined(q, r)[j]
      BY <1>4 DEF Cells
    <3>2. CASE j <= Len(q)
      <4>1. j \in 1 .. Len(q)
        BY <1>1, <3>2
      <4> QED BY <1>6, <3>1, <4>1 DEF Cells
    <3>3. CASE ~ (j <= Len(q))
      <4>1. j - Len(q) \in 1 .. Len(r)
        BY <1>1, <3>3
      <4>2. v = r[j - Len(q)]
        BY <1>5, <3>1, <3>3
      <4> QED BY <4>1, <4>2 DEF Cells
    <3> QED BY <3>2, <3>3
  <2> QED BY <2>1, <2>2, <2>3
<1> QED BY <1>4, <1>5, <1>6, <1>7, <1>8

LEMMA JoinedIsLinked ==
  ASSUME NEW q \in Seq(Voice), NEW r \in Seq(Voice), Distinct(q), Distinct(r),
         Cells(q) \cap Cells(r) = {}, NEW n,
         \A j \in 1 .. Len(q) - 1 : n[q[j]] = q[j + 1],
         Len(q) # 0 => n[q[Len(q)]] = At(r, 1),
         \A j \in 1 .. Len(r) : n[r[j]] = At(r, j + 1)
  PROVE  /\ Distinct(Joined(q, r))
         /\ Linked(n, IF Len(q) = 0 THEN At(r, 1) ELSE q[1], Joined(q, r))
<1> DEFINE J == Joined(q, r)
<1>1. Len(q) \in Nat /\ Len(r) \in Nat
  BY ListShape
<1>2. /\ J \in Seq(Voice) /\ Len(J) = Len(q) + Len(r)
      /\ \A j \in 1 .. Len(q) : J[j] = q[j]
      /\ \A j \in 1 .. Len(r) : J[Len(q) + j] = r[j]
      /\ \A j \in 1 .. Len(q) + Len(r) : J[j] = IF j <= Len(q) THEN q[j] ELSE r[j - Len(q)]
  BY JoinedShape
<1> HIDE DEF J
<1>3. ASSUME NEW j \in 1 .. Len(J)
      PROVE  \/ (j \in 1 .. Len(q) /\ J[j] = q[j])
             \/ (j - Len(q) \in 1 .. Len(r) /\ J[j] = r[j - Len(q)])
  <2>1. CASE j <= Len(q)
    BY <1>1, <1>2, <2>1
  <2>2. CASE ~ (j <= Len(q))
    <3>1. j - Len(q) \in 1 .. Len(r)
      BY <1>1, <1>2, <2>2
    <3> QED BY <1>2, <2>2, <3>1
  <2> QED BY <2>1, <2>2
<1>4. Distinct(J)
  <2> SUFFICES ASSUME NEW j \in 1 .. Len(J), NEW k \in 1 .. Len(J), J[j] = J[k]
               PROVE  j = k
    BY DEF Distinct
  <2>1. CASE j \in 1 .. Len(q) /\ J[j] = q[j] /\ k \in 1 .. Len(q) /\ J[k] = q[k]
    BY <2>1 DEF Distinct
  <2>2. CASE /\ j - Len(q) \in 1 .. Len(r) /\ J[j] = r[j - Len(q)]
             /\ k - Len(q) \in 1 .. Len(r) /\ J[k] = r[k - Len(q)]
    <3>1. j - Len(q) = k - Len(q)
      BY <2>2 DEF Distinct
    <3> QED BY <1>1, <1>2, <3>1
  <2>3. CASE /\ j \in 1 .. Len(q) /\ J[j] = q[j]
             /\ k - Len(q) \in 1 .. Len(r) /\ J[k] = r[k - Len(q)]
    BY <2>3 DEF Cells
  <2>4. CASE /\ k \in 1 .. Len(q) /\ J[k] = q[k]
             /\ j - Len(q) \in 1 .. Len(r) /\ J[j] = r[j - Len(q)]
    BY <2>4 DEF Cells
  <2> QED BY <1>3, <2>1, <2>2, <2>3, <2>4
<1>5. ASSUME NEW j \in 1 .. Len(J)
      PROVE  n[J[j]] = At(J, j + 1)
  <2>1. CASE j \in 1 .. Len(q) /\ J[j] = q[j]
    <3>1. CASE j < Len(q)
      <4>1. j \in 1 .. Len(q) - 1 /\ j + 1 \in 1 .. Len(q) /\ j + 1 \in 1 .. Len(J)
        BY <1>1, <1>2, <2>1, <3>1
      <4> QED BY <1>2, <2>1, <4>1 DEF At
    <3>2. CASE j = Len(q)
      <4>1. n[J[j]] = At(r, 1)
        BY <1>1, <2>1, <3>2
      <4>2. CASE Len(r) = 0
        <5>1. 1 \notin 1 .. Len(r) /\ j + 1 \notin 1 .. Len(J)
          BY <1>1, <1>2, <3>2, <4>2
        <5> QED BY <4>1, <5>1 DEF At
      <4>3. CASE Len(r) # 0
        <5>1. 1 \in 1 .. Len(r) /\ j + 1 \in 1 .. Len(J)
          BY <1>1, <1>2, <3>2, <4>3
        <5>2. J[j + 1] = r[1]
          BY <1>2, <3>2, <5>1
        <5> QED BY <4>1, <5>1, <5>2 DEF At
      <4> QED BY <4>2, <4>3
    <3> QED BY <1>1, <2>1, <3>1, <3>2
  <2>2. CASE j - Len(q) \in 1 .. Len(r) /\ J[j] = r[j - Len(q)]
    <3>1. n[J[j]] = At(r, (j - Len(q)) + 1)
      BY <2>2
    <3>2. CASE j = Len(J)
      <4>1. j + 1 \notin 1 .. Len(J) /\ (j - Len(q)) + 1 \notin 1 .. Len(r)
        BY <1>1, <1>2, <3>2
      <4> QED BY <3>1, <4>1 DEF At
    <3>3. CASE j # Len(J)
      <4>1. /\ j + 1 \in 1 .. Len(J) /\ (j - Len(q)) + 1 \in 1 .. Len(r)
            /\ Len(q) + ((j - Len(q)) + 1) = j + 1
        <5>1. j \in Int /\ Len(J) = Len(q) + Len(r) /\ j <= Len(J) /\ j - Len(q) >= 1
          BY <1>1, <1>2, <2>2
        <5>2. j < Len(q) + Len(r)
          BY <1>1, <3>3, <5>1
        <5>3. j + 1 \in 1 .. (Len(q) + Len(r))
          BY <1>1, <5>1, <5>2
        <5>4. (j - Len(q)) + 1 \in 1 .. Len(r)
          BY <1>1, <5>1, <5>2
        <5> QED BY <1>1, <5>1, <5>3, <5>4
      <4>2. J[j + 1] = r[(j - Len(q)) + 1]
        BY <1>2, <4>1
      <4> QED BY <3>1, <4>1, <4>2 DEF At
    <3> QED BY <3>2, <3>3
  <2> QED BY <1>3, <2>1, <2>2
<1>6. (IF Len(q) = 0 THEN At(r, 1) ELSE q[1]) = At(J, 1)
  <2>1. CASE Len(q) = 0
    <3>1. CASE Len(r) = 0
      <4>1. 1 \notin 1 .. Len(r) /\ 1 \notin 1 .. Len(J)
        BY <1>1, <1>2, <2>1, <3>1
      <4> QED BY <2>1, <4>1 DEF At
    <3>2. CASE Len(r) # 0
      <4>1. 1 \in 1 .. Len(r) /\ 1 \in 1 .. Len(J) /\ Len(q) + 1 = 1
        BY <1>1, <1>2, <2>1, <3>2
      <4>2. J[1] = r[1]
        BY <1>2, <4>1
      <4> QED BY <2>1, <4>1, <4>2 DEF At
    <3> QED BY <3>1, <3>2
  <2>2. CASE Len(q) # 0
    <3>1. 1 \in 1 .. Len(q) /\ 1 \in 1 .. Len(J)
      BY <1>1, <1>2, <2>2
    <3> QED BY <1>2, <2>2, <3>1 DEF At
  <2> QED BY <2>1, <2>2
<1> QED BY <1>4, <1>5, <1>6 DEF Linked, J

LEMMA RemovedShape ==
  ASSUME NEW q \in Seq(Voice), Distinct(q), NEW k \in 1 .. Len(q)
  PROVE  /\ Removed(q, k) \in Seq(Voice) /\ Len(Removed(q, k)) = Len(q) - 1
         /\ \A j \in 1 .. Len(q) - 1 : Removed(q, k)[j] = IF j < k THEN q[j] ELSE q[j + 1]
         /\ Cells(Removed(q, k)) = Cells(q) \ {q[k]}
         /\ Distinct(Removed(q, k))
<1>1. Len(q) \in Nat /\ Len(q) - 1 \in Nat
  BY ListShape
<1>2. ASSUME NEW j \in 1 .. Len(q) - 1
      PROVE  j \in 1 .. Len(q) /\ j + 1 \in 1 .. Len(q)
  BY <1>1
<1>3. Removed(q, k) \in [1 .. Len(q) - 1 -> Voice]
  BY <1>2, ListShape DEF Removed
<1>4. Removed(q, k) \in Seq(Voice) /\ Len(Removed(q, k)) = Len(q) - 1
  BY <1>1, <1>3, FunctionIsSeq
<1>5. \A j \in 1 .. Len(q) - 1 : Removed(q, k)[j] = IF j < k THEN q[j] ELSE q[j + 1]
  BY DEF Removed
<1>6. ASSUME NEW v \in Cells(q) \ {q[k]} PROVE v \in Cells(Removed(q, k))
  <2>1. PICK j \in 1 .. Len(q) : v = q[j] /\ j # k
    BY DEF Cells
  <2>2. CASE j < k
    <3>1. j \in 1 .. Len(q) - 1
      BY <1>1, <2>2
    <3> QED BY <1>4, <1>5, <2>1, <2>2, <3>1 DEF Cells
  <2>3. CASE ~ (j < k)
    <3>1. j - 1 \in 1 .. Len(q) - 1 /\ ~ (j - 1 < k) /\ (j - 1) + 1 = j
      BY <1>1, <2>1, <2>3
    <3>2. v = Removed(q, k)[j - 1]
      BY <1>5, <2>1, <3>1
    <3> QED BY <1>4, <3>1, <3>2 DEF Cells
  <2> QED BY <2>2, <2>3
<1>7. ASSUME NEW v \in Cells(Removed(q, k)) PROVE v \in Cells(q) \ {q[k]}
  <2>1. PICK j \in 1 .. Len(q) - 1 : v = Removed(q, k)[j]
    BY <1>4 DEF Cells
  <2>2. CASE j < k
    <3>1. v = q[j] /\ j # k /\ j \in 1 .. Len(q)
      BY <1>2, <1>5, <2>1, <2>2
    <3> QED BY <3>1 DEF Cells, Distinct
  <2>3. CASE ~ (j < k)
    <3>1. v = q[j + 1] /\ j + 1 # k /\ j + 1 \in 1 .. Len(q)
      BY <1>2, <1>5, <2>1, <2>3
    <3> QED BY <3>1 DEF Cells, Distinct
  <2> QED BY <2>2, <2>3
<1>8. Distinct(Removed(q, k))
  <2> SUFFICES ASSUME NEW j \in 1 .. Len(q) - 1, NEW l \in 1 .. Len(q) - 1,
                      Removed(q, k)[j] = Removed(q, k)[l]
               PROVE  j = l
    BY <1>4 DEF Distinct
  <2>1. /\ j \in 1 .. Len(q) /\ j + 1 \in 1 .. Len(q)
        /\ l \in 1 .. Len(q) /\ l + 1 \in 1 .. Len(q)
    BY <1>2
  <2>2. (IF j < k THEN q[j] ELSE q[j + 1]) = (IF l < k THEN q[l] ELSE q[l + 1])
    BY <1>5
  <2>3. (IF j < k THEN j ELSE j + 1) = (IF l < k THEN l ELSE l + 1)
    BY <2>1, <2>2 DEF Distinct
  <2> QED BY <2>1, <2>3
<1> QED BY <1>4, <1>5, <1>6, <1>7, <1>8

\* The k-th voice is taken out when the one before it, or the head, is linked
\* to the one behind it.
LEMMA RemovedIsLinked ==
  ASSUME NEW q \in Seq(Voice), Distinct(q), NEW k \in 1 .. Len(q), NEW n, NEW n2, NEW head,
         Linked(n, head, q),
         \A j \in 1 .. Len(q) : j # k /\ j + 1 # k => n2[q[j]] = n[q[j]],
         k # 1 => n2[q[k - 1]] = n[q[k]]
  PROVE  /\ Linked(n2, IF k = 1 THEN n[q[k]] ELSE head, Removed(q, k))
         /\ n[q[k]] = At(Removed(q, k), k)
         /\ \A j \in 1 .. k - 1 : Removed(q, k)[j] = q[j]
<1> DEFINE R == Removed(q, k)
<1>1. Len(q) \in Nat /\ Len(q) - 1 \in Nat
  BY ListShape
<1>2. /\ Len(R) = Len(q) - 1
      /\ \A j \in 1 .. Len(q) - 1 : R[j] = IF j < k THEN q[j] ELSE q[j + 1]
  BY RemovedShape
<1> HIDE DEF R
<1>3. \A j \in Nat : At(R, j) = IF j < k THEN At(q, j) ELSE At(q, j + 1)
  <2> TAKE j \in Nat
  <2>1. j < k => (j \in 1 .. Len(q) <=> j \in 1 .. Len(q) - 1)
    BY <1>1
  <2>2. ~ (j < k) => (j + 1 \in 1 .. Len(q) <=> j \in 1 .. Len(q) - 1)
    BY <1>1
  <2> QED BY <1>2, <2>1, <2>2 DEF At
<1>4. n[q[k]] = At(R, k)
  BY <1>3 DEF Linked
<1>5. ASSUME NEW j \in 1 .. Len(R)
      PROVE  n2[R[j]] = At(R, j + 1)
  <2>0. j \in 1 .. Len(q) - 1 /\ j \in 1 .. Len(q) /\ j + 1 \in 1 .. Len(q) /\ j + 1 \in Nat
    BY <1>1, <1>2
  <2>1. CASE j + 1 < k
    <3>1. R[j] = q[j] /\ n2[q[j]] = n[q[j]]
      BY <1>2, <2>0, <2>1
    <3>2. n[q[j]] = At(q, j + 1)
      BY <2>0 DEF Linked
    <3> QED BY <1>3, <2>0, <2>1, <3>1, <3>2
  <2>2. CASE j + 1 = k
    <3>1. R[j] = q[j] /\ k # 1 /\ k - 1 = j
      BY <1>2, <2>0, <2>2
    <3>2. n2[q[j]] = n[q[k]]
      BY <3>1
    <3> QED BY <1>4, <2>2, <3>1, <3>2
  <2>3. CASE ~ (j + 1 <= k)
    <3>1. R[j] = q[j + 1] /\ j + 1 # k /\ (j + 1) + 1 # k /\ ~ (j + 1 < k)
      BY <1>2, <2>0, <2>3
    <3>2. n2[R[j]] = At(q, (j + 1) + 1)
      BY <2>0, <3>1 DEF Linked
    <3> QED BY <1>3, <2>0, <3>1, <3>2
  <2> QED BY <2>0, <2>1, <2>2, <2>3
<1>6. (IF k = 1 THEN n[q[k]] ELSE head) = At(R, 1)
  <2>1. CASE k = 1
    BY <1>4, <2>1
  <2>2. CASE k # 1
    <3>1. 1 < k /\ 1 \in Nat
      BY <2>2
    <3> QED BY <1>3, <2>2, <3>1 DEF Linked
  <2> QED BY <2>1, <2>2
<1>7. \A j \in 1 .. k - 1 : R[j] = q[j]
  BY <1>1, <1>2
<1> QED BY <1>4, <1>5, <1>6, <1>7 DEF Linked, R

-------------------------------------------------------------------------------
(* The events are kept in the order of their start times. *)

Event == [start : StartTimes, voice : Voice]

LEMMA InsertAtIs ==
  ASSUME NEW s \in Seq(Event), NEW p \in 1 .. Len(s) + 1, NEW e \in Event
  PROVE  /\ InsertAt(s, p, e) \in Seq(Event) /\ Len(InsertAt(s, p, e)) = Len(s) + 1
         /\ \A j \in 1 .. Len(s) + 1 :
              InsertAt(s, p, e)[j] = IF j < p THEN s[j] ELSE IF j = p THEN e ELSE s[j - 1]
<1> DEFINE before == SubSeq(s, 1, p - 1)
           behind == SubSeq(s, p, Len(s))
<1>1. Len(s) \in Nat /\ \A j \in 1 .. Len(s) : s[j] \in Event
  BY LenProperties, ElementOfSeq
<1>2. /\ before \in Seq(Event) /\ Len(before) = p - 1
      /\ \A j \in 1 .. p - 1 : before[j] = s[j]
  <2>1. \A j \in 1 .. p - 1 : s[j] \in Event
    BY <1>1
  <2>2. /\ before \in Seq(Event)
        /\ Len(before) = IF 1 <= p - 1 THEN (p - 1) - 1 + 1 ELSE 0
        /\ \A j \in 1 .. (p - 1) - 1 + 1 : before[j] = s[1 + j - 1]
    BY <1>1, <2>1, SubSeqProperties
  <2> QED BY <1>1, <2>2
<1>3. /\ behind \in Seq(Event) /\ Len(behind) = Len(s) - p + 1
      /\ \A j \in 1 .. Len(s) - p + 1 : behind[j] = s[p + j - 1]
  <2>1. \A j \in p .. Len(s) : s[j] \in Event
    BY <1>1
  <2>2. /\ behind \in Seq(Event)
        /\ Len(behind) = IF p <= Len(s) THEN Len(s) - p + 1 ELSE 0
        /\ \A j \in 1 .. Len(s) - p + 1 : behind[j] = s[p + j - 1]
    BY <1>1, <2>1, SubSeqProperties
  <2> QED BY <1>1, <2>2
<1> HIDE DEF before, behind
<1>4. <<e>> \in Seq(Event) /\ Len(<<e>>) = 1 /\ <<e>>[1] = e
  OBVIOUS
<1> DEFINE front == before \o <<e>>
<1>5. /\ front \in Seq(Event) /\ Len(front) = p
      /\ \A j \in 1 .. p : front[j] = IF j <= p - 1 THEN before[j] ELSE <<e>>[j - (p - 1)]
  <2>1. /\ front \in Seq(Event) /\ Len(front) = Len(before) + Len(<<e>>)
        /\ \A j \in 1 .. Len(before) + Len(<<e>>) :
             front[j] = IF j <= Len(before) THEN before[j] ELSE <<e>>[j - Len(before)]
    BY <1>2, <1>4, ConcatProperties
  <2>2. Len(before) + Len(<<e>>) = p
    BY <1>1, <1>2, <1>4
  <2> QED BY <1>2, <2>1, <2>2
<1>6. \A j \in 1 .. p : front[j] = IF j < p THEN s[j] ELSE e
  <2> TAKE j \in 1 .. p
  <2>1. CASE j < p
    <3>1. j <= p - 1 /\ j \in 1 .. p - 1
      BY <2>1
    <3> QED BY <1>2, <1>5, <2>1, <3>1
  <2>2. CASE ~ (j < p)
    <3>1. ~ (j <= p - 1) /\ j - (p - 1) = 1
      BY <2>2
    <3> QED BY <1>4, <1>5, <2>2, <3>1
  <2> QED BY <2>1, <2>2
<1> HIDE DEF front
<1>7. /\ front \o behind \in Seq(Event) /\ Len(front \o behind) = Len(s) + 1
      /\ \A j \in 1 .. Len(s) + 1 :
           (front \o behind)[j] = IF j <= p THEN front[j] ELSE behind[j - p]
  <2>1. /\ front \o behind \in Seq(Event) /\ Len(front \o behind) = Len(front) + Len(behind)
        /\ \A j \in 1 .. Len(front) + Len(behind) :
             (front \o behind)[j] = IF j <= Len(front) THEN front[j] ELSE behind[j - Len(front)]
    BY <1>3, <1>5, ConcatProperties
  <2>2. Len(front) + Len(behind) = Len(s) + 1
    BY <1>1, <1>3, <1>5
  <2> QED BY <1>5, <2>1, <2>2
<1>8. ASSUME NEW j \in 1 .. Len(s) + 1
      PROVE  (front \o behind)[j] = IF j < p THEN s[j] ELSE IF j = p THEN e ELSE s[j - 1]
  <2>1. CASE j <= p
    <3>1. j \in 1 .. p
      BY <2>1
    <3>2. (front \o behind)[j] = IF j < p THEN s[j] ELSE e
      BY <1>6, <1>7, <2>1, <3>1
    <3> QED BY <2>1, <3>2
  <2>2. CASE ~ (j <= p)
    <3>1. j - p \in 1 .. Len(s) - p + 1 /\ p + (j - p) - 1 = j - 1
      BY <1>1, <2>2
    <3>2. (front \o behind)[j] = s[j - 1]
      BY <1>3, <1>7, <2>2, <3>1
    <3> QED BY <2>2, <3>2
  <2> QED BY <2>1, <2>2
<1>9. InsertAt(s, p, e) = front \o behind
  BY DEF InsertAt, front, before, behind
<1> QED BY <1>7, <1>8, <1>9

InOrder == \A j, k \in 1 .. Len(mEvents) : j < k => mEvents[j].start <= mEvents[k].start

LEMMA EventShape ==
  ASSUME mEvents \in Seq(Event)
  PROVE  /\ Len(mEvents) \in Nat /\ DOMAIN mEvents = 1 .. Len(mEvents)
         /\ \A j \in 1 .. Len(mEvents) :
              /\ mEvents[j] \in Event /\ mEvents[j].voice \in Voice
              /\ mEvents[j].start \in StartTimes /\ mEvents[j].start \in Nat
<1>1. Len(mEvents) \in Nat /\ DOMAIN mEvents = 1 .. Len(mEvents)
  BY LenProperties
<1>2. \A j \in 1 .. Len(mEvents) : mEvents[j] \in Event
  BY ElementOfSeq
<1> QED BY <1>1, <1>2, FramesAssumption DEF Event

\* Everything in front of the new event starts earlier, nothing behind it does.
LEMMA PositionIs ==
  ASSUME mEvents \in Seq(Event), InOrder, NEW start \in StartTimes
  PROVE  /\ Position(start) \in 1 .. Len(mEvents) + 1
         /\ \A j \in 1 .. Len(mEvents) : j < Position(start) => mEvents[j].start < start
         /\ \A j \in 1 .. Len(mEvents) : j >= Position(start) => mEvents[j].start >= start
<1> DEFINE L == Len(mEvents)
           T == {n \in 1 .. L + 1 : n = L + 1 \/ mEvents[n].start >= start}
<1>1. /\ L \in Nat /\ start \in Nat
      /\ \A j \in 1 .. L : mEvents[j].start \in Nat
  BY EventShape, FramesAssumption
<1>2. T \subseteq Nat /\ L + 1 \in T
  BY <1>1
<1> HIDE DEF T
<1>3. PICK n \in T : \A k \in T : n <= k
  BY <1>2, SmallestNat
<1>4. n \in 1 .. L + 1 /\ (n = L + 1 \/ mEvents[n].start >= start)
  BY <1>3 DEF T
<1>5. ASSUME NEW j \in 1 .. L, j < n PROVE mEvents[j].start < start
  <2>1. j \in 1 .. L + 1 /\ j \notin T
    BY <1>1, <1>3, <1>4, <1>5
  <2> QED BY <1>1, <2>1 DEF T
<1>6. ASSUME NEW j \in 1 .. L, j >= n PROVE mEvents[j].start >= start
  <2>1. n \in 1 .. L /\ mEvents[n].start >= start
    BY <1>1, <1>4, <1>6
  <2>2. CASE j = n
    BY <2>1, <2>2
  <2>3. CASE j # n
    <3>1. mEvents[n].start <= mEvents[j].start
      BY <1>1, <1>6, <2>1, <2>3 DEF InOrder
    <3> QED BY <1>1, <2>1, <3>1
  <2> QED BY <2>2, <2>3
<1>7. {k \in DOMAIN mEvents : mEvents[k].start < start} = 1 .. n - 1
  <2>1. ASSUME NEW k \in 1 .. L PROVE mEvents[k].start < start <=> k \in 1 .. n - 1
    <3>1. k < n <=> k \in 1 .. n - 1
      BY <1>1, <1>4
    <3>2. k < n \/ k >= n
      BY <1>1, <1>4
    <3> QED BY <1>1, <1>5, <1>6, <3>1, <3>2
  <2>2. 1 .. n - 1 \subseteq 1 .. L
    BY <1>1, <1>4
  <2>3. DOMAIN mEvents = 1 .. L
    BY EventShape
  <2> QED BY <2>1, <2>2, <2>3
<1>8. Cardinality(1 .. n - 1) = n - 1
  <2>1. n - 1 \in Int /\ n - 1 >= 0 /\ 1 \in Int
    BY <1>1, <1>4
  <2> HIDE DEF L
  <2>2. Cardinality(1 .. n - 1) = IF 1 > n - 1 THEN 0 ELSE (n - 1) - 1 + 1
    BY <2>1, FS_Interval, Zenon
  <2> QED BY <2>1, <2>2
<1>9. Position(start) = n
  <2>1. Position(start) = 1 + Cardinality({k \in DOMAIN mEvents : mEvents[k].start < start})
    BY DEF Position
  <2>2. Position(start) = 1 + (n - 1)
    BY <1>7, <1>8, <2>1
  <2> HIDE DEF L
  <2>3. n \in Int
    BY <1>2, <1>3
  <2> QED BY <2>2, <2>3
<1> QED BY <1>4, <1>5, <1>6, <1>9

\* A block takes at least a frame, and a rounding is less than half of one.
LEMMA TimeIs ==
  /\ FramesPerBuffer \in Nat /\ FramesPerBuffer > 0
  /\ Ticks \in Nat /\ Ticks > 0 /\ Rounding \in Nat /\ 2 * Rounding < Ticks
  /\ timeIncrement \in Nat /\ timeIncrement = FramesPerBuffer * Ticks
  /\ timeIncrement >= Ticks
<1>1. /\ FramesPerBuffer \in Nat /\ FramesPerBuffer > 0
      /\ Ticks \in Nat /\ Ticks > 0 /\ Rounding \in Nat /\ 2 * Rounding < Ticks
  BY FramesAssumption, TicksAssumption
<1>2. \A n, k \in Nat : n > 0 => n * k \in Nat /\ n * k >= k
  BY SMT
<1> QED BY <1>1, <1>2 DEF timeIncrement

LEMMA FewerFrames ==
  ASSUME NEW n \in Int, NEW k \in Int, NEW t \in Nat, t > 0, n * t < k * t
  PROVE  n < k
BY SMT

LEMMA QuotientIs ==
  ASSUME NEW x \in Nat, NEW t \in Nat, t > 0
  PROVE  x \div t \in Nat /\ (x \div t) * t <= x /\ x < (x \div t) * t + t
BY SMT

\* What the conversion to int makes of a time that is not a frame before the block.
LEMMA TruncatedIs ==
  ASSUME NEW x \in Int, -Ticks < x
  PROVE  /\ Truncated(x) \in Nat
         /\ Truncated(x) = 0 \/ Truncated(x) * Ticks <= x
         /\ x < Truncated(x) * Ticks + Ticks
<1>1. Ticks \in Nat /\ Ticks > 0
  BY TimeIs
<1>2. CASE x < 0
  <2>1. (-x) \div Ticks = 0
    <3>1. -x \in 0..Ticks - 1
      BY <1>1, <1>2
    <3>2. \A t \in Nat : \A y \in 0..t - 1 : y \div t = 0
      BY SMT
    <3> QED BY <1>1, <3>1, <3>2
  <2>2. Truncated(x) = 0
    BY <1>2, <2>1 DEF Truncated
  <2>3. 0 * Ticks = 0
    BY <1>1
  <2> QED BY <1>1, <1>2, <2>2, <2>3
<1>3. CASE ~(x < 0)
  <2>1. x \in Nat /\ Truncated(x) = x \div Ticks
    BY <1>3 DEF Truncated
  <2> QED BY <1>1, <2>1, QuotientIs
<1> QED BY <1>2, <1>3

-------------------------------------------------------------------------------
(* The inductive invariant: types, clients and events ... *)

Link == Voice \cup {Null}
Place == {"idle", "get", "allocate", "has", "push", "print", "printed", "queued"}

TypeOK ==
  /\ next \in [Voice -> Link] /\ mActive \in [Voice -> BOOLEAN]
  /\ mVoicesToInsert \in Link /\ mActiveVoices \in Link /\ mFreeVoices \in Link
  /\ allocated \subseteq Voice
  /\ cpc \in [Client -> Place] /\ mine \in [Client -> Link]
  /\ apc \in {"idle", "events", "insert", "render", "sweep"}
  /\ voice \in Link /\ previousVoice \in Link
  /\ mMasterTime \in Nat /\ blockStartTime \in Nat /\ started \in BOOLEAN
  /\ mOnOffsetFrames \in [Voice -> Int]

\* A client holds a voice from getVoice() to triggerOn(), and none shares it.
Holding ==
  /\ \A c \in Client : /\ mine[c] # Null <=> cpc[c] \in {"has", "push"}
                       /\ mine[c] # Null => mine[c] \in allocated
  /\ \A c, d \in Client : mine[c] = mine[d] /\ mine[c] # Null => c = d

\* Each event has a voice of its own, which no client holds.
Timetable ==
  /\ mEvents \in Seq(Event) /\ mNextEvent \in 0 .. Len(mEvents)
  /\ \A j \in 1 .. Len(mEvents) : mEvents[j].voice \in allocated
  /\ \A j, k \in 1 .. Len(mEvents) : mEvents[j].voice = mEvents[k].voice => j = k
  /\ \A j \in 1 .. Len(mEvents), c \in Client : mEvents[j].voice # mine[c]
  /\ InOrder

\* An event that has not been triggered does not start before the current block,
\* which is no longer than it should be but for a rounding while events are left.
NoneOverdue ==
  /\ mNextEvent < Len(mEvents) =>
       blockStartTime <= mMasterTime /\ mMasterTime <= blockStartTime + timeIncrement + Rounding
  /\ ~started => apc = "idle" /\ mNextEvent = 0 /\ mMasterTime = 0 /\ blockStartTime = 0
  /\ started => \A j \in mNextEvent + 1 .. Len(mEvents) :
       IF apc = "events" THEN mEvents[j].start >= blockStartTime
                         ELSE mEvents[j].start > mMasterTime

State == TypeOK /\ Holding /\ Timetable /\ NoneOverdue

(* ... and the lists: i is to insert, a active, f free *)

Held(i, a, f) ==
  /\ i \in Seq(Voice) /\ Linked(next, mVoicesToInsert, i)
  /\ a \in Seq(Voice) /\ Linked(next, mActiveVoices, a)
  /\ f \in Seq(Voice) /\ Linked(next, mFreeVoices, f)

Apart(i, a, f) ==
  /\ Distinct(i) /\ Distinct(a) /\ Distinct(f)
  /\ Cells(i) \cap Cells(a) = {} /\ Cells(i) \cap Cells(f) = {}
  /\ Cells(a) \cap Cells(f) = {}

Listed(i, a, f) == Cells(i) \cup Cells(a) \cup Cells(f)

\* The voices of the events to come, and those that clients hold
Coming == {mEvents[j].voice : j \in mNextEvent + 1 .. Len(mEvents)}
Mine == {mine[c] : c \in {d \in Client : mine[d] # Null}}

\* Every voice there is is on a list, held or waiting for its time; a new one
\* has no link.
Owned(i, a, f) ==
  /\ Listed(i, a, f) \cap Mine = {} /\ Listed(i, a, f) \cap Coming = {}
  /\ allocated = Listed(i, a, f) \cup Mine \cup Coming
  /\ \A v \in Voice \ allocated : next[v] = Null

ThreeLists(i, a, f) == Held(i, a, f) /\ Apart(i, a, f) /\ Owned(i, a, f)

\* The audio thread is at the m-th active voice.
Walking(a, m) ==
  /\ m \in 1 .. Len(a) + 1
  /\ apc \in {"render", "sweep"} => voice = At(a, m)
  /\ apc = "sweep" => previousVoice = At(a, m - 1)

\* Of the voices behind it only the head may have been done: the sweep does not
\* look at it when it has just become the head.
Swept(a, m) ==
  /\ apc # "sweep" => done = {}
  /\ \A p \in 1 .. Len(a) : a[p] \in done => ~mActive[a[p]]
  /\ \A p \in 1 .. Len(a) : p < m /\ a[p] \in done => p = 1

\* The time t is no later than an event but for two roundings, and less than a
\* frame and a rounding earlier.
Near(t, e) == t <= e.start + 2 * Rounding /\ t > e.start - Ticks - Rounding

\* The offset of an event's voice is near its start in the current block, until
\* the walk has passed the voice; then it is the start of the next block that is.
DueNow(e) ==
  LET offset == mOnOffsetFrames[e.voice] IN
    /\ offset \in 0 .. FramesPerBuffer
    /\ Near(blockStartTime + offset * Ticks, e)
    /\ offset = FramesPerBuffer => Near(mMasterTime, e)
Passed(e) == mOnOffsetFrames[e.voice] = 0 /\ Near(mMasterTime, e)

OnTime(i, a, m) ==
  \A j \in 1 .. mNextEvent :
    LET e == mEvents[j] IN
      mActive[e.voice] /\ e.voice \notin begun \cup late =>
        \/ e.voice \in Cells(i) /\ apc \in {"events", "insert"} /\ DueNow(e)
        \/ \E p \in 1 .. Len(a) :
             /\ a[p] = e.voice
             /\ \/ DueNow(e) /\ (apc \in {"events", "insert"} \/ (apc = "render" /\ p >= m))
                \/ Passed(e) /\ (apc \in {"idle", "sweep"} \/ (apc = "render" /\ p < m))

Good(i, a, f, m) == ThreeLists(i, a, f) /\ Walking(a, m) /\ Swept(a, m) /\ OnTime(i, a, m)

IInv == State /\ \E i, a, f \in Seq(Voice), m \in Nat : Good(i, a, f, m)

-------------------------------------------------------------------------------
(* Types, clients and events: what needs nothing about the lists *)

LEMMA NewVoiceIs ==
  ASSUME allocated \subseteq Voice, Allocate
  PROVE  NewVoice \in Voice /\ NewVoice \notin allocated /\ NewVoice # Null
<1>1. \E v \in Voice : v \notin allocated
  BY DEF Allocate
<1> QED BY <1>1, NullAssumption DEF NewVoice

LEMMA InitState == Init => State
<1> SUFFICES ASSUME Init PROVE State
  OBVIOUS
<1>1. /\ next = [v \in Voice |-> Null] /\ mActive = [v \in Voice |-> FALSE]
      /\ mVoicesToInsert = Null /\ mActiveVoices = Null /\ mFreeVoices = Null
      /\ allocated = {}
      /\ cpc = [c \in Client |-> "idle"] /\ mine = [c \in Client |-> Null]
      /\ apc = "idle" /\ voice = Null /\ previousVoice = Null
      /\ mMasterTime = 0 /\ blockStartTime = 0 /\ started = FALSE
      /\ mEvents = << >> /\ mNextEvent = 0
      /\ mOnOffsetFrames = [v \in Voice |-> 0]
  BY DEF Init, PolySynthInit
<1>2. TypeOK
  <2>1. next \in [Voice -> Link] /\ mActive \in [Voice -> BOOLEAN]
    BY <1>1 DEF Link
  <2>2. cpc \in [Client -> Place] /\ mine \in [Client -> Link]
    BY <1>1 DEF Link, Place
  <2>3. mOnOffsetFrames \in [Voice -> Int]
    BY <1>1
  <2> QED BY <1>1, <2>1, <2>2, <2>3 DEF TypeOK, Link
<1>3. mEvents \in Seq(Event) /\ Len(mEvents) = 0
  BY <1>1, EmptySeq
<1>4. Holding
  BY <1>1 DEF Holding
<1>5. Timetable /\ NoneOverdue
  BY <1>1, <1>3, TimeIs DEF Timetable, NoneOverdue, InOrder
<1> QED BY <1>2, <1>4, <1>5 DEF State

\* The timetable does not depend on where a client is, as long as it gets no
\* voice but a new one.
LEMMA ClientState ==
  ASSUME State, NEW c \in Client, ClientCalls(c) \/ ClientGoesOn(c),
         UNCHANGED <<seq, begun, late>>
  PROVE  State'
<1>1. /\ UNCHANGED <<mEvents, mNextEvent, mMasterTime, blockStartTime, started, mOnOffsetFrames>>
      /\ UNCHANGED <<apc, voice, previousVoice>>
  BY DEF ClientCalls, ClientGoesOn, LockFree, GetVoice, AllocatePolyphony, TriggerOn,
         PushMine, PrintedFree, PrintQueued, PrintEnd, seq, avars
<1>2. NoneOverdue'
  BY <1>1 DEF State, NoneOverdue
<1>3. CASE \/ \E call \in {"get", "allocate", "print"} : LockFree(c, call)
           \/ PrintedFree(c) \/ PrintQueued(c) \/ PrintEnd(c)
  <2>1. UNCHANGED <<next, mActive, mVoicesToInsert, mActiveVoices, mFreeVoices, allocated,
                    mine>>
    BY <1>3 DEF LockFree, PrintedFree, PrintQueued, PrintEnd, links
  <2>2. PICK place \in Place \ {"has", "push"} :
          cpc[c] \notin {"has", "push"} /\ cpc' = [cpc EXCEPT ![c] = place]
    BY <1>3 DEF LockFree, PrintedFree, PrintQueued, PrintEnd, Move, Place
  <2>3. TypeOK'
    BY <1>1, <2>1, <2>2 DEF State, TypeOK, Place
  <2>4. Holding' /\ Timetable'
    BY <1>1, <2>1, <2>2 DEF State, TypeOK, Holding, Timetable, InOrder
  <2> QED BY <1>2, <2>3, <2>4 DEF State
<1>4. CASE GetVoice(c)
  <2>1. /\ NewVoice \in Voice /\ NewVoice \notin allocated /\ NewVoice # Null
        /\ allocated' = allocated \cup {NewVoice}
    BY <1>4, NewVoiceIs DEF GetVoice, Allocate, State, TypeOK
  <2>2. /\ UNCHANGED <<next, mActive, mVoicesToInsert, mActiveVoices, mFreeVoices>>
        /\ cpc[c] = "get" /\ cpc' = [cpc EXCEPT ![c] = "has"]
        /\ mine' = [mine EXCEPT ![c] = NewVoice]
    BY <1>4 DEF GetVoice, Move, links
  <2> HIDE DEF NewVoice
  <2>3. TypeOK'
    BY <1>1, <2>1, <2>2 DEF State, TypeOK, Place, Link
  <2>4. Holding'
    BY <2>1, <2>2 DEF State, TypeOK, Holding
  <2>5. Timetable'
    BY <1>1, <2>1, <2>2 DEF State, TypeOK, Timetable, InOrder
  <2> QED BY <1>2, <2>3, <2>4, <2>5 DEF State
<1>5. CASE AllocatePolyphony(c)
  <2>1. /\ NewVoice \in Voice /\ NewVoice \notin allocated /\ NewVoice # Null
        /\ allocated' = allocated \cup {NewVoice}
    BY <1>5, NewVoiceIs DEF AllocatePolyphony, Allocate, State, TypeOK
  <2>2. /\ UNCHANGED <<mActive, mVoicesToInsert, mActiveVoices, mine>>
        /\ cpc[c] = "allocate" /\ cpc' = [cpc EXCEPT ![c] = "idle"]
        /\ mFreeVoices' = NewVoice \/ mFreeVoices' = mFreeVoices
        /\ next' = next \/ next' = [next EXCEPT ![LastOf(mFreeVoices)] = NewVoice]
    BY <1>5 DEF AllocatePolyphony, Move
  <2>3. TypeOK'
    BY <1>1, <2>1, <2>2 DEF State, TypeOK, Place, Link
  <2>4. Holding'
    BY <2>1, <2>2 DEF State, TypeOK, Holding
  <2>5. Timetable'
    BY <1>1, <2>1, <2>2 DEF State, TypeOK, Timetable, InOrder
  <2> QED BY <1>2, <2>3, <2>4, <2>5 DEF State
<1>6. CASE TriggerOn(c)
  <2>1. /\ UNCHANGED <<next, mVoicesToInsert, mActiveVoices, mFreeVoices, allocated, mine>>
        /\ mActive' = [mActive EXCEPT ![mine[c]] = TRUE]
        /\ cpc[c] = "has" /\ cpc' = [cpc EXCEPT ![c] = "push"]
    BY <1>6 DEF TriggerOn, Move, links
  <2>2. TypeOK'
    BY <1>1, <2>1 DEF State, TypeOK, Place
  <2>3. Holding' /\ Timetable'
    BY <1>1, <2>1 DEF State, TypeOK, Holding, Timetable, InOrder
  <2> QED BY <1>2, <2>2, <2>3 DEF State
<1>7. CASE PushMine(c)
  <2>1. /\ UNCHANGED <<mActive, mActiveVoices, mFreeVoices, allocated>>
        /\ next' = [next EXCEPT ![mine[c]] = mVoicesToInsert]
        /\ mVoicesToInsert' = mine[c]
        /\ mine' = [mine EXCEPT ![c] = Null]
        /\ cpc[c] = "push" /\ cpc' = [cpc EXCEPT ![c] = "idle"]
    BY <1>7 DEF PushMine, Push, Move
  <2>2. TypeOK'
    BY <1>1, <2>1 DEF State, TypeOK, Place, Link
  <2>3. Holding'
    BY <2>1 DEF State, TypeOK, Holding
  <2>4. Timetable'
    <3>1. \A j \in 1 .. Len(mEvents) : mEvents[j].voice # Null
      BY NullAssumption, EventShape DEF State, Timetable
    <3> QED BY <1>1, <2>1, <3>1 DEF State, TypeOK, Timetable, InOrder
  <2> QED BY <1>2, <2>2, <2>3, <2>4 DEF State
<1> QED BY <1>3, <1>4, <1>5, <1>6, <1>7 DEF ClientCalls, ClientGoesOn

LEMMA GraphicsState ==
  ASSUME State, FrameBegin \/ DrawVoice, UNCHANGED <<seq, begun, late>>
  PROVE  State'
<1>1. /\ UNCHANGED <<mEvents, mNextEvent, mMasterTime, blockStartTime, started, mOnOffsetFrames>>
      /\ UNCHANGED <<apc, voice, previousVoice, cpc, mine, allocated>>
      /\ UNCHANGED <<next, mVoicesToInsert, mActiveVoices, mFreeVoices>>
      /\ \/ mActive' = mActive
         \/ \E b \in BOOLEAN : mActive' = [mActive EXCEPT ![shown] = mActive[shown] /\ b]
  BY DEF FrameBegin, DrawVoice, MayFree, seq, avars, cvars, links
<1>2. TypeOK'
  <2>1. mActive' \in [Voice -> BOOLEAN]
    BY <1>1 DEF State, TypeOK
  <2> QED BY <1>1, <2>1 DEF State, TypeOK
<1> QED BY <1>1, <1>2 DEF State, Holding, Timetable, InOrder, NoneOverdue

\* Events are only added before the audio thread runs.
LEMMA AddIs ==
  ASSUME State, NEW start \in StartTimes, Add(start)
  PROVE  /\ ~started /\ apc = "idle" /\ mNextEvent = 0 /\ mMasterTime = 0
         /\ NewVoice \in Voice /\ NewVoice \notin allocated /\ NewVoice # Null
         /\ allocated' = allocated \cup {NewVoice}
         /\ Position(start) \in 1 .. Len(mEvents) + 1
         /\ mEvents' \in Seq(Event) /\ Len(mEvents') = Len(mEvents) + 1
         /\ \A j \in 1 .. Len(mEvents) + 1 :
              mEvents'[j] = IF j < Position(start) THEN mEvents[j]
                            ELSE IF j = Position(start) THEN [start |-> start, voice |-> NewVoice]
                            ELSE mEvents[j - 1]
<1>1. ~started /\ apc = "idle" /\ mNextEvent = 0 /\ mMasterTime = 0
  BY DEF Add, State, NoneOverdue
<1>2. /\ NewVoice \in Voice /\ NewVoice \notin allocated /\ NewVoice # Null
      /\ allocated' = allocated \cup {NewVoice}
  BY NewVoiceIs DEF Add, Allocate, State, TypeOK
<1>3. mEvents \in Seq(Event) /\ InOrder
  BY DEF State, Timetable
<1>4. Position(start) \in 1 .. Len(mEvents) + 1
  BY <1>3, PositionIs
<1>5. [start |-> start, voice |-> NewVoice] \in Event
  BY <1>2 DEF Event
<1>6. mEvents' = InsertAt(mEvents, Position(start), [start |-> start, voice |-> NewVoice])
  BY DEF Add
<1> DEFINE s == mEvents
           p == Position(start)
           e == [start |-> start, voice |-> NewVoice]
<1>7. s \in Seq(Event) /\ p \in 1 .. Len(s) + 1 /\ e \in Event
  BY <1>3, <1>4, <1>5
<1> HIDE DEF s, p, e
<1>8. /\ InsertAt(s, p, e) \in Seq(Event) /\ Len(InsertAt(s, p, e)) = Len(s) + 1
      /\ \A j \in 1 .. Len(s) + 1 :
           InsertAt(s, p, e)[j] = IF j < p THEN s[j] ELSE IF j = p THEN e ELSE s[j - 1]
  BY ONLY <1>7, InsertAtIs, ZenonT(60)
<1>9. /\ mEvents' \in Seq(Event) /\ Len(mEvents') = Len(s) + 1
      /\ \A j \in 1 .. Len(s) + 1 :
           mEvents'[j] = IF j < p THEN s[j] ELSE IF j = p THEN e ELSE s[j - 1]
  BY <1>6, <1>8 DEF s, p, e
<1> QED BY <1>1, <1>2, <1>4, <1>9 DEF s, p, e

\* Each event of the new timetable is the new one or an old one.
LEMMA AddKeeps ==
  ASSUME State, NEW start \in StartTimes, Add(start)
  PROVE  /\ \A j \in 1 .. Len(mEvents) + 1 :
              \/ j < Position(start) /\ j \in 1 .. Len(mEvents) /\ mEvents'[j] = mEvents[j]
              \/ j = Position(start) /\ mEvents'[j] = [start |-> start, voice |-> NewVoice]
              \/ /\ j > Position(start) /\ j - 1 \in 1 .. Len(mEvents)
                 /\ mEvents'[j] = mEvents[j - 1]
         /\ \A j \in 1 .. Len(mEvents) : \E k \in 1 .. Len(mEvents) + 1 :
              mEvents'[k] = mEvents[j]
<1>1. /\ Position(start) \in 1 .. Len(mEvents) + 1
      /\ \A j \in 1 .. Len(mEvents) + 1 :
           mEvents'[j] = IF j < Position(start) THEN mEvents[j]
                         ELSE IF j = Position(start) THEN [start |-> start, voice |-> NewVoice]
                         ELSE mEvents[j - 1]
  BY AddIs
<1>2. Len(mEvents) \in Nat
  BY EventShape DEF State, Timetable
<1> DEFINE p == Position(start)
           e == [start |-> start, voice |-> NewVoice]
           old == mEvents
           new == mEvents'
<1>3. /\ p \in 1 .. Len(old) + 1 /\ Len(old) \in Nat
      /\ \A j \in 1 .. Len(old) + 1 :
           new[j] = IF j < p THEN old[j] ELSE IF j = p THEN e ELSE old[j - 1]
  BY <1>1, <1>2
<1> HIDE DEF p, e, old, new
<1>4. ASSUME NEW j \in 1 .. Len(old) + 1
      PROVE  \/ j < p /\ j \in 1 .. Len(old) /\ new[j] = old[j]
             \/ j = p /\ new[j] = e
             \/ j > p /\ j - 1 \in 1 .. Len(old) /\ new[j] = old[j - 1]
  <2>1. CASE j < p
    <3>1. j \in 1 .. Len(old)
      BY <1>3, <2>1
    <3> QED BY <1>3, <2>1, <3>1
  <2>2. CASE j = p
    <3>1. ~ (j < p)
      BY <1>3, <2>2
    <3> QED BY <1>3, <2>2, <3>1
  <2>3. CASE j > p
    <3>1. j - 1 \in 1 .. Len(old) /\ ~ (j < p) /\ j # p
      BY <1>3, <2>3
    <3> QED BY <1>3, <2>3, <3>1
  <2> QED BY <1>3, <2>1, <2>2, <2>3
<1>5. ASSUME NEW j \in 1 .. Len(old)
      PROVE  \E k \in 1 .. Len(old) + 1 : new[k] = old[j]
  <2>1. CASE j < p
    <3>1. j \in 1 .. Len(old) + 1
      BY <1>3
    <3> QED BY <1>3, <2>1, <3>1
  <2>2. CASE ~ (j < p)
    <3>1. j + 1 \in 1 .. Len(old) + 1 /\ ~ (j + 1 < p) /\ j + 1 # p /\ (j + 1) - 1 = j
      BY <1>3, <2>2
    <3> QED BY <1>3, <3>1
  <2> QED BY <2>1, <2>2
<1> QED BY <1>4, <1>5 DEF p, e, old, new

LEMMA AddState ==
  ASSUME State, NEW start \in StartTimes, Add(start)
  PROVE  State'
<1> DEFINE p == Position(start)
           e == [start |-> start, voice |-> NewVoice]
           L == Len(mEvents)
           old == mEvents
           nv == NewVoice
<1>1. /\ ~started /\ apc = "idle" /\ mNextEvent = 0 /\ mMasterTime = 0
      /\ nv \in Voice /\ nv \notin allocated /\ nv # Null
      /\ allocated' = allocated \cup {nv}
      /\ p \in 1 .. L + 1 /\ mEvents' \in Seq(Event) /\ Len(mEvents') = L + 1
  BY AddIs
<1>2. \A j \in 1 .. L + 1 :
        \/ j < p /\ j \in 1 .. L /\ mEvents'[j] = old[j]
        \/ j = p /\ mEvents'[j] = e
        \/ j > p /\ j - 1 \in 1 .. L /\ mEvents'[j] = old[j - 1]
  BY AddKeeps
<1>3. L \in Nat /\ \A j \in 1 .. L : old[j].start \in Nat
  BY EventShape DEF State, Timetable
<1>4. /\ UNCHANGED <<next, mVoicesToInsert, mActiveVoices, mFreeVoices, mActive, cpc, mine, apc>>
      /\ UNCHANGED <<voice, previousVoice, mNextEvent, mMasterTime, blockStartTime, started, mOnOffsetFrames>>
  BY DEF Add, links, avars
<1>5. e.start = start /\ e.voice = nv
  OBVIOUS
<1>6. /\ \A j \in 1 .. L : j < p => old[j].start < start
      /\ \A j \in 1 .. L : j >= p => old[j].start >= start
  BY PositionIs DEF State, Timetable
<1>7. /\ \A j \in 1 .. L : old[j].voice \in allocated
      /\ \A j, k \in 1 .. L : old[j].voice = old[k].voice => j = k
      /\ \A j \in 1 .. L, c \in Client : old[j].voice # mine[c]
      /\ \A j, k \in 1 .. L : j < k => old[j].start <= old[k].start
  BY DEF State, Timetable, InOrder
<1>8. /\ \A c \in Client : mine[c] # Null => mine[c] \in allocated
      /\ start \in Nat
  BY FramesAssumption DEF State, Holding
<1> HIDE DEF p, e, L, old, nv
<1>9. \A j \in 1 .. L + 1 : mEvents'[j].voice \in allocated \cup {nv}
  BY <1>2, <1>5, <1>7
<1>10. ASSUME NEW j \in 1 .. L + 1, NEW k \in 1 .. L + 1,
              mEvents'[j].voice = mEvents'[k].voice
       PROVE  j = k
  <2>1. CASE j = p
    BY <1>1, <1>2, <1>5, <1>7, <1>10, <2>1
  <2>2. CASE k = p
    BY <1>1, <1>2, <1>5, <1>7, <1>10, <2>2
  <2>3. CASE j # p /\ k # p
    <3>1. CASE j < p /\ k < p /\ mEvents'[j] = old[j] /\ mEvents'[k] = old[k]
               /\ j \in 1 .. L /\ k \in 1 .. L
      BY <1>7, <1>10, <3>1
    <3>2. CASE j > p /\ k > p /\ mEvents'[j] = old[j - 1] /\ mEvents'[k] = old[k - 1]
               /\ j - 1 \in 1 .. L /\ k - 1 \in 1 .. L
      <4>1. j - 1 = k - 1
        BY <1>7, <1>10, <3>2
      <4> QED BY <1>3, <4>1
    <3>3. CASE j < p /\ k > p /\ mEvents'[j] = old[j] /\ mEvents'[k] = old[k - 1]
               /\ j \in 1 .. L /\ k - 1 \in 1 .. L
      <4>1. j = k - 1
        BY <1>7, <1>10, <3>3
      <4> QED BY <1>1, <1>3, <3>3, <4>1
    <3>4. CASE j > p /\ k < p /\ mEvents'[j] = old[j - 1] /\ mEvents'[k] = old[k]
               /\ j - 1 \in 1 .. L /\ k \in 1 .. L
      <4>1. k = j - 1
        BY <1>7, <1>10, <3>4
      <4> QED BY <1>1, <1>3, <3>4, <4>1
    <3> QED BY <1>2, <2>3, <3>1, <3>2, <3>3, <3>4
  <2> QED BY <2>1, <2>2, <2>3
<1>11. \A j \in 1 .. L + 1, c \in Client : mEvents'[j].voice # mine[c]
  BY <1>1, <1>2, <1>5, <1>7, <1>8
<1>12. ASSUME NEW j \in 1 .. L + 1, NEW k \in 1 .. L + 1, j < k
       PROVE  mEvents'[j].start <= mEvents'[k].start
  <2>1. CASE j < p /\ mEvents'[j] = old[j] /\ j \in 1 .. L
    <3>1. old[j].start < start /\ old[j].start \in Nat
      BY <1>3, <1>6, <2>1
    <3>2. CASE k < p /\ mEvents'[k] = old[k] /\ k \in 1 .. L
      BY <1>7, <1>12, <2>1, <3>2
    <3>3. CASE k = p /\ mEvents'[k] = e
      BY <1>5, <1>8, <2>1, <3>1, <3>3
    <3>4. CASE k > p /\ k - 1 \in 1 .. L /\ mEvents'[k] = old[k - 1]
      <4>1. k - 1 >= p
        BY <1>1, <1>3, <3>4
      <4>2. old[k - 1].start >= start /\ old[k - 1].start \in Nat
        BY <1>3, <1>6, <3>4, <4>1
      <4> QED BY <1>8, <2>1, <3>1, <3>4, <4>2
    <3> QED BY <1>2, <3>2, <3>3, <3>4
  <2>2. CASE j = p /\ mEvents'[j] = e
    <3>1. k > p
      BY <1>12, <2>2
    <3>2. k - 1 \in 1 .. L /\ mEvents'[k] = old[k - 1]
      BY <1>1, <1>2, <1>3, <3>1
    <3>3. k - 1 >= p
      BY <1>1, <1>3, <3>1
    <3>4. old[k - 1].start >= start
      BY <1>6, <3>2, <3>3
    <3> QED BY <1>3, <1>5, <1>8, <2>2, <3>2, <3>4
  <2>3. CASE j > p /\ j - 1 \in 1 .. L /\ mEvents'[j] = old[j - 1]
    <3>1. k > p
      BY <1>1, <1>3, <1>12, <2>3
    <3>2. k - 1 \in 1 .. L /\ mEvents'[k] = old[k - 1]
      BY <1>1, <1>2, <1>3, <3>1
    <3>3. j - 1 < k - 1
      BY <1>3, <1>12
    <3> QED BY <1>7, <2>3, <3>2, <3>3
  <2> QED BY <1>2, <2>1, <2>2, <2>3
<1>13. Timetable'
  <2>1. mNextEvent' \in 0 .. Len(mEvents')
    BY <1>1, <1>3, <1>4
  <2> QED BY <1>1, <1>4, <1>9, <1>10, <1>11, <1>12, <2>1 DEF Timetable, InOrder
<1>14. TypeOK'
  BY <1>1, <1>4 DEF State, TypeOK
<1>15. Holding'
  BY <1>1, <1>4 DEF State, Holding
<1>16. NoneOverdue'
  <2>1. mMasterTime = 0 /\ blockStartTime = 0
    BY <1>1 DEF State, NoneOverdue
  <2>2. blockStartTime <= mMasterTime /\ mMasterTime <= blockStartTime + timeIncrement + Rounding
    BY <2>1, TimeIs
  <2> QED BY <1>1, <1>4, <2>1, <2>2 DEF NoneOverdue
<1> QED BY <1>13, <1>14, <1>15, <1>16 DEF State

\* A block begins where the last one ended; the events that are due in it are
\* triggered before it is rendered.
LEMMA BlockState ==
  ASSUME State, BlockBegin \/ TriggerEvent \/ EventsDone
  PROVE  State'
<1>1. Len(mEvents) \in Nat /\ \A j \in 1 .. Len(mEvents) :
        mEvents[j].voice \in Voice /\ mEvents[j].start \in Nat
  BY EventShape DEF State, Timetable
<1>2. /\ mMasterTime \in Nat /\ blockStartTime \in Nat /\ timeIncrement \in Nat
      /\ Ticks \in Nat /\ Rounding \in Nat /\ 2 * Rounding < Ticks /\ timeIncrement >= Ticks
  BY TimeIs DEF State, TypeOK
<1>3. mNextEvent \in 0 .. Len(mEvents)
  BY DEF State, Timetable
<1>4. CASE BlockBegin
  <2>1. /\ UNCHANGED <<next, mVoicesToInsert, mActiveVoices, mFreeVoices, mActive, cpc, mine>>
        /\ UNCHANGED <<allocated, voice, previousVoice, mEvents, mNextEvent, mOnOffsetFrames>>
        /\ apc = "idle" /\ apc' = "events" /\ started' = TRUE
        /\ blockStartTime' = mMasterTime
        /\ mMasterTime' \in IF mNextEvent < Len(mEvents)
                           THEN Rounded(mMasterTime + timeIncrement) ELSE {0}
    BY <1>4 DEF BlockBegin, links, cvars, EventsLeft
  <2>2. /\ mMasterTime' \in Nat
        /\ mNextEvent < Len(mEvents) =>
             mMasterTime <= mMasterTime' /\ mMasterTime' <= mMasterTime + timeIncrement + Rounding
    BY <1>2, <2>1 DEF Rounded
  <2>3. TypeOK'
    BY <2>1, <2>2 DEF State, TypeOK
  <2>4. Holding' /\ Timetable'
    BY <2>1 DEF State, Holding, Timetable, InOrder
  <2>5. ASSUME NEW j \in mNextEvent + 1 .. Len(mEvents)
        PROVE  mEvents[j].start >= mMasterTime
    <3>1. j \in 1 .. Len(mEvents) /\ mEvents[j].start \in Nat
      BY <1>1, <1>3
    <3>2. CASE started
      <4>1. mEvents[j].start > mMasterTime
        BY <2>1, <3>2 DEF State, NoneOverdue
      <4> QED BY <1>2, <3>1, <4>1
    <3>3. CASE ~started
      <4>1. mMasterTime = 0
        BY <3>3 DEF State, NoneOverdue
      <4> QED BY <1>2, <3>1, <4>1
    <3> QED BY <3>2, <3>3
  <2>6. NoneOverdue'
    BY <2>1, <2>2, <2>5 DEF NoneOverdue
  <2> QED BY <2>3, <2>4, <2>6 DEF State
<1>5. CASE TriggerEvent
  <2> DEFINE k == mNextEvent + 1
             v == mEvents[k].voice
  <2>1. mNextEvent < Len(mEvents)
    BY <1>5 DEF TriggerEvent, Due, EventsLeft
  <2>2. k \in 1 .. Len(mEvents) /\ k \in 0 .. Len(mEvents)
    BY <1>1, <1>3, <2>1
  <2>3. v \in Voice
    BY <1>1, <2>2
  <2>4. /\ UNCHANGED <<mActiveVoices, mFreeVoices, cpc, mine, allocated, apc, voice>>
        /\ UNCHANGED <<previousVoice, mEvents, mMasterTime, blockStartTime, started>>
        /\ apc = "events" /\ mNextEvent' = k
        /\ \E t \in Rounded(mEvents[k].start - blockStartTime) :
             mOnOffsetFrames' = [mOnOffsetFrames EXCEPT ![v] = Truncated(t)]
        /\ mActive' = [mActive EXCEPT ![v] = TRUE]
        /\ next' = [next EXCEPT ![v] = mVoicesToInsert] /\ mVoicesToInsert' = v
    BY <1>5 DEF TriggerEvent, Push, cvars, avars
  <2> HIDE DEF v
  <2>5. TypeOK'
    <3>1. mOnOffsetFrames' \in [Voice -> Int]
      <4>1. PICK t \in Rounded(mEvents[k].start - blockStartTime) :
              mOnOffsetFrames' = [mOnOffsetFrames EXCEPT ![v] = Truncated(t)]
        BY <2>4
      <4>2. mEvents[k].start >= blockStartTime /\ mEvents[k].start \in Nat
        BY <1>1, <1>3, <2>2, <2>4 DEF State, NoneOverdue
      <4>3. Truncated(t) \in Nat
        BY <1>2, <4>2, TruncatedIs DEF Rounded
      <4>4. mOnOffsetFrames \in [Voice -> Int]
        BY DEF State, TypeOK
      <4>5. \A q \in Int : [mOnOffsetFrames EXCEPT ![v] = q] \in [Voice -> Int]
        BY <2>3, <4>4
      <4> QED BY <4>1, <4>3, <4>5
    <3> QED BY <2>3, <2>4, <3>1 DEF State, TypeOK, Link
  <2>6. Holding'
    BY <2>4 DEF State, Holding
  <2>7. Timetable'
    BY <2>2, <2>4 DEF State, Timetable, InOrder
  <2>8. started
    BY <2>4 DEF State, NoneOverdue
  <2>9. \A j \in k + 1 .. Len(mEvents) : j \in mNextEvent + 1 .. Len(mEvents)
    BY <1>1, <1>3
  <2>10. NoneOverdue'
    <3>1. /\ blockStartTime <= mMasterTime
          /\ mMasterTime <= blockStartTime + timeIncrement + Rounding
      BY <2>1 DEF State, NoneOverdue
    <3> QED BY <2>4, <2>8, <2>9, <3>1 DEF State, NoneOverdue
  <2> QED BY <2>5, <2>6, <2>7, <2>10 DEF State
<1>6. CASE EventsDone
  <2>1. /\ UNCHANGED <<next, mVoicesToInsert, mActiveVoices, mFreeVoices, mActive, cpc, mine>>
        /\ UNCHANGED <<allocated, voice, previousVoice, mEvents, mNextEvent, mOnOffsetFrames>>
        /\ UNCHANGED <<mMasterTime, blockStartTime, started>>
        /\ apc = "events" /\ apc' = "insert" /\ ~Due
    BY <1>6 DEF EventsDone, links, cvars, seq
  <2>2. TypeOK'
    BY <2>1 DEF State, TypeOK
  <2>3. Holding' /\ Timetable'
    BY <2>1 DEF State, Holding, Timetable, InOrder
  <2>4. ASSUME NEW j \in mNextEvent + 1 .. Len(mEvents)
        PROVE  mEvents[j].start > mMasterTime
    <3> DEFINE k == mNextEvent + 1
    <3>1. j \in 1 .. Len(mEvents) /\ k \in 1 .. Len(mEvents) /\ mNextEvent < Len(mEvents)
          /\ k <= j
      BY <1>1, <1>3
    <3>2. ~ (mEvents[k].start <= mMasterTime)
      BY <2>1, <3>1 DEF Due, EventsLeft
    <3>3. mEvents[k].start \in Nat /\ mEvents[j].start \in Nat
      BY <1>1, <3>1
    <3>4. mEvents[k].start <= mEvents[j].start
      <4>1. CASE k = j
        BY <3>3, <4>1
      <4>2. CASE k # j
        <5>1. k < j
          BY <1>1, <1>3, <3>1, <4>2
        <5> QED BY <3>1, <5>1 DEF State, Timetable, InOrder
      <4> QED BY <4>1, <4>2
    <3> HIDE DEF k
    <3> QED BY <1>2, <3>2, <3>3, <3>4
  <2>5. started
    BY <2>1 DEF State, NoneOverdue
  <2>6. NoneOverdue'
    BY <2>1, <2>4, <2>5 DEF State, NoneOverdue
  <2> QED BY <2>2, <2>3, <2>6 DEF State
<1> QED BY <1>4, <1>5, <1>6

LEMMA RenderState ==
  ASSUME State, Render
  PROVE  State'
<1>1. /\ UNCHANGED <<cpc, mine, allocated>>
      /\ UNCHANGED <<mEvents, mNextEvent, mMasterTime, blockStartTime, started>>
      /\ apc \in {"insert", "render", "sweep"}
      /\ apc' \in {"idle", "render", "sweep"}
  BY DEF Render, RenderStep, TryInsert, RenderVoice, TrySweep, Sweeping, SweepActive,
         SweepInside, SweepHead, SweepEnd, cvars
<1>2. NoneOverdue'
  BY <1>1 DEF State, NoneOverdue
<1>3. Holding' /\ Timetable'
  BY <1>1 DEF State, Holding, Timetable, InOrder
<1>4. mOnOffsetFrames' \in [Voice -> Int]
  BY DEF Render, Offset, State, TypeOK
<1>5. /\ next \in [Voice -> Link] /\ mActive \in [Voice -> BOOLEAN]
      /\ mVoicesToInsert \in Link /\ mActiveVoices \in Link /\ mFreeVoices \in Link
      /\ voice \in Link /\ previousVoice \in Link
      /\ Null \in Link /\ \A v \in Link : v # Null => v \in Voice
  BY DEF State, TypeOK, Link
<1>6. \A v \in Link : v # Null => next[v] \in Link
  BY <1>5
<1>7. /\ next' \in [Voice -> Link] /\ mActive' \in [Voice -> BOOLEAN]
      /\ mVoicesToInsert' \in Link /\ mActiveVoices' \in Link /\ mFreeVoices' \in Link
      /\ voice' \in Link /\ previousVoice' \in Link
  <2>1. CASE TryInsert
    <3>1. /\ UNCHANGED <<mActive, mFreeVoices, previousVoice>> /\ voice' = mActiveVoices'
          /\ \/ UNCHANGED <<next, mVoicesToInsert, mActiveVoices>>
             \/ /\ next' = [next EXCEPT ![LastOf(mVoicesToInsert)] = mActiveVoices]
                /\ mActiveVoices' = mVoicesToInsert /\ mVoicesToInsert' = Null
      BY <2>1 DEF TryInsert, Splice, links
    <3> QED BY <1>5, <3>1
  <2>2. CASE RenderVoice
    <3>1. /\ UNCHANGED <<next, mVoicesToInsert, mActiveVoices, mFreeVoices, previousVoice>>
          /\ voice # Null /\ voice' = next[voice]
          /\ \E b \in BOOLEAN : mActive' = [mActive EXCEPT ![voice] = mActive[voice] /\ b]
      BY <2>2 DEF RenderVoice, MayFree, links
    <3>2. mActive' \in [Voice -> BOOLEAN]
      BY <1>5, <3>1
    <3>3. voice' \in Link
      BY <1>5, <1>6, <3>1
    <3> QED BY <1>5, <3>1, <3>2, <3>3
  <2>3. CASE TrySweep
    BY <1>5, <2>3 DEF TrySweep, links
  <2>4. CASE SweepActive
    <3>1. /\ UNCHANGED <<next, mVoicesToInsert, mActiveVoices, mFreeVoices, mActive>>
          /\ voice # Null /\ voice' = next[voice] /\ previousVoice' = voice
      BY <2>4 DEF SweepActive, Sweeping
    <3> QED BY <1>5, <1>6, <3>1
  <2>5. CASE SweepInside
    <3>1. /\ UNCHANGED <<mVoicesToInsert, mActiveVoices, mActive, previousVoice>>
          /\ voice # Null /\ previousVoice # Null /\ mFreeVoices' = voice
          /\ next' = [next EXCEPT ![previousVoice] = next[voice], ![voice] = mFreeVoices]
          /\ voice' = next'[previousVoice]
      BY <2>5 DEF SweepInside, Sweeping, Retire
    <3>2. next' \in [Voice -> Link]
      BY <1>5, <1>6, <3>1
    <3> QED BY <1>5, <3>1, <3>2
  <2>6. CASE SweepHead
    <3>1. /\ UNCHANGED <<mVoicesToInsert, mActive>>
          /\ voice # Null /\ mFreeVoices' = voice /\ mActiveVoices' = next[voice]
          /\ next' = [next EXCEPT ![voice] = mFreeVoices]
          /\ previousVoice' = mActiveVoices'
          /\ voice' = IF mActiveVoices' = Null THEN Null ELSE next'[mActiveVoices']
      BY <2>6 DEF SweepHead, Sweeping, Retire
    <3>2. next' \in [Voice -> Link] /\ mActiveVoices' \in Link
      BY <1>5, <1>6, <3>1
    <3> QED BY <1>5, <3>1, <3>2
  <2>7. CASE SweepEnd
    BY <1>5, <2>7 DEF SweepEnd, links
  <2> QED BY <2>1, <2>2, <2>3, <2>4, <2>5, <2>6, <2>7 DEF Render, RenderStep
<1>8. TypeOK'
  BY <1>1, <1>4, <1>7 DEF State, TypeOK
<1> QED BY <1>2, <1>3, <1>8 DEF State

LEMMA StateHolds ==
  ASSUME State, [Next]_vars
  PROVE  State'
<1>1. CASE \E start \in StartTimes : Add(start)
  BY <1>1, AddState
<1>2. CASE AudioStep
  BY <1>2, BlockState, RenderState DEF AudioStep
<1>3. CASE \E c \in Client : Elsewhere(started /\ ClientCalls(c)) \/ Elsewhere(ClientGoesOn(c))
  BY <1>3, ClientState DEF Elsewhere
<1>4. CASE Elsewhere(FrameBegin) \/ Elsewhere(DrawVoice)
  BY <1>4, GraphicsState DEF Elsewhere
<1>5. CASE UNCHANGED vars
  BY <1>5 DEF vars, synth, seq, links, cvars, avars, State, TypeOK, Holding, Timetable,
              InOrder, NoneOverdue
<1> QED BY <1>1, <1>2, <1>3, <1>4, <1>5 DEF Next

-------------------------------------------------------------------------------
(* At first all three lists are empty. *)

LEMMA InitGood == Init => Good(<< >>, << >>, << >>, 1)
<1> SUFFICES ASSUME Init PROVE Good(<< >>, << >>, << >>, 1)
  OBVIOUS
<1> DEFINE e == << >>
<1>1. /\ next = [v \in Voice |-> Null] /\ mVoicesToInsert = Null /\ mActiveVoices = Null
      /\ mFreeVoices = Null /\ allocated = {} /\ mine = [c \in Client |-> Null]
      /\ apc = "idle" /\ done = {} /\ mEvents = << >> /\ mNextEvent = 0
  BY DEF Init, PolySynthInit
<1>2. /\ e \in Seq(Voice) /\ Len(e) = 0 /\ Cells(e) = {} /\ Distinct(e)
      /\ \A j : At(e, j) = Null
  <2>1. e \in Seq(Voice) /\ Len(e) = 0
    BY EmptySeq
  <2> QED BY <2>1 DEF Cells, Distinct, At
<1> HIDE DEF e
<1>3. \A n, head : head = Null => Linked(n, head, e)
  BY <1>2 DEF Linked
<1>4. Held(e, e, e) /\ Apart(e, e, e)
  BY <1>1, <1>2, <1>3 DEF Held, Apart
<1>5. Mine = {} /\ Coming = {}
  <2>1. Len(mEvents) = 0
    BY <1>1, EmptySeq
  <2> QED BY <1>1, <2>1 DEF Mine, Coming
<1>6. Owned(e, e, e)
  BY <1>1, <1>2, <1>5 DEF Owned, Listed
<1>7. Walking(e, 1) /\ Swept(e, 1) /\ OnTime(e, e, 1)
  BY <1>1, <1>2 DEF Walking, Swept, OnTime
<1> QED BY <1>4, <1>6, <1>7 DEF Good, ThreeLists, e

-------------------------------------------------------------------------------
(* The links written by a push, by an extension and by a splice *)

LEMMA OneVoice ==
  ASSUME NEW v \in Voice
  PROVE  /\ <<v>> \in Seq(Voice) /\ Len(<<v>>) = 1 /\ <<v>>[1] = v
         /\ Cells(<<v>>) = {v} /\ Distinct(<<v>>)
         /\ At(<<v>>, 1) = v /\ At(<<v>>, 2) = Null
<1>1. <<v>> \in Seq(Voice) /\ Len(<<v>>) = 1 /\ <<v>>[1] = v
  OBVIOUS
<1>2. 1 .. Len(<<v>>) = {1} /\ 1 \in 1 .. Len(<<v>>) /\ 2 \notin 1 .. Len(<<v>>)
  BY <1>1
<1>3. Cells(<<v>>) = {v} /\ Distinct(<<v>>)
  BY <1>1, <1>2 DEF Cells, Distinct
<1>4. At(<<v>>, 1) = v /\ At(<<v>>, 2) = Null
  BY <1>1, <1>2 DEF At
<1> QED BY <1>1, <1>3, <1>4

\* A list whose voices keep their links stays one.
LEMMA StaysLinked ==
  ASSUME NEW q \in Seq(Voice), NEW n, NEW n2, NEW head, Linked(n, head, q),
         \A v \in Cells(q) : n2[v] = n[v]
  PROVE  Linked(n2, head, q)
BY DEF Linked, Cells

\* Push() puts a voice in front; the sweep does the same on the free list.
LEMMA Pushed ==
  ASSUME NEW q \in Seq(Voice), Distinct(q), NEW n, NEW head, Linked(n, head, q),
         NEW v \in Voice, v \notin Cells(q), n[v] = head
  PROVE  /\ Joined(<<v>>, q) \in Seq(Voice) /\ Distinct(Joined(<<v>>, q))
         /\ Linked(n, v, Joined(<<v>>, q))
         /\ Cells(Joined(<<v>>, q)) = {v} \cup Cells(q)
<1>1. /\ <<v>> \in Seq(Voice) /\ Len(<<v>>) = 1 /\ <<v>>[1] = v
      /\ Cells(<<v>>) = {v} /\ Distinct(<<v>>)
  BY OneVoice
<1> DEFINE o == <<v>>
<1> HIDE DEF o
<1>2. /\ o \in Seq(Voice) /\ Len(o) = 1 /\ o[1] = v /\ Cells(o) = {v} /\ Distinct(o)
      /\ Cells(o) \cap Cells(q) = {}
  BY <1>1 DEF o
<1>3. /\ \A j \in 1 .. Len(o) - 1 : n[o[j]] = o[j + 1]
      /\ Len(o) # 0 => n[o[Len(o)]] = At(q, 1)
      /\ \A j \in 1 .. Len(q) : n[q[j]] = At(q, j + 1)
  BY <1>2 DEF Linked
<1>4. /\ Distinct(Joined(o, q))
      /\ Linked(n, IF Len(o) = 0 THEN At(q, 1) ELSE o[1], Joined(o, q))
  BY <1>2, <1>3, JoinedIsLinked
<1>5. Joined(o, q) \in Seq(Voice) /\ Cells(Joined(o, q)) = Cells(o) \cup Cells(q)
  BY <1>2, JoinedShape
<1>6. Linked(n, v, Joined(o, q))
  BY <1>2, <1>4
<1> QED BY <1>2, <1>4, <1>5, <1>6 DEF o

\* allocatePolyphony() puts a voice behind the last one.
LEMMA Extended ==
  ASSUME NEW q \in Seq(Voice), Distinct(q), NEW n, NEW n2, NEW head, Linked(n, head, q),
         NEW v \in Voice, v \notin Cells(q), n2[v] = Null,
         Len(q) # 0 => n2[q[Len(q)]] = v,
         \A j \in 1 .. Len(q) : j # Len(q) => n2[q[j]] = n[q[j]]
  PROVE  /\ Joined(q, <<v>>) \in Seq(Voice) /\ Distinct(Joined(q, <<v>>))
         /\ Linked(n2, IF Len(q) = 0 THEN v ELSE head, Joined(q, <<v>>))
         /\ Cells(Joined(q, <<v>>)) = Cells(q) \cup {v}
<1>1. /\ <<v>> \in Seq(Voice) /\ Len(<<v>>) = 1 /\ <<v>>[1] = v
      /\ Cells(<<v>>) = {v} /\ Distinct(<<v>>)
      /\ At(<<v>>, 1) = v /\ At(<<v>>, 2) = Null
  BY OneVoice
<1> DEFINE o == <<v>>
<1> HIDE DEF o
<1>2. /\ o \in Seq(Voice) /\ Len(o) = 1 /\ o[1] = v /\ Cells(o) = {v} /\ Distinct(o)
      /\ Cells(q) \cap Cells(o) = {} /\ At(o, 1) = v /\ At(o, 2) = Null
  BY <1>1 DEF o
<1>3. Len(q) \in Nat
  BY ListShape
<1>4. \A j \in 1 .. Len(q) - 1 : n2[q[j]] = q[j + 1]
  <2> TAKE j \in 1 .. Len(q) - 1
  <2>1. j \in 1 .. Len(q) /\ j # Len(q) /\ j + 1 \in 1 .. Len(q)
    BY <1>3
  <2>2. n[q[j]] = At(q, j + 1)
    BY <2>1 DEF Linked
  <2> QED BY <2>1, <2>2 DEF At
<1>5. /\ Len(q) # 0 => n2[q[Len(q)]] = At(o, 1)
      /\ \A j \in 1 .. Len(o) : n2[o[j]] = At(o, j + 1)
  BY <1>2
<1>6. /\ Distinct(Joined(q, o))
      /\ Linked(n2, IF Len(q) = 0 THEN At(o, 1) ELSE q[1], Joined(q, o))
  BY <1>2, <1>4, <1>5, JoinedIsLinked
<1>7. Joined(q, o) \in Seq(Voice) /\ Cells(Joined(q, o)) = Cells(q) \cup Cells(o)
  BY <1>2, JoinedShape
<1>8. (IF Len(q) = 0 THEN At(o, 1) ELSE q[1]) = IF Len(q) = 0 THEN v ELSE head
  <2>1. CASE Len(q) = 0
    BY <1>2, <2>1
  <2>2. CASE Len(q) # 0
    <3>1. 1 \in 1 .. Len(q)
      BY <1>3, <2>2
    <3> QED BY <2>2, <3>1 DEF Linked, At
  <2> QED BY <2>1, <2>2
<1>9. Linked(n2, IF Len(q) = 0 THEN v ELSE head, Joined(q, o))
  BY <1>6, <1>8
<1> QED BY <1>2, <1>6, <1>7, <1>9 DEF o

\* The splice links the last voice to insert to the first active one.
LEMMA Spliced ==
  ASSUME NEW q \in Seq(Voice), NEW r \in Seq(Voice), Distinct(q), Distinct(r),
         Cells(q) \cap Cells(r) = {}, NEW n, NEW n2, NEW head, NEW rest,
         Linked(n, head, q), Linked(n, rest, r), Len(q) # 0,
         n2[q[Len(q)]] = rest,
         \A v \in Cells(q) \cup Cells(r) : v # q[Len(q)] => n2[v] = n[v]
  PROVE  Distinct(Joined(q, r)) /\ Linked(n2, head, Joined(q, r))
<1>1. Len(q) \in Nat /\ Len(q) \in 1 .. Len(q) /\ 1 \in 1 .. Len(q)
  BY ListShape
<1>2. \A j \in 1 .. Len(q) - 1 : n2[q[j]] = q[j + 1]
  <2> TAKE j \in 1 .. Len(q) - 1
  <2>1. j \in 1 .. Len(q) /\ j # Len(q) /\ j + 1 \in 1 .. Len(q)
    BY <1>1
  <2>2. n[q[j]] = At(q, j + 1)
    BY <2>1 DEF Linked
  <2>3. q[j] # q[Len(q)]
    BY <1>1, <2>1 DEF Distinct
  <2> QED BY <2>1, <2>2, <2>3 DEF At, Cells
<1>3. Len(q) # 0 => n2[q[Len(q)]] = At(r, 1)
  BY DEF Linked
<1>4. \A j \in 1 .. Len(r) : n2[r[j]] = At(r, j + 1)
  <2> TAKE j \in 1 .. Len(r)
  <2>1. r[j] # q[Len(q)] /\ r[j] \in Cells(r)
    BY <1>1 DEF Cells
  <2> QED BY <2>1 DEF Linked
<1>5. /\ Distinct(Joined(q, r))
      /\ Linked(n2, IF Len(q) = 0 THEN At(r, 1) ELSE q[1], Joined(q, r))
  BY <1>2, <1>3, <1>4, JoinedIsLinked
<1>6. head = q[1]
  BY <1>1 DEF Linked, At
<1> QED BY <1>5, <1>6

-------------------------------------------------------------------------------
(* Who has a voice that is on no list *)

LEMMA HeldVoices ==
  ASSUME State
  PROVE  /\ Mine \subseteq allocated /\ Coming \subseteq allocated
         /\ Mine \subseteq Voice /\ Coming \subseteq Voice /\ Mine \cap Coming = {}
         /\ \A c \in Client : mine[c] # Null => mine[c] \in Mine
<1>1. \A c \in Client : mine[c] # Null => mine[c] \in allocated
  BY DEF State, Holding
<1>2. mNextEvent + 1 .. Len(mEvents) \subseteq 1 .. Len(mEvents)
  BY EventShape DEF State, Timetable
<1>3. \A j \in 1 .. Len(mEvents) : mEvents[j].voice \in allocated
  BY DEF State, Timetable
<1>4. \A j \in 1 .. Len(mEvents), c \in Client : mEvents[j].voice # mine[c]
  BY DEF State, Timetable
<1>5. Mine \subseteq allocated
  BY <1>1 DEF Mine
<1>6. Coming \subseteq allocated
  BY <1>2, <1>3 DEF Coming
<1>7. Mine \cap Coming = {}
  BY <1>2, <1>4 DEF Mine, Coming
<1>8. allocated \subseteq Voice
  BY DEF State, TypeOK
<1>9. \A c \in Client : mine[c] # Null => mine[c] \in Mine
  BY DEF Mine
<1> QED BY <1>5, <1>6, <1>7, <1>8, <1>9

\* A client gets a voice, and gives it away.
LEMMA MineIs ==
  ASSUME State, NEW c \in Client, NEW v, mine' = [mine EXCEPT ![c] = v],
         mine[c] = Null \/ v = Null
  PROVE  Mine' = (Mine \ {mine[c]}) \cup ({v} \ {Null})
<1>1. /\ \A d \in Client : d # c => mine'[d] = mine[d]
      /\ mine'[c] = v
  BY DEF State, TypeOK
<1>2. \A d \in Client : d # c /\ mine[d] # Null => mine[d] # mine[c]
  BY DEF State, Holding
<1>3. ASSUME NEW w \in Mine' PROVE w \in (Mine \ {mine[c]}) \cup ({v} \ {Null})
  <2>1. PICK d \in Client : mine'[d] # Null /\ w = mine'[d]
    BY DEF Mine
  <2> QED BY <1>1, <1>2, <2>1 DEF Mine
<1>4. ASSUME NEW w \in Mine, w # mine[c] PROVE w \in Mine'
  <2>1. PICK d \in Client : mine[d] # Null /\ w = mine[d]
    BY DEF Mine
  <2>2. mine'[d] = w /\ mine'[d] # Null
    BY <1>1, <1>4, <2>1
  <2> QED BY <2>2 DEF Mine
<1>5. v # Null => v \in Mine'
  BY <1>1 DEF Mine
<1> QED BY <1>3, <1>4, <1>5

\* The event that is triggered leaves the events to come, with its voice.
LEMMA ComingIs ==
  ASSUME State, mNextEvent < Len(mEvents), UNCHANGED mEvents, mNextEvent' = mNextEvent + 1
  PROVE  /\ mEvents[mNextEvent + 1].voice \in Coming
         /\ Coming' = Coming \ {mEvents[mNextEvent + 1].voice}
<1> DEFINE k == mNextEvent + 1
<1>1. /\ Len(mEvents) \in Nat /\ mNextEvent \in 0 .. Len(mEvents)
      /\ \A j, l \in 1 .. Len(mEvents) : mEvents[j].voice = mEvents[l].voice => j = l
  BY EventShape DEF State, Timetable
<1>2. /\ k \in 1 .. Len(mEvents) /\ k \in k .. Len(mEvents)
      /\ \A j \in k + 1 .. Len(mEvents) : j \in 1 .. Len(mEvents) /\ j \in k .. Len(mEvents)
                                          /\ j # k
      /\ \A j \in k .. Len(mEvents) : j \in 1 .. Len(mEvents)
                                      /\ (j # k => j \in k + 1 .. Len(mEvents))
  BY <1>1
<1> HIDE DEF k
<1>3. /\ Coming = {mEvents[j].voice : j \in k .. Len(mEvents)}
      /\ Coming' = {mEvents[j].voice : j \in k + 1 .. Len(mEvents)}
  BY DEF Coming, k
<1>4. mEvents[k].voice \in Coming
  BY <1>2, <1>3
<1>5. ASSUME NEW v \in Coming' PROVE v \in Coming \ {mEvents[k].voice}
  <2>1. PICK j \in k + 1 .. Len(mEvents) : v = mEvents[j].voice
    BY <1>3
  <2> QED BY <1>1, <1>2, <1>3, <2>1
<1>6. ASSUME NEW v \in Coming, v # mEvents[k].voice PROVE v \in Coming'
  <2>1. PICK j \in k .. Len(mEvents) : v = mEvents[j].voice
    BY <1>3
  <2> QED BY <1>2, <1>3, <1>6, <2>1
<1>7. Coming' = Coming \ {mEvents[k].voice}
  BY <1>5, <1>6
<1> QED BY <1>4, <1>7 DEF k

LEMMA ComingGrows ==
  ASSUME State, NEW start \in StartTimes, Add(start)
  PROVE  Coming' = Coming \cup {NewVoice}
<1> DEFINE p == Position(start)
           e == [start |-> start, voice |-> NewVoice]
           L == Len(mEvents)
           old == mEvents
<1>1. /\ mNextEvent = 0 /\ mNextEvent' = 0 /\ p \in 1 .. L + 1 /\ Len(mEvents') = L + 1
  BY AddIs DEF Add
<1>2. /\ \A j \in 1 .. L + 1 :
           \/ j < p /\ j \in 1 .. L /\ mEvents'[j] = old[j]
           \/ j = p /\ mEvents'[j] = e
           \/ j > p /\ j - 1 \in 1 .. L /\ mEvents'[j] = old[j - 1]
      /\ \A j \in 1 .. L : \E l \in 1 .. L + 1 : mEvents'[l] = old[j]
  BY AddKeeps
<1>3. e.voice = NewVoice
  OBVIOUS
<1>4. Coming = {old[j].voice : j \in 1 .. L}
  BY <1>1 DEF Coming
<1>5. Coming' = {mEvents'[j].voice : j \in 1 .. L + 1}
  BY <1>1 DEF Coming
<1>6. mEvents'[p] = e
  BY <1>1, <1>2
<1> HIDE DEF p, e, L, old
<1>7. ASSUME NEW v \in Coming' PROVE v \in Coming \cup {NewVoice}
  <2>1. PICK j \in 1 .. L + 1 : v = mEvents'[j].voice
    BY <1>5
  <2> QED BY <1>2, <1>3, <1>4, <2>1
<1>8. ASSUME NEW v \in Coming PROVE v \in Coming'
  <2>1. PICK j \in 1 .. L : v = old[j].voice
    BY <1>4
  <2> QED BY <1>2, <1>5, <2>1
<1>9. NewVoice \in Coming'
  BY <1>1, <1>3, <1>5, <1>6
<1> QED BY <1>7, <1>8, <1>9

-------------------------------------------------------------------------------
(* Steps that the audio thread does not notice *)

\* The lists hold what they held; the voices in them may have become inactive.
LEMMA Unnoticed ==
  ASSUME NEW i \in Seq(Voice), NEW i2 \in Seq(Voice), NEW a \in Seq(Voice), NEW m \in Nat,
         Walking(a, m), Swept(a, m), OnTime(i, a, m), Cells(i) \subseteq Cells(i2),
         UNCHANGED <<apc, voice, previousVoice, done, mMasterTime, blockStartTime, mOnOffsetFrames>>,
         UNCHANGED <<mEvents, mNextEvent, begun, late>>,
         \A v \in Cells(a) : mActive'[v] => mActive[v],
         \A j \in 1 .. mNextEvent : mActive'[mEvents[j].voice] => mActive[mEvents[j].voice]
  PROVE  Walking(a, m)' /\ Swept(a, m)' /\ OnTime(i2, a, m)'
<1>1. Walking(a, m)'
  BY DEF Walking
<1>2. Swept(a, m)'
  BY DEF Swept, Cells
<1>3. OnTime(i2, a, m)'
  <2>1. \A j \in 1 .. mNextEvent :
          (DueNow(mEvents[j])' <=> DueNow(mEvents[j])) /\ (Passed(mEvents[j])' <=> Passed(mEvents[j]))
    BY DEF DueNow, Passed, Near
  <2> QED BY <2>1 DEF OnTime
<1> QED BY <1>1, <1>2, <1>3

\* A voice that is made active before it is on any list belongs to no event.
LEMMA OthersActive ==
  ASSUME State, NEW i, NEW a, NEW f, Owned(i, a, f), NEW c \in Client, mine[c] # Null,
         mActive' = [mActive EXCEPT ![mine[c]] = TRUE]
  PROVE  /\ \A v \in Cells(a) : mActive'[v] = mActive[v]
         /\ \A j \in 1 .. mNextEvent : mActive'[mEvents[j].voice] = mActive[mEvents[j].voice]
<1>1. \A v \in Cells(a) : v # mine[c]
  BY HeldVoices DEF Owned, Listed
<1>2. \A j \in 1 .. mNextEvent : j \in 1 .. Len(mEvents)
  BY EventShape DEF State, Timetable
<1>3. \A j \in 1 .. mNextEvent : mEvents[j].voice # mine[c]
  BY <1>2 DEF State, Timetable
<1>4. mActive \in [Voice -> BOOLEAN]
  BY DEF State, TypeOK
<1>5. \A v : v # mine[c] => mActive'[v] = mActive[v]
  BY <1>4
<1> QED BY <1>1, <1>3, <1>5

LEMMA ClientGood ==
  ASSUME State, NEW c \in Client, ClientCalls(c) \/ ClientGoesOn(c),
         UNCHANGED <<seq, begun, late>>,
         NEW i \in Seq(Voice), NEW a \in Seq(Voice), NEW f \in Seq(Voice), NEW m \in Nat,
         Good(i, a, f, m)
  PROVE  \E i2, a2, f2 \in Seq(Voice), m2 \in Nat : Good(i2, a2, f2, m2)'
<1>1. /\ UNCHANGED <<apc, voice, previousVoice, done>>
      /\ UNCHANGED <<mEvents, mNextEvent, mMasterTime, blockStartTime, mOnOffsetFrames, begun, late>>
  BY DEF ClientCalls, ClientGoesOn, LockFree, GetVoice, AllocatePolyphony, TriggerOn,
         PushMine, PrintedFree, PrintQueued, PrintEnd, seq, avars
<1>2. /\ Held(i, a, f) /\ Apart(i, a, f) /\ Owned(i, a, f)
      /\ Walking(a, m) /\ Swept(a, m) /\ OnTime(i, a, m)
  BY DEF Good, ThreeLists
<1>3. /\ Distinct(i) /\ Distinct(a) /\ Distinct(f)
      /\ Linked(next, mVoicesToInsert, i) /\ Linked(next, mActiveVoices, a)
      /\ Linked(next, mFreeVoices, f)
  BY <1>2 DEF Held, Apart
<1>4. Coming' = Coming
  BY <1>1 DEF Coming
<1>5. /\ Mine \subseteq allocated /\ Coming \subseteq allocated /\ Mine \cap Coming = {}
      /\ Listed(i, a, f) \subseteq allocated /\ allocated \subseteq Voice
      /\ \A v \in Voice \ allocated : next[v] = Null
  BY <1>2, HeldVoices DEF Owned, State, TypeOK
<1>6. next \in [Voice -> Link] /\ mine \in [Client -> Link]
  BY DEF State, TypeOK
<1>7. CASE \/ \E call \in {"get", "allocate", "print"} : LockFree(c, call)
           \/ PrintedFree(c) \/ PrintQueued(c) \/ PrintEnd(c)
  <2>1. UNCHANGED <<next, mVoicesToInsert, mActiveVoices, mFreeVoices, mActive, allocated, mine>>
    BY <1>7 DEF LockFree, PrintedFree, PrintQueued, PrintEnd, links
  <2>2. Mine' = Mine
    BY <2>1 DEF Mine
  <2>3. ThreeLists(i, a, f)'
    BY <1>2, <1>4, <2>1, <2>2 DEF ThreeLists, Held, Apart, Owned
  <2>4. Walking(a, m)' /\ Swept(a, m)' /\ OnTime(i, a, m)'
    BY <1>1, <1>2, <2>1, Unnoticed
  <2> QED BY <2>3, <2>4 DEF Good
<1>8. CASE GetVoice(c)
  <2>1. /\ NewVoice \in Voice /\ NewVoice \notin allocated /\ NewVoice # Null
        /\ allocated' = allocated \cup {NewVoice}
    BY <1>5, <1>8, NewVoiceIs DEF GetVoice, Allocate
  <2>2. /\ UNCHANGED <<next, mVoicesToInsert, mActiveVoices, mFreeVoices, mActive>>
        /\ cpc[c] = "get" /\ mine' = [mine EXCEPT ![c] = NewVoice]
    BY <1>8 DEF GetVoice, Move, links
  <2>3. mine[c] = Null
    BY <2>2 DEF State, Holding
  <2>4. Mine' = (Mine \ {mine[c]}) \cup ({NewVoice} \ {Null})
    BY <2>2, <2>3, MineIs
  <2>5. Mine' = Mine \cup {NewVoice}
    BY <2>1, <2>3, <2>4, NullAssumption DEF Mine
  <2>6. Owned(i, a, f)'
    <3>1. /\ Listed(i, a, f) \cap Mine' = {} /\ Listed(i, a, f) \cap Coming' = {}
          /\ allocated' = Listed(i, a, f) \cup Mine' \cup Coming'
      BY <1>2, <1>4, <1>5, <2>1, <2>5 DEF Owned
    <3>2. \A v \in Voice \ allocated' : next'[v] = Null
      BY <1>5, <2>1, <2>2
    <3> QED BY <3>1, <3>2 DEF Owned, Listed
  <2>7. ThreeLists(i, a, f)'
    BY <1>2, <2>2, <2>6 DEF ThreeLists, Held, Apart
  <2>8. Walking(a, m)' /\ Swept(a, m)' /\ OnTime(i, a, m)'
    BY <1>1, <1>2, <2>2, Unnoticed
  <2> QED BY <2>7, <2>8 DEF Good
<1>9. CASE AllocatePolyphony(c)
  <2>0. /\ NewVoice \in Voice /\ NewVoice \notin allocated /\ NewVoice # Null
        /\ allocated' = allocated \cup {NewVoice}
    BY <1>5, <1>9, NewVoiceIs DEF AllocatePolyphony, Allocate
  <2> PICK v \in Voice : v = NewVoice
    BY <2>0
  <2> DEFINE f2 == Joined(f, <<v>>)
  <2>1. v \notin allocated /\ v # Null /\ allocated' = allocated \cup {v}
    BY <2>0
  <2>2. /\ UNCHANGED <<mVoicesToInsert, mActiveVoices, mActive, mine>>
        /\ \/ mFreeVoices = Null /\ mFreeVoices' = v /\ next' = next
           \/ /\ mFreeVoices # Null /\ mFreeVoices' = mFreeVoices
              /\ next' = [next EXCEPT ![LastOf(mFreeVoices)] = v]
    BY <1>9 DEF AllocatePolyphony
  <2>3. /\ mFreeVoices = Null <=> Len(f) = 0
        /\ Len(f) # 0 => LastOf(mFreeVoices) = f[Len(f)]
    BY <1>3, MembersAre
  <2>4. v \notin Cells(f) /\ v \notin Cells(i) /\ v \notin Cells(a) /\ v \notin Mine
        /\ v \notin Coming
    BY <1>5, <2>1 DEF Listed
  <2>5. Len(f) \in Nat /\ (Len(f) # 0 => Len(f) \in 1 .. Len(f))
    BY ListShape
  <2>6. Len(f) # 0 => f[Len(f)] \in Voice /\ f[Len(f)] \in Cells(f) /\ f[Len(f)] # v
    BY <2>4, <2>5, ListShape DEF Cells
  <2>7. /\ Len(f) # 0 => next'[f[Len(f)]] = v
        /\ \A w \in Voice : (Len(f) # 0 => w # f[Len(f)]) => next'[w] = next[w]
    BY <1>6, <2>2, <2>3, <2>6
  <2>8. next'[v] = Null
    BY <1>5, <2>1, <2>6, <2>7
  <2>9. \A j \in 1 .. Len(f) : j # Len(f) => next'[f[j]] = next[f[j]]
    <3>1. \A j \in 1 .. Len(f) : j # Len(f) => f[j] # f[Len(f)] /\ f[j] \in Voice
      BY <1>3, <2>5, ListShape DEF Distinct
    <3> QED BY <2>7, <3>1
  <2>10. /\ f2 \in Seq(Voice) /\ Distinct(f2)
         /\ Linked(next', IF Len(f) = 0 THEN v ELSE mFreeVoices, f2)
         /\ Cells(f2) = Cells(f) \cup {v}
    BY <1>3, <2>1, <2>4, <2>7, <2>8, <2>9, Extended
  <2> HIDE DEF f2
  <2>11. Linked(next', mFreeVoices', f2)
    BY <2>2, <2>3, <2>10
  <2>12. \A w \in Cells(i) \cup Cells(a) : next'[w] = next[w]
    <3>1. \A w \in Cells(i) \cup Cells(a) : w \in Voice /\ w \notin Cells(f)
      BY <1>2, ListShape DEF Apart, Cells
    <3> QED BY <2>6, <2>7, <3>1
  <2>13. Linked(next', mVoicesToInsert, i) /\ Linked(next', mActiveVoices, a)
    BY <1>3, <2>12, StaysLinked
  <2>14. Held(i, a, f2)'
    BY <2>2, <2>10, <2>11, <2>13 DEF Held
  <2>15. Apart(i, a, f2)'
    BY <1>2, <2>4, <2>10 DEF Apart
  <2>16. Listed(i, a, f2) = Listed(i, a, f) \cup {v}
    BY <2>10 DEF Listed
  <2>17. Owned(i, a, f2)'
    <3>1. Mine' = Mine
      BY <2>2 DEF Mine
    <3>2. /\ Listed(i, a, f2) \cap Mine' = {} /\ Listed(i, a, f2) \cap Coming' = {}
          /\ allocated' = Listed(i, a, f2) \cup Mine' \cup Coming'
      BY <1>2, <1>4, <2>1, <2>4, <2>16, <3>1 DEF Owned
    <3>3. \A w \in Voice \ allocated' : next'[w] = Null
      <4>1. Len(f) # 0 => f[Len(f)] \in allocated
        BY <1>5, <2>6 DEF Listed
      <4> QED BY <1>5, <2>1, <2>7, <4>1
    <3> QED BY <3>2, <3>3 DEF Owned, Listed
  <2>18. Walking(a, m)' /\ Swept(a, m)' /\ OnTime(i, a, m)'
    BY <1>1, <1>2, <2>2, Unnoticed
  <2>19. Good(i, a, f2, m)'
    BY <2>14, <2>15, <2>17, <2>18 DEF Good, ThreeLists
  <2> QED BY <2>10, <2>19
<1>10. CASE TriggerOn(c)
  <2>1. /\ UNCHANGED <<next, mVoicesToInsert, mActiveVoices, mFreeVoices, allocated, mine>>
        /\ cpc[c] = "has" /\ mActive' = [mActive EXCEPT ![mine[c]] = TRUE]
    BY <1>10 DEF TriggerOn, Move, links
  <2>2. mine[c] # Null
    BY <2>1 DEF State, Holding
  <2>3. Mine' = Mine
    BY <2>1 DEF Mine
  <2>4. ThreeLists(i, a, f)'
    BY <1>2, <1>4, <2>1, <2>3 DEF ThreeLists, Held, Apart, Owned
  <2>5. Walking(a, m)' /\ Swept(a, m)' /\ OnTime(i, a, m)'
    <3>1. /\ \A v \in Cells(a) : mActive'[v] = mActive[v]
          /\ \A j \in 1 .. mNextEvent : mActive'[mEvents[j].voice] = mActive[mEvents[j].voice]
      BY <1>2, <2>1, <2>2, OthersActive
    <3> QED BY <1>1, <1>2, <3>1, Unnoticed
  <2> QED BY <2>4, <2>5 DEF Good
<1>11. CASE PushMine(c)
  <2>1. /\ UNCHANGED <<mActiveVoices, mFreeVoices, mActive, allocated>>
        /\ next' = [next EXCEPT ![mine[c]] = mVoicesToInsert] /\ mVoicesToInsert' = mine[c]
        /\ mine' = [mine EXCEPT ![c] = Null] /\ cpc[c] = "push"
    BY <1>11 DEF PushMine, Push, Move
  <2>2. mine[c] # Null
    BY <2>1 DEF State, Holding
  <2> PICK v \in Voice : v = mine[c]
    BY <1>6, <2>2 DEF Link
  <2> DEFINE i2 == Joined(<<v>>, i)
  <2>3. v \in Mine /\ v \in allocated
    BY <1>5, <2>2, HeldVoices
  <2>4. Mine' = (Mine \ {v}) \cup ({Null} \ {Null})
    BY <2>1, MineIs
  <2>5. v \notin Cells(i) /\ v \notin Cells(a) /\ v \notin Cells(f) /\ v \notin Coming
    BY <1>2, <1>5, <2>3 DEF Owned, Listed
  <2>6. next'[v] = mVoicesToInsert /\ \A w : w # v => next'[w] = next[w]
    BY <1>6, <2>1, <2>3
  <2>7. \A w \in Cells(i) \cup Cells(a) \cup Cells(f) : next'[w] = next[w]
    BY <2>5, <2>6
  <2>8. /\ i2 \in Seq(Voice) /\ Distinct(i2) /\ Linked(next', v, i2)
        /\ Cells(i2) = {v} \cup Cells(i)
    <3>1. Linked(next', mVoicesToInsert, i)
      BY <1>3, <2>7, StaysLinked
    <3> QED BY <1>3, <2>5, <2>6, <3>1, Pushed
  <2> HIDE DEF i2
  <2>9. Linked(next', mActiveVoices, a) /\ Linked(next', mFreeVoices, f)
    BY <1>3, <2>7, StaysLinked
  <2>10. Held(i2, a, f)' /\ Apart(i2, a, f)'
    BY <1>2, <2>1, <2>5, <2>8, <2>9 DEF Held, Apart
  <2>11. Owned(i2, a, f)'
    <3>1. /\ Listed(i2, a, f) = Listed(i, a, f) \cup {v}
          /\ Mine' = Mine \ {v}
      BY <2>4, <2>8 DEF Listed
    <3>2. /\ Listed(i2, a, f) \cap Mine' = {} /\ Listed(i2, a, f) \cap Coming' = {}
          /\ allocated' = Listed(i2, a, f) \cup Mine' \cup Coming'
      BY <1>2, <1>4, <2>1, <2>3, <2>5, <3>1 DEF Owned
    <3>3. \A w \in Voice \ allocated' : next'[w] = Null
      BY <1>5, <2>1, <2>3, <2>6
    <3> QED BY <3>2, <3>3 DEF Owned, Listed
  <2>12. Walking(a, m)' /\ Swept(a, m)' /\ OnTime(i2, a, m)'
    BY <1>1, <1>2, <2>1, <2>8, Unnoticed
  <2>13. Good(i2, a, f, m)'
    BY <2>10, <2>11, <2>12 DEF Good, ThreeLists
  <2> QED BY <2>8, <2>13
<1> QED BY <1>7, <1>8, <1>9, <1>10, <1>11 DEF ClientCalls, ClientGoesOn

LEMMA GraphicsGood ==
  ASSUME State, FrameBegin \/ DrawVoice, UNCHANGED <<seq, begun, late>>,
         NEW i \in Seq(Voice), NEW a \in Seq(Voice), NEW f \in Seq(Voice), NEW m \in Nat,
         Good(i, a, f, m)
  PROVE  Good(i, a, f, m)'
<1>1. /\ UNCHANGED <<mEvents, mNextEvent, mMasterTime, blockStartTime, mOnOffsetFrames>>
      /\ UNCHANGED <<apc, voice, previousVoice, done, mine, allocated>>
      /\ UNCHANGED <<next, mVoicesToInsert, mActiveVoices, mFreeVoices>>
      /\ \/ mActive' = mActive
         \/ \E b \in BOOLEAN : mActive' = [mActive EXCEPT ![shown] = mActive[shown] /\ b]
  BY DEF FrameBegin, DrawVoice, MayFree, seq, avars, cvars, links
<1>2. /\ Held(i, a, f) /\ Apart(i, a, f) /\ Owned(i, a, f)
      /\ Walking(a, m) /\ Swept(a, m) /\ OnTime(i, a, m)
  BY DEF Good, ThreeLists
<1>3. Mine' = Mine /\ Coming' = Coming
  BY <1>1 DEF Mine, Coming
<1>4. ThreeLists(i, a, f)'
  BY <1>1, <1>2, <1>3 DEF ThreeLists, Held, Apart, Owned
<1>5. \A v \in Voice : mActive'[v] => mActive[v]
  BY <1>1 DEF State, TypeOK
<1>6. \A v \in Cells(a) : mActive'[v] => mActive[v]
  BY <1>5, ListShape DEF Cells
<1>7. \A j \in 1 .. mNextEvent : mActive'[mEvents[j].voice] => mActive[mEvents[j].voice]
  <2>1. \A j \in 1 .. mNextEvent : mEvents[j].voice \in Voice
    BY EventShape DEF State, Timetable
  <2> QED BY <1>5, <2>1
<1>8. Walking(a, m)' /\ Swept(a, m)' /\ OnTime(i, a, m)'
  BY <1>1, <1>2, <1>6, <1>7, Unnoticed
<1> QED BY <1>4, <1>8 DEF Good

LEMMA AddGood ==
  ASSUME State, NEW start \in StartTimes, Add(start),
         NEW i \in Seq(Voice), NEW a \in Seq(Voice), NEW f \in Seq(Voice), NEW m \in Nat,
         Good(i, a, f, m)
  PROVE  Good(i, a, f, m)'
<1>1. /\ UNCHANGED <<next, mVoicesToInsert, mActiveVoices, mFreeVoices, mActive, mine>>
      /\ UNCHANGED <<apc, voice, previousVoice, done, mNextEvent>>
  BY DEF Add, links, avars
<1>2. /\ mNextEvent = 0 /\ NewVoice \in Voice /\ NewVoice \notin allocated
      /\ allocated' = allocated \cup {NewVoice}
  BY AddIs
<1>3. /\ Held(i, a, f) /\ Apart(i, a, f) /\ Owned(i, a, f) /\ Walking(a, m) /\ Swept(a, m)
  BY DEF Good, ThreeLists
<1>4. Mine' = Mine /\ Coming' = Coming \cup {NewVoice}
  BY <1>1, ComingGrows DEF Mine
<1>5. Held(i, a, f)' /\ Apart(i, a, f)'
  BY <1>1, <1>3 DEF Held, Apart
<1>6. Mine \subseteq allocated /\ Listed(i, a, f) \subseteq allocated
  BY <1>3, HeldVoices DEF Owned
<1>7. Owned(i, a, f)'
  <2>1. /\ Listed(i, a, f) \cap Mine' = {} /\ Listed(i, a, f) \cap Coming' = {}
        /\ allocated' = Listed(i, a, f) \cup Mine' \cup Coming'
    BY <1>2, <1>3, <1>4, <1>6 DEF Owned
  <2>2. \A v \in Voice \ allocated' : next'[v] = Null
    BY <1>1, <1>2, <1>3 DEF Owned
  <2> QED BY <2>1, <2>2 DEF Owned, Listed
<1>8. Walking(a, m)' /\ Swept(a, m)' /\ OnTime(i, a, m)'
  BY <1>1, <1>2, <1>3 DEF Walking, Swept, OnTime
<1> QED BY <1>5, <1>7, <1>8 DEF Good, ThreeLists

-------------------------------------------------------------------------------
(* The audio thread begins a block. *)

\* A voice whose offset was the whole last block is due at the start of this one.
LEMMA BlockGood ==
  ASSUME State, BlockBegin,
         NEW i \in Seq(Voice), NEW a \in Seq(Voice), NEW f \in Seq(Voice), NEW m \in Nat,
         Good(i, a, f, m)
  PROVE  Good(i, a, f, m)'
<1>1. /\ UNCHANGED <<next, mVoicesToInsert, mActiveVoices, mFreeVoices, mActive, mine>>
      /\ UNCHANGED <<allocated, voice, previousVoice, done, mEvents, mNextEvent>>
      /\ UNCHANGED <<mOnOffsetFrames, begun, late>>
      /\ apc = "idle" /\ apc' = "events"
      /\ blockStartTime' = mMasterTime
  BY DEF BlockBegin, links, cvars
<1>2. /\ Held(i, a, f) /\ Apart(i, a, f) /\ Owned(i, a, f)
      /\ Walking(a, m) /\ Swept(a, m) /\ OnTime(i, a, m)
  BY DEF Good, ThreeLists
<1>3. Mine' = Mine /\ Coming' = Coming
  BY <1>1 DEF Mine, Coming
<1>4. ThreeLists(i, a, f)'
  BY <1>1, <1>2, <1>3 DEF ThreeLists, Held, Apart, Owned
<1>5. Walking(a, m)' /\ Swept(a, m)'
  BY <1>1, <1>2 DEF Walking, Swept
<1>6. OnTime(i, a, m)'
  <2>1. ASSUME NEW j \in 1 .. mNextEvent, Passed(mEvents[j])
        PROVE  DueNow(mEvents[j])'
    <3>1. /\ FramesPerBuffer \in Nat /\ FramesPerBuffer > 0 /\ mMasterTime \in Nat
          /\ mMasterTime + 0 * Ticks = mMasterTime
      BY TimeIs DEF State, TypeOK
    <3> QED BY <1>1, <2>1, <3>1 DEF DueNow, Passed, Near
  <2> QED BY <1>1, <1>2, <2>1 DEF OnTime
<1> QED BY <1>4, <1>5, <1>6 DEF Good

LEMMA EventsDoneGood ==
  ASSUME State, EventsDone,
         NEW i \in Seq(Voice), NEW a \in Seq(Voice), NEW f \in Seq(Voice), NEW m \in Nat,
         Good(i, a, f, m)
  PROVE  Good(i, a, f, m)'
<1>1. /\ UNCHANGED <<next, mVoicesToInsert, mActiveVoices, mFreeVoices, mActive, mine>>
      /\ UNCHANGED <<allocated, voice, previousVoice, done, mEvents, mNextEvent>>
      /\ UNCHANGED <<mMasterTime, blockStartTime, mOnOffsetFrames, begun, late>>
      /\ apc = "events" /\ apc' = "insert"
  BY DEF EventsDone, links, cvars, seq
<1>2. /\ Held(i, a, f) /\ Apart(i, a, f) /\ Owned(i, a, f)
      /\ Walking(a, m) /\ Swept(a, m) /\ OnTime(i, a, m)
  BY DEF Good, ThreeLists
<1>3. Mine' = Mine /\ Coming' = Coming
  BY <1>1 DEF Mine, Coming
<1>4. ThreeLists(i, a, f)'
  BY <1>1, <1>2, <1>3 DEF ThreeLists, Held, Apart, Owned
<1>5. Walking(a, m)' /\ Swept(a, m)'
  BY <1>1, <1>2 DEF Walking, Swept
<1>6. OnTime(i, a, m)'
  <2>1. \A j \in 1 .. mNextEvent : DueNow(mEvents[j]) => DueNow(mEvents[j])'
    BY <1>1 DEF DueNow, Near
  <2> QED BY <1>1, <1>2, <2>1 DEF OnTime
<1> QED BY <1>4, <1>5, <1>6 DEF Good

\* The offset of an event is counted, roughly, from the start of its block.
LEMMA TriggerGood ==
  ASSUME State, TriggerEvent,
         NEW i \in Seq(Voice), NEW a \in Seq(Voice), NEW f \in Seq(Voice), NEW m \in Nat,
         Good(i, a, f, m)
  PROVE  \E i2 \in Seq(Voice) : Good(i2, a, f, m)'
<1>1. /\ Len(mEvents) \in Nat /\ mNextEvent \in 0 .. Len(mEvents)
      /\ \A j \in 1 .. Len(mEvents) : mEvents[j].voice \in Voice /\ mEvents[j].start \in Nat
      /\ \A j, l \in 1 .. Len(mEvents) : mEvents[j].voice = mEvents[l].voice => j = l
  BY EventShape DEF State, Timetable
<1>2. mNextEvent < Len(mEvents) /\ mEvents[mNextEvent + 1].start <= mMasterTime
  BY DEF TriggerEvent, Due, EventsLeft
<1>3. PICK k \in 1 .. Len(mEvents) : k = mNextEvent + 1
  BY <1>1, <1>2
<1>4. PICK v \in Voice : v = mEvents[k].voice
  BY <1>1
<1>5. /\ UNCHANGED <<mActiveVoices, mFreeVoices, mine, allocated, apc, voice, previousVoice>>
      /\ UNCHANGED <<done, mEvents, mMasterTime, blockStartTime, begun, late>>
      /\ apc = "events" /\ mNextEvent' = mNextEvent + 1
      /\ \E t \in Rounded(mEvents[k].start - blockStartTime) :
           mOnOffsetFrames' = [mOnOffsetFrames EXCEPT ![v] = Truncated(t)]
      /\ mActive' = [mActive EXCEPT ![v] = TRUE]
      /\ next' = [next EXCEPT ![v] = mVoicesToInsert] /\ mVoicesToInsert' = v
  BY <1>3, <1>4 DEF TriggerEvent, Push, cvars, avars
<1>6. /\ Held(i, a, f) /\ Apart(i, a, f) /\ Owned(i, a, f)
      /\ Walking(a, m) /\ Swept(a, m) /\ OnTime(i, a, m)
  BY DEF Good, ThreeLists
<1>7. /\ Distinct(i) /\ Linked(next, mVoicesToInsert, i)
      /\ Linked(next, mActiveVoices, a) /\ Linked(next, mFreeVoices, f)
  BY <1>6 DEF Held, Apart
<1>8. v \in Coming /\ Coming' = Coming \ {v}
  BY <1>2, <1>3, <1>4, <1>5, ComingIs
<1>9. Mine' = Mine /\ Mine \cap Coming = {} /\ Coming \subseteq allocated
  BY <1>5, HeldVoices DEF Mine
<1>10. v \notin Cells(i) /\ v \notin Cells(a) /\ v \notin Cells(f) /\ v \notin Mine
  BY <1>6, <1>8, <1>9 DEF Owned, Listed
<1>11. next'[v] = mVoicesToInsert /\ \A w : w # v => next'[w] = next[w]
  BY <1>5 DEF State, TypeOK
<1>12. /\ Linked(next', mVoicesToInsert, i)
       /\ Linked(next', mActiveVoices, a) /\ Linked(next', mFreeVoices, f)
  <2>1. /\ \A w \in Cells(i) : next'[w] = next[w]
        /\ \A w \in Cells(a) : next'[w] = next[w]
        /\ \A w \in Cells(f) : next'[w] = next[w]
    BY <1>10, <1>11
  <2> QED BY <1>7, <2>1, StaysLinked
<1> DEFINE i2 == Joined(<<v>>, i)
<1>13. /\ i2 \in Seq(Voice) /\ Distinct(i2) /\ Linked(next', v, i2)
       /\ Cells(i2) = {v} \cup Cells(i)
  BY <1>7, <1>10, <1>11, <1>12, Pushed
<1> HIDE DEF i2
<1>14. Held(i2, a, f)' /\ Apart(i2, a, f)'
  BY <1>5, <1>6, <1>10, <1>12, <1>13 DEF Held, Apart
<1>15. Owned(i2, a, f)'
  <2>1. Listed(i2, a, f) = Listed(i, a, f) \cup {v}
    BY <1>13 DEF Listed
  <2>2. /\ Listed(i2, a, f) \cap Mine' = {} /\ Listed(i2, a, f) \cap Coming' = {}
        /\ allocated' = Listed(i2, a, f) \cup Mine' \cup Coming'
    BY <1>5, <1>6, <1>8, <1>9, <1>10, <2>1 DEF Owned
  <2>3. \A w \in Voice \ allocated' : next'[w] = Null
    BY <1>5, <1>6, <1>8, <1>9, <1>11 DEF Owned
  <2> QED BY <2>2, <2>3 DEF Owned, Listed
<1>16. Walking(a, m)' /\ Swept(a, m)'
  BY <1>5, <1>6 DEF Walking, Swept
<1>17. DueNow(mEvents[k])'
  <2>1. mEvents[k].start >= blockStartTime
    <3>1. started /\ k \in mNextEvent + 1 .. Len(mEvents)
      BY <1>1, <1>3, <1>5 DEF State, NoneOverdue
    <3> QED BY <1>5, <3>1 DEF State, NoneOverdue
  <2> DEFINE start == mEvents[k].start
             size == FramesPerBuffer * Ticks
  <2>2. /\ start \in Nat /\ mMasterTime \in Nat /\ blockStartTime \in Nat
        /\ start <= mMasterTime /\ start >= blockStartTime
        /\ mMasterTime <= blockStartTime + size + Rounding
    BY <1>1, <1>2, <1>3, <2>1, TimeIs DEF State, TypeOK, NoneOverdue
  <2>3. /\ FramesPerBuffer \in Nat /\ Ticks \in Nat /\ Rounding \in Nat /\ Ticks > 0
        /\ 2 * Rounding < Ticks /\ size \in Nat /\ (FramesPerBuffer + 1) * Ticks = size + Ticks
    BY TimeIs
  <2>4. PICK t \in Rounded(start - blockStartTime) : mOnOffsetFrames'[v] = Truncated(t)
    BY <1>5 DEF State, TypeOK
  <2> HIDE DEF start, size
  <2>5. /\ t \in Int /\ -Ticks < t /\ t < size + Ticks
        /\ start - blockStartTime - Rounding <= t /\ t <= start - blockStartTime + Rounding
    BY <2>2, <2>3, <2>4 DEF Rounded
  <2> DEFINE offset == Truncated(t)
             behind == offset * Ticks
  <2>6. /\ offset \in Nat /\ behind \in Nat /\ t < behind + Ticks
        /\ behind = 0 \/ behind <= t
    <3>1. /\ Truncated(t) \in Nat
          /\ Truncated(t) = 0 \/ Truncated(t) * Ticks <= t
          /\ t < Truncated(t) * Ticks + Ticks
      BY <2>5, TruncatedIs
    <3>2. \A n \in Nat : n * Ticks \in Nat /\ (n = 0 => n * Ticks = 0)
      BY <2>3
    <3>3. offset \in Nat
      BY <3>1
    <3> HIDE DEF offset
    <3>4. behind \in Nat /\ (offset = 0 => behind = 0)
      BY <3>2, <3>3
    <3>5. t < behind + Ticks /\ (offset = 0 \/ behind <= t)
      BY <3>1 DEF offset
    <3> QED BY <3>3, <3>4, <3>5
  <2>7. offset \in 0 .. FramesPerBuffer /\ (offset = FramesPerBuffer => behind = size)
    <3>1. offset * Ticks < (FramesPerBuffer + 1) * Ticks
      BY <2>3, <2>5, <2>6
    <3>2. offset < FramesPerBuffer + 1
      BY <2>3, <2>6, <3>1, FewerFrames
    <3> QED BY <2>3, <2>6, <3>2 DEF size
  <2> HIDE DEF offset, behind
  <2>8. /\ blockStartTime + behind <= start + 2 * Rounding
        /\ blockStartTime + behind > start - Ticks - Rounding
    BY <2>2, <2>3, <2>5, <2>6
  <2>9. offset = FramesPerBuffer => /\ mMasterTime <= start + 2 * Rounding
                                    /\ mMasterTime > start - Ticks - Rounding
    BY <2>2, <2>3, <2>5, <2>6, <2>7
  <2>10. /\ mOnOffsetFrames'[mEvents[k].voice] = offset /\ offset * Ticks = behind
         /\ start = mEvents[k].start
    BY <1>4, <2>4 DEF offset, behind, start
  <2> QED BY <1>5, <2>7, <2>8, <2>9, <2>10 DEF DueNow, Near
<1>18. OnTime(i2, a, m)'
  <2> SUFFICES ASSUME NEW j \in 1 .. mNextEvent + 1,
                      mActive'[mEvents[j].voice], mEvents[j].voice \notin begun \cup late
               PROVE  \/ mEvents[j].voice \in Cells(i2) /\ DueNow(mEvents[j])'
                      \/ \E p \in 1 .. Len(a) : a[p] = mEvents[j].voice /\ DueNow(mEvents[j])'
    BY <1>5 DEF OnTime
  <2>1. CASE j = k
    BY <1>4, <1>13, <1>17, <2>1
  <2>2. CASE j # k
    <3>1. j \in 1 .. mNextEvent /\ j \in 1 .. Len(mEvents)
      BY <1>1, <1>2, <1>3, <2>2
    <3>2. mEvents[j].voice # v
      BY <1>1, <1>4, <2>2, <3>1
    <3>3. /\ mActive'[mEvents[j].voice] = mActive[mEvents[j].voice]
          /\ mOnOffsetFrames'[mEvents[j].voice] = mOnOffsetFrames[mEvents[j].voice]
      BY <1>1, <1>5, <3>1, <3>2 DEF State, TypeOK
    <3>4. DueNow(mEvents[j]) => DueNow(mEvents[j])'
      BY <1>5, <3>3 DEF DueNow, Near
    <3>5. \/ mEvents[j].voice \in Cells(i) /\ DueNow(mEvents[j])
          \/ \E p \in 1 .. Len(a) : a[p] = mEvents[j].voice /\ DueNow(mEvents[j])
      BY <1>5, <1>6, <3>1, <3>3 DEF OnTime
    <3> QED BY <1>13, <3>4, <3>5
  <2> QED BY <2>1, <2>2
<1>19. Good(i2, a, f, m)'
  BY <1>14, <1>15, <1>16, <1>18 DEF Good, ThreeLists
<1> QED BY <1>13, <1>19

-------------------------------------------------------------------------------
(* render(): what its steps have in common *)

Unheard(v) == mActive[v] /\ v \notin begun \cup late

\* A voice that is still to be heard after a step was so before it.
LEMMA RenderIs ==
  ASSUME State, Render
  PROVE  /\ UNCHANGED <<mEvents, mNextEvent, mMasterTime, blockStartTime, mine, allocated>>
         /\ Mine' = Mine /\ Coming' = Coming
         /\ \A v \in Voice : mActive'[v] => mActive[v]
         /\ \A v \in Voice : Unheard(v)' => Unheard(v)
<1>1. UNCHANGED <<mEvents, mNextEvent, mMasterTime, blockStartTime, mine, allocated>>
  BY DEF Render, RenderStep, TryInsert, RenderVoice, TrySweep, Sweeping, SweepActive,
         SweepInside, SweepHead, SweepEnd, cvars
<1>2. \/ mActive' = mActive
      \/ \E b \in BOOLEAN : mActive' = [mActive EXCEPT ![voice] = mActive[voice] /\ b]
  BY DEF Render, RenderStep, TryInsert, RenderVoice, TrySweep, Sweeping, SweepActive,
         SweepInside, SweepHead, SweepEnd, MayFree
<1>3. \A v \in Voice : mActive'[v] => mActive[v]
  BY <1>2 DEF State, TypeOK
<1>4. begun \subseteq begun'
  BY DEF Render, Offset
<1>5. late \subseteq late' \cup begun'
  <2>1. late \subseteq late' \/ late' = late \ begun
    BY DEF Render, HeldBack
  <2> QED BY <1>4, <2>1
<1>6. \A v \in Voice : Unheard(v)' => Unheard(v)
  BY <1>3, <1>4, <1>5 DEF Unheard
<1>7. Mine' = Mine /\ Coming' = Coming
  BY <1>1 DEF Mine, Coming
<1> QED BY <1>1, <1>3, <1>6, <1>7

LEMMA EventVoices ==
  ASSUME State
  PROVE  \A j \in 1 .. mNextEvent : j \in DOMAIN mEvents /\ mEvents[j].voice \in Voice
<1>1. \A j \in 1 .. mNextEvent : j \in 1 .. Len(mEvents)
  BY EventShape DEF State, Timetable
<1> QED BY <1>1, EventShape DEF State, Timetable

\* The sweep takes away no voice that is still to be heard.
LEMMA SweepOnTime ==
  ASSUME State, Render, apc = "sweep", apc' \in {"idle", "sweep"},
         UNCHANGED mOnOffsetFrames,
         NEW i, NEW i2, NEW a, NEW a2, NEW m, NEW m2, OnTime(i, a, m),
         \A v \in Cells(a) : mActive[v] => v \in Cells(a2)
  PROVE  OnTime(i2, a2, m2)'
<1>1. /\ UNCHANGED <<mEvents, mNextEvent, mMasterTime, blockStartTime>>
      /\ \A v \in Voice : Unheard(v)' => Unheard(v)
  BY RenderIs
<1> SUFFICES ASSUME NEW j \in 1 .. mNextEvent, Unheard(mEvents[j].voice)'
             PROVE  \E p \in 1 .. Len(a2) : a2[p] = mEvents[j].voice /\ Passed(mEvents[j])'
  <2>1. ASSUME NEW j \in 1 .. mNextEvent, mActive'[mEvents[j].voice],
               mEvents[j].voice \notin begun' \cup late'
        PROVE  Unheard(mEvents[j].voice)'
    BY <1>1, <2>1 DEF Unheard
  <2> QED BY <1>1, <2>1 DEF OnTime
<1>2. Unheard(mEvents[j].voice)
  BY <1>1, EventVoices DEF Unheard
<1>3. PICK p \in 1 .. Len(a) : a[p] = mEvents[j].voice /\ Passed(mEvents[j])
  BY <1>2 DEF OnTime, Unheard
<1>4. mEvents[j].voice \in Cells(a2)
  BY <1>2, <1>3 DEF Cells, Unheard
<1>5. Passed(mEvents[j])'
  BY <1>1, <1>3 DEF Passed, Near
<1> QED BY <1>4, <1>5 DEF Cells

-------------------------------------------------------------------------------
(* The insertion *)

\* The insertion is put off: the voices of events in it are late.
LEMMA PutOffGood ==
  ASSUME State, Render, TryInsert, UNCHANGED links,
         NEW i \in Seq(Voice), NEW a \in Seq(Voice), NEW f \in Seq(Voice), NEW m \in Nat,
         Good(i, a, f, m), mVoiceToInsertLock # Null \/ Len(i) = 0
  PROVE  Good(i, a, f, 1)'
<1>1. /\ UNCHANGED <<next, mVoicesToInsert, mActiveVoices, mFreeVoices>>
      /\ apc = "insert" /\ apc' = "render" /\ voice' = mActiveVoices
      /\ UNCHANGED <<done, mOnOffsetFrames>>
      /\ mVoiceToInsertLock # Null
           => late' = late \cup {v \in Members(mVoicesToInsert) : Timed(v)}
  BY DEF TryInsert, links, Render, Offset, HeldBack
<1>2. /\ Held(i, a, f) /\ Apart(i, a, f) /\ Owned(i, a, f) /\ Swept(a, m) /\ OnTime(i, a, m)
  BY DEF Good, ThreeLists
<1>3. /\ UNCHANGED <<mEvents, mNextEvent, mMasterTime, blockStartTime, allocated>>
      /\ Mine' = Mine /\ Coming' = Coming
      /\ \A v \in Voice : Unheard(v)' => Unheard(v)
  BY RenderIs
<1>4. ThreeLists(i, a, f)'
  BY <1>1, <1>2, <1>3 DEF ThreeLists, Held, Apart, Owned
<1>5. Walking(a, 1)'
  <2>1. voice' = At(a, 1)
    BY <1>1, <1>2 DEF Held, Linked
  <2>2. 1 \in 1 .. Len(a) + 1
    BY ListShape
  <2> QED BY <1>1, <2>1, <2>2 DEF Walking
<1>6. Swept(a, 1)'
  BY <1>1, <1>2 DEF Swept
<1>7. Members(mVoicesToInsert) = Cells(i)
  BY <1>2, MembersAre DEF Held, Apart
<1>8. OnTime(i, a, 1)'
  <2> SUFFICES ASSUME NEW j \in 1 .. mNextEvent, Unheard(mEvents[j].voice)'
               PROVE  \E p \in 1 .. Len(a) : /\ a[p] = mEvents[j].voice
                                             /\ DueNow(mEvents[j])' /\ p >= 1
    <3>1. ASSUME NEW j \in 1 .. mNextEvent, mActive'[mEvents[j].voice],
                 mEvents[j].voice \notin begun' \cup late'
          PROVE  Unheard(mEvents[j].voice)'
      BY <1>3, <3>1 DEF Unheard
    <3> QED BY <1>1, <1>3, <3>1 DEF OnTime
  <2>1. Unheard(mEvents[j].voice) /\ Timed(mEvents[j].voice)
    BY <1>3, EventVoices DEF Unheard, Timed
  <2>2. mEvents[j].voice \notin Cells(i)
    <3>1. CASE mVoiceToInsertLock # Null
      <4>1. mEvents[j].voice \notin late'
        BY <1>3 DEF Unheard
      <4> QED BY <1>1, <1>7, <2>1, <3>1, <4>1
    <3>2. CASE Len(i) = 0
      BY <3>2 DEF Cells
    <3> QED BY <3>1, <3>2
  <2>3. PICK p \in 1 .. Len(a) : a[p] = mEvents[j].voice /\ DueNow(mEvents[j])
    BY <1>1, <1>2, <2>1, <2>2 DEF OnTime, Unheard
  <2>4. DueNow(mEvents[j])'
    BY <1>1, <1>3, <2>3 DEF DueNow, Near
  <2> QED BY <2>3, <2>4
<1> QED BY <1>4, <1>5, <1>6, <1>8 DEF Good

\* The voices to insert become active ones, and all of them are rendered.
LEMMA SpliceGood ==
  ASSUME State, Render, TryInsert, Splice, mVoicesToInsert # Null,
         NEW i \in Seq(Voice), NEW a \in Seq(Voice), NEW f \in Seq(Voice), NEW m \in Nat,
         Good(i, a, f, m)
  PROVE  \E i2, a2 \in Seq(Voice) : Good(i2, a2, f, 1)'
<1>1. /\ next' = [next EXCEPT ![LastOf(mVoicesToInsert)] = mActiveVoices]
      /\ mActiveVoices' = mVoicesToInsert /\ mVoicesToInsert' = Null
      /\ mFreeVoices' = mFreeVoices
      /\ apc = "insert" /\ apc' = "render" /\ voice' = mActiveVoices'
      /\ UNCHANGED <<done, mOnOffsetFrames>>
  BY DEF Splice, TryInsert, Render, Offset
<1>2. /\ Held(i, a, f) /\ Apart(i, a, f) /\ Owned(i, a, f) /\ Swept(a, m) /\ OnTime(i, a, m)
  BY DEF Good, ThreeLists
<1>3. /\ Distinct(i) /\ Distinct(a) /\ Linked(next, mVoicesToInsert, i)
      /\ Linked(next, mActiveVoices, a) /\ Linked(next, mFreeVoices, f)
      /\ Cells(i) \cap Cells(a) = {} /\ Cells(i) \cap Cells(f) = {}
  BY <1>2 DEF Held, Apart
<1>4. /\ UNCHANGED <<mEvents, mNextEvent, mMasterTime, blockStartTime, allocated>>
      /\ Mine' = Mine /\ Coming' = Coming
      /\ \A v \in Voice : Unheard(v)' => Unheard(v)
  BY RenderIs
<1>5. Len(i) # 0 /\ LastOf(mVoicesToInsert) = i[Len(i)]
  BY <1>3, MembersAre
<1>6. Len(i) \in Nat /\ Len(a) \in Nat /\ Len(i) \in 1 .. Len(i)
  BY <1>5, ListShape
<1>7. i[Len(i)] \in Cells(i) /\ i[Len(i)] \in Voice
  BY <1>6, ListShape DEF Cells
<1>8. /\ next'[i[Len(i)]] = mActiveVoices
      /\ \A w : w # i[Len(i)] => next'[w] = next[w]
  BY <1>1, <1>5, <1>7 DEF State, TypeOK
<1>9. Linked(next', mFreeVoices, f)
  <2>1. \A w \in Cells(f) : next'[w] = next[w]
    BY <1>3, <1>7, <1>8
  <2> QED BY <1>3, <2>1, StaysLinked
<1> DEFINE a2 == Joined(i, a)
           e == << >>
<1>10. Distinct(a2) /\ Linked(next', mVoicesToInsert, a2)
  <2>1. \A v \in Cells(i) \cup Cells(a) : v # i[Len(i)] => next'[v] = next[v]
    BY <1>8
  <2> QED BY <1>3, <1>5, <1>8, <2>1, Spliced
<1>11. /\ a2 \in Seq(Voice) /\ Len(a2) = Len(i) + Len(a) /\ Cells(a2) = Cells(i) \cup Cells(a)
  BY JoinedShape
<1>12. /\ e \in Seq(Voice) /\ Cells(e) = {} /\ Distinct(e) /\ Linked(next', Null, e)
  <2>1. e \in Seq(Voice) /\ Len(e) = 0
    BY EmptySeq
  <2> QED BY <2>1 DEF Cells, Distinct, Linked, At
<1> HIDE DEF a2, e
<1>13. Held(e, a2, f)' /\ Apart(e, a2, f)'
  BY <1>1, <1>2, <1>9, <1>10, <1>11, <1>12 DEF Held, Apart
<1>14. Owned(e, a2, f)'
  <2>1. Listed(e, a2, f) = Listed(i, a, f)
    BY <1>11, <1>12 DEF Listed
  <2>2. /\ Listed(e, a2, f) \cap Mine' = {} /\ Listed(e, a2, f) \cap Coming' = {}
        /\ allocated' = Listed(e, a2, f) \cup Mine' \cup Coming'
    BY <1>2, <1>4, <2>1 DEF Owned
  <2>3. i[Len(i)] \in allocated
    BY <1>2, <1>7 DEF Owned, Listed
  <2>4. \A w \in Voice \ allocated' : next'[w] = Null
    BY <1>2, <1>4, <1>8, <2>3 DEF Owned
  <2> QED BY <2>2, <2>4 DEF Owned, Listed
<1>15. Walking(a2, 1)'
  <2>1. voice' = At(a2, 1)
    BY <1>1, <1>10 DEF Linked
  <2>2. 1 \in 1 .. Len(a2) + 1
    BY <1>11, ListShape
  <2> QED BY <1>1, <2>1, <2>2 DEF Walking
<1>16. Swept(a2, 1)'
  BY <1>1, <1>2 DEF Swept
<1>17. OnTime(e, a2, 1)'
  <2> SUFFICES ASSUME NEW j \in 1 .. mNextEvent, Unheard(mEvents[j].voice)'
               PROVE  \E p \in 1 .. Len(a2) : /\ a2[p] = mEvents[j].voice
                                              /\ DueNow(mEvents[j])' /\ p >= 1
    <3>1. ASSUME NEW j \in 1 .. mNextEvent, mActive'[mEvents[j].voice],
                 mEvents[j].voice \notin begun' \cup late'
          PROVE  Unheard(mEvents[j].voice)'
      BY <1>4, <3>1 DEF Unheard
    <3> QED BY <1>1, <1>4, <3>1 DEF OnTime
  <2>1. Unheard(mEvents[j].voice)
    BY <1>4, EventVoices DEF Unheard
  <2>2. mEvents[j].voice \in Cells(i) \cup Cells(a) /\ DueNow(mEvents[j])
    BY <1>1, <1>2, <2>1 DEF OnTime, Unheard, Cells
  <2>3. DueNow(mEvents[j])'
    BY <1>1, <1>4, <2>2 DEF DueNow, Near
  <2>4. PICK p \in 1 .. Len(a2) : a2[p] = mEvents[j].voice
    BY <1>11, <2>2 DEF Cells
  <2>5. p >= 1
    BY <1>11, ListShape
  <2> QED BY <2>3, <2>4, <2>5
<1>18. Good(e, a2, f, 1)'
  BY <1>13, <1>14, <1>15, <1>16, <1>17 DEF Good, ThreeLists
<1> QED BY <1>11, <1>12, <1>18

-------------------------------------------------------------------------------
(* The voices, one after the other *)

\* A voice whose offset is the whole block is not heard in this block yet.
LEMMA RenderVoiceGood ==
  ASSUME State, Render, RenderVoice,
         NEW i \in Seq(Voice), NEW a \in Seq(Voice), NEW f \in Seq(Voice), NEW m \in Nat,
         Good(i, a, f, m)
  PROVE  Good(i, a, f, m + 1)'
<1>1. /\ UNCHANGED <<next, mVoicesToInsert, mActiveVoices, mFreeVoices, done>>
      /\ apc = "render" /\ apc' = "render" /\ voice # Null /\ voice' = next[voice]
  BY DEF RenderVoice, links
<1>2. /\ Held(i, a, f) /\ Apart(i, a, f) /\ Owned(i, a, f)
      /\ Walking(a, m) /\ Swept(a, m) /\ OnTime(i, a, m)
  BY DEF Good, ThreeLists
<1>3. /\ UNCHANGED <<mEvents, mNextEvent, mMasterTime, blockStartTime, allocated>>
      /\ Mine' = Mine /\ Coming' = Coming
      /\ \A v \in Voice : Unheard(v)' => Unheard(v)
  BY RenderIs
<1>4. ThreeLists(i, a, f)'
  BY <1>1, <1>2, <1>3 DEF ThreeLists, Held, Apart, Owned
<1>5. voice = At(a, m) /\ m \in 1 .. Len(a) /\ voice = a[m] /\ a[m] \in Voice
  BY <1>1, <1>2, ListShape DEF Walking
<1>6. Len(a) \in Nat /\ m + 1 \in 1 .. Len(a) + 1
  BY <1>5, ListShape
<1>7. voice' = At(a, m + 1)
  BY <1>1, <1>2, <1>5 DEF Held, Linked
<1>8. Walking(a, m + 1)' /\ Swept(a, m + 1)'
  BY <1>1, <1>2, <1>6, <1>7 DEF Walking, Swept
<1>9. /\ \A v : v # voice => mOnOffsetFrames'[v] = mOnOffsetFrames[v]
      /\ mActive[voice] => /\ mOnOffsetFrames'[voice] = 0
                           /\ Timed(voice) /\ mOnOffsetFrames[voice] < FramesPerBuffer
                                => voice \in begun'
  <2>1. CASE mActive[voice]
    <3>1. /\ mOnOffsetFrames' = [mOnOffsetFrames EXCEPT ![voice] = 0]
          /\ begun' = IF Timed(voice) /\ mOnOffsetFrames[voice] < FramesPerBuffer
                      THEN begun \cup {voice} ELSE begun
      BY <1>1, <2>1 DEF Render, Offset
    <3>2. mOnOffsetFrames \in [Voice -> Int]
      BY DEF State, TypeOK
    <3> QED BY <1>5, <3>1, <3>2
  <2>2. CASE ~mActive[voice]
    BY <2>2 DEF Render, Offset
  <2> QED BY <2>1, <2>2
<1>10. OnTime(i, a, m + 1)'
  <2> SUFFICES ASSUME NEW j \in 1 .. mNextEvent, Unheard(mEvents[j].voice)'
               PROVE  \E p \in 1 .. Len(a) :
                        /\ a[p] = mEvents[j].voice
                        /\ \/ DueNow(mEvents[j])' /\ p >= m + 1
                           \/ Passed(mEvents[j])' /\ p < m + 1
    <3>1. ASSUME NEW j \in 1 .. mNextEvent, mActive'[mEvents[j].voice],
                 mEvents[j].voice \notin begun' \cup late'
          PROVE  Unheard(mEvents[j].voice)'
      BY <1>3, <3>1 DEF Unheard
    <3> QED BY <1>1, <1>3, <3>1 DEF OnTime
  <2> DEFINE v == mEvents[j].voice
  <2>1. Unheard(v) /\ Timed(v) /\ v \in Voice
    BY <1>3, EventVoices DEF Unheard, Timed
  <2>2. PICK p \in 1 .. Len(a) :
          /\ a[p] = v
          /\ (DueNow(mEvents[j]) /\ p >= m) \/ (Passed(mEvents[j]) /\ p < m)
    BY <1>1, <1>2, <2>1 DEF OnTime, Unheard
  <2>3. CASE p = m
    <3>1. v = voice /\ mActive[voice] /\ voice \notin begun'
      BY <1>3, <1>5, <2>1, <2>2, <2>3 DEF Unheard
    <3>2. ~ (mOnOffsetFrames[voice] < FramesPerBuffer) /\ mOnOffsetFrames'[voice] = 0
      BY <1>9, <2>1, <3>1
    <3>3. DueNow(mEvents[j])
      BY <1>6, <2>2, <2>3
    <3>4. FramesPerBuffer \in Nat
      BY FramesAssumption
    <3>5. mOnOffsetFrames[voice] = FramesPerBuffer
      BY <3>1, <3>2, <3>3, <3>4 DEF DueNow
    <3>6. Near(mMasterTime, mEvents[j])
      BY <3>1, <3>3, <3>5 DEF DueNow
    <3>7. Passed(mEvents[j])'
      BY <1>3, <3>1, <3>2, <3>6 DEF Passed, Near
    <3>8. p < m + 1
      BY <1>6, <2>3
    <3> QED BY <2>2, <3>7, <3>8
  <2>4. CASE p # m
    <3>1. v # voice
      BY <1>2, <1>5, <2>2, <2>4 DEF Apart, Distinct
    <3>2. mOnOffsetFrames'[v] = mOnOffsetFrames[v]
      BY <1>9, <3>1
    <3>3. /\ DueNow(mEvents[j]) => DueNow(mEvents[j])'
          /\ Passed(mEvents[j]) => Passed(mEvents[j])'
      BY <1>3, <3>2 DEF DueNow, Passed, Near
    <3>4. (p >= m => p >= m + 1) /\ (p < m => p < m + 1)
      BY <1>6, <2>4
    <3> QED BY <2>2, <3>3, <3>4
  <2> QED BY <2>3, <2>4
<1> QED BY <1>4, <1>8, <1>10 DEF Good

\* When all voices are rendered, the walk has passed those of all events.
LEMMA TrySweepGood ==
  ASSUME State, Render, TrySweep,
         NEW i \in Seq(Voice), NEW a \in Seq(Voice), NEW f \in Seq(Voice), NEW m \in Nat,
         Good(i, a, f, m)
  PROVE  \E m2 \in Nat : Good(i, a, f, m2)'
<1>1. /\ UNCHANGED <<next, mVoicesToInsert, mActiveVoices, mFreeVoices, mActive>>
      /\ UNCHANGED <<mOnOffsetFrames>>
      /\ apc = "render" /\ voice = Null
      /\ \/ /\ apc' = "sweep" /\ voice' = mActiveVoices /\ previousVoice' = Null
            /\ done' = {v \in Members(mActiveVoices) : ~mActive[v]}
         \/ apc' = "idle" /\ UNCHANGED <<voice, previousVoice, done>>
  BY DEF TrySweep, links, Render, Offset
<1>2. /\ Held(i, a, f) /\ Apart(i, a, f) /\ Owned(i, a, f)
      /\ Walking(a, m) /\ Swept(a, m) /\ OnTime(i, a, m)
  BY DEF Good, ThreeLists
<1>3. /\ UNCHANGED <<mEvents, mNextEvent, mMasterTime, blockStartTime, allocated>>
      /\ Mine' = Mine /\ Coming' = Coming
      /\ \A v \in Voice : Unheard(v)' => Unheard(v)
  BY RenderIs
<1>4. ThreeLists(i, a, f)'
  BY <1>1, <1>2, <1>3 DEF ThreeLists, Held, Apart, Owned
<1>5. Len(a) \in Nat /\ m = Len(a) + 1
  <2>1. At(a, m) = Null /\ m \in 1 .. Len(a) + 1
    BY <1>1, <1>2 DEF Walking
  <2>2. m \notin 1 .. Len(a)
    BY <2>1, ListShape
  <2> QED BY <2>1, <2>2, ListShape
<1>6. \A m2 : OnTime(i, a, m2)'
  <2> SUFFICES ASSUME NEW j \in 1 .. mNextEvent, Unheard(mEvents[j].voice)'
               PROVE  \E p \in 1 .. Len(a) : a[p] = mEvents[j].voice /\ Passed(mEvents[j])'
    <3>1. ASSUME NEW j \in 1 .. mNextEvent, mActive'[mEvents[j].voice],
                 mEvents[j].voice \notin begun' \cup late'
          PROVE  Unheard(mEvents[j].voice)'
      BY <1>3, <3>1 DEF Unheard
    <3> QED BY <1>1, <1>3, <3>1 DEF OnTime
  <2>1. Unheard(mEvents[j].voice)
    BY <1>3, EventVoices DEF Unheard
  <2>2. PICK p \in 1 .. Len(a) :
          /\ a[p] = mEvents[j].voice
          /\ (DueNow(mEvents[j]) /\ p >= m) \/ (Passed(mEvents[j]) /\ p < m)
    BY <1>1, <1>2, <2>1 DEF OnTime, Unheard
  <2>3. ~ (p >= m)
    BY <1>5
  <2>4. Passed(mEvents[j])'
    BY <1>1, <1>3, <2>2, <2>3 DEF Passed, Near
  <2> QED BY <2>2, <2>4
<1>7. CASE apc' = "idle"
  <2>1. Walking(a, m)' /\ Swept(a, m)'
    BY <1>1, <1>2, <1>7 DEF Walking, Swept
  <2> QED BY <1>4, <1>6, <2>1 DEF Good
<1>8. CASE apc' = "sweep"
  <2>1. /\ voice' = mActiveVoices /\ previousVoice' = Null
        /\ done' = {v \in Members(mActiveVoices) : ~mActive[v]}
    BY <1>1, <1>8
  <2>2. Walking(a, 1)'
    <3>1. 1 \in 1 .. Len(a) + 1 /\ 1 - 1 \notin 1 .. Len(a)
      BY <1>5
    <3>2. voice' = At(a, 1) /\ previousVoice' = At(a, 1 - 1)
      BY <1>2, <2>1, <3>1, ListShape DEF Held, Linked
    <3> QED BY <3>1, <3>2 DEF Walking
  <2>3. Swept(a, 1)'
    <3>1. \A v \in done' : ~mActive'[v]
      BY <1>1, <2>1
    <3>2. \A p \in 1 .. Len(a) : ~ (p < 1)
      BY <1>5
    <3> QED BY <1>8, <3>1, <3>2 DEF Swept
  <2> QED BY <1>4, <1>6, <2>2, <2>3 DEF Good
<1> QED BY <1>1, <1>7, <1>8

-------------------------------------------------------------------------------
(* The sweep *)

LEMMA SweepActiveGood ==
  ASSUME State, Render, SweepActive,
         NEW i \in Seq(Voice), NEW a \in Seq(Voice), NEW f \in Seq(Voice), NEW m \in Nat,
         Good(i, a, f, m)
  PROVE  Good(i, a, f, m + 1)'
<1>1. /\ UNCHANGED <<next, mVoicesToInsert, mActiveVoices, mFreeVoices, mActive, done>>
      /\ apc = "sweep" /\ apc' = "sweep" /\ voice # Null /\ mActive[voice]
      /\ voice' = next[voice] /\ previousVoice' = voice /\ UNCHANGED mOnOffsetFrames
  BY DEF SweepActive, Sweeping, Render, Offset
<1>2. /\ Held(i, a, f) /\ Apart(i, a, f) /\ Owned(i, a, f)
      /\ Walking(a, m) /\ Swept(a, m) /\ OnTime(i, a, m)
  BY DEF Good, ThreeLists
<1>3. UNCHANGED allocated /\ Mine' = Mine /\ Coming' = Coming
  BY RenderIs
<1>4. ThreeLists(i, a, f)'
  BY <1>1, <1>2, <1>3 DEF ThreeLists, Held, Apart, Owned
<1>5. voice = At(a, m) /\ m \in 1 .. Len(a) /\ voice = a[m]
  BY <1>1, <1>2, ListShape DEF Walking
<1>6. Len(a) \in Nat /\ m + 1 \in 1 .. Len(a) + 1 /\ (m + 1) - 1 = m
  BY <1>5, ListShape
<1>7. Walking(a, m + 1)'
  <2>1. voice' = At(a, m + 1) /\ previousVoice' = At(a, (m + 1) - 1)
    BY <1>1, <1>2, <1>5, <1>6 DEF Held, Linked
  <2> QED BY <1>6, <2>1 DEF Walking
<1>8. Swept(a, m + 1)'
  <2>1. \A p \in 1 .. Len(a) : a[p] \in done => ~mActive[a[p]]
    BY <1>2 DEF Swept
  <2>2. \A p \in 1 .. Len(a) : p < m + 1 /\ a[p] \in done => p = 1
    <3>1. \A p \in 1 .. Len(a) : p < m + 1 => p < m \/ p = m
      BY <1>5, <1>6
    <3>2. a[m] \notin done
      BY <1>1, <1>5, <2>1
    <3> QED BY <1>2, <3>1, <3>2 DEF Swept
  <2> QED BY <1>1, <2>1, <2>2 DEF Swept
<1>9. OnTime(i, a, m + 1)'
  BY <1>1, <1>2, SweepOnTime
<1> QED BY <1>4, <1>7, <1>8, <1>9 DEF Good

LEMMA SweepEndGood ==
  ASSUME State, Render, SweepEnd,
         NEW i \in Seq(Voice), NEW a \in Seq(Voice), NEW f \in Seq(Voice), NEW m \in Nat,
         Good(i, a, f, m)
  PROVE  Good(i, a, f, m)'
<1>1. /\ UNCHANGED <<next, mVoicesToInsert, mActiveVoices, mFreeVoices, mActive>>
      /\ apc = "sweep" /\ apc' = "idle" /\ done' = {} /\ UNCHANGED mOnOffsetFrames
  BY DEF SweepEnd, links, Render, Offset
<1>2. /\ Held(i, a, f) /\ Apart(i, a, f) /\ Owned(i, a, f)
      /\ Walking(a, m) /\ Swept(a, m) /\ OnTime(i, a, m)
  BY DEF Good, ThreeLists
<1>3. UNCHANGED allocated /\ Mine' = Mine /\ Coming' = Coming
  BY RenderIs
<1>4. ThreeLists(i, a, f)'
  BY <1>1, <1>2, <1>3 DEF ThreeLists, Held, Apart, Owned
<1>5. Walking(a, m)' /\ Swept(a, m)'
  BY <1>1, <1>2 DEF Walking, Swept
<1>6. OnTime(i, a, m)'
  BY <1>1, <1>2, SweepOnTime
<1> QED BY <1>4, <1>5, <1>6 DEF Good

\* A finished voice behind the head is linked out and pushed on the free list.
LEMMA SweepInsideGood ==
  ASSUME State, Render, SweepInside,
         NEW i \in Seq(Voice), NEW a \in Seq(Voice), NEW f \in Seq(Voice), NEW m \in Nat,
         Good(i, a, f, m)
  PROVE  \E a2, f2 \in Seq(Voice) : Good(i, a2, f2, m)'
<1>1. /\ UNCHANGED <<mVoicesToInsert, mActiveVoices, mActive, done, previousVoice>>
      /\ apc = "sweep" /\ apc' = "sweep" /\ voice # Null /\ ~mActive[voice]
      /\ previousVoice # Null /\ UNCHANGED mOnOffsetFrames
      /\ next' = [next EXCEPT ![previousVoice] = next[voice], ![voice] = mFreeVoices]
      /\ mFreeVoices' = voice /\ voice' = next'[previousVoice]
  BY DEF SweepInside, Sweeping, Retire, Render, Offset
<1>2. /\ Held(i, a, f) /\ Apart(i, a, f) /\ Owned(i, a, f)
      /\ Walking(a, m) /\ Swept(a, m) /\ OnTime(i, a, m)
  BY DEF Good, ThreeLists
<1>3. /\ Distinct(a) /\ Distinct(f) /\ Linked(next, mVoicesToInsert, i)
      /\ Linked(next, mActiveVoices, a) /\ Linked(next, mFreeVoices, f)
      /\ Cells(i) \cap Cells(a) = {} /\ Cells(a) \cap Cells(f) = {}
      /\ Cells(i) \cap Cells(f) = {}
  BY <1>2 DEF Held, Apart
<1>4. UNCHANGED allocated /\ Mine' = Mine /\ Coming' = Coming
  BY RenderIs
<1>5. /\ m \in 1 .. Len(a) /\ voice = a[m] /\ a[m] \in Voice
      /\ m - 1 \in 1 .. Len(a) /\ previousVoice = a[m - 1] /\ a[m - 1] \in Voice
  BY <1>1, <1>2, ListShape DEF Walking
<1>6. Len(a) \in Nat /\ m # 1 /\ m - 1 # m
  BY <1>5, ListShape
<1>7. a[m - 1] # a[m]
  BY <1>3, <1>5, <1>6 DEF Distinct
<1>8. a[m] \in Cells(a) /\ a[m - 1] \in Cells(a)
  BY <1>5 DEF Cells
<1>9. /\ next'[a[m]] = mFreeVoices /\ next'[a[m - 1]] = next[a[m]]
      /\ \A w : w # a[m] /\ w # a[m - 1] => next'[w] = next[w]
  <2>1. next' = [next EXCEPT ![a[m - 1]] = next[a[m]], ![a[m]] = mFreeVoices]
    BY <1>1, <1>5
  <2>2. DOMAIN next = Voice
    BY DEF State, TypeOK
  <2> DEFINE first == [next EXCEPT ![a[m - 1]] = next[a[m]]]
  <2>3. /\ DOMAIN first = Voice /\ first[a[m - 1]] = next[a[m]]
        /\ \A w : w # a[m - 1] => first[w] = next[w]
    BY <1>5, <2>2
  <2>4. next' = [first EXCEPT ![a[m]] = mFreeVoices]
    BY <2>1
  <2> HIDE DEF first
  <2>5. next'[a[m]] = mFreeVoices /\ \A w : w # a[m] => next'[w] = first[w]
    BY <1>5, <2>3, <2>4
  <2> QED BY <1>7, <2>3, <2>5
<1>10. Linked(next', mVoicesToInsert, i) /\ Linked(next', mFreeVoices, f)
  <2>1. /\ \A w \in Cells(i) : next'[w] = next[w]
        /\ \A w \in Cells(f) : next'[w] = next[w]
    BY <1>3, <1>8, <1>9
  <2> QED BY <1>3, <2>1, StaysLinked
<1> PICK v \in Voice : v = a[m]
  BY <1>5
<1> DEFINE a2 == Removed(a, m)
           f2 == Joined(<<v>>, f)
<1>11. /\ f2 \in Seq(Voice) /\ Distinct(f2) /\ Linked(next', v, f2)
       /\ Cells(f2) = {v} \cup Cells(f)
  <2>1. v \notin Cells(f) /\ next'[v] = mFreeVoices
    BY <1>3, <1>8, <1>9
  <2> QED BY <1>3, <1>10, <2>1, Pushed
<1>12. /\ Linked(next', mActiveVoices, a2) /\ next[a[m]] = At(a2, m)
       /\ \A j \in 1 .. m - 1 : a2[j] = a[j]
  <2>1. \A j \in 1 .. Len(a) : j # m /\ j + 1 # m => next'[a[j]] = next[a[j]]
    <3> TAKE j \in 1 .. Len(a)
    <3> HAVE j # m /\ j + 1 # m
    <3>1. j # m - 1
      BY <1>6
    <3>2. a[j] # a[m] /\ a[j] # a[m - 1]
      BY <1>3, <1>5, <3>1 DEF Distinct
    <3> QED BY <1>9, <3>2
  <2>2. m # 1 => next'[a[m - 1]] = next[a[m]]
    BY <1>9
  <2>3. Linked(next', IF m = 1 THEN next[a[m]] ELSE mActiveVoices, a2)
        /\ next[a[m]] = At(a2, m) /\ \A j \in 1 .. m - 1 : a2[j] = a[j]
    BY <1>3, <1>5, <2>1, <2>2, RemovedIsLinked
  <2> QED BY <1>6, <2>3
<1>13. /\ a2 \in Seq(Voice) /\ Len(a2) = Len(a) - 1 /\ Cells(a2) = Cells(a) \ {v}
       /\ Distinct(a2)
  BY <1>3, <1>5, RemovedShape
<1> HIDE DEF a2, f2
<1>14. Held(i, a2, f2)' /\ Apart(i, a2, f2)'
  <2>1. v \in Cells(a) /\ v \notin Cells(i) /\ v \notin Cells(f)
    BY <1>3, <1>8
  <2> QED BY <1>1, <1>2, <1>5, <1>10, <1>11, <1>12, <1>13, <2>1 DEF Held, Apart
<1>15. Owned(i, a2, f2)'
  <2>1. Listed(i, a2, f2) = Listed(i, a, f)
    BY <1>8, <1>11, <1>13 DEF Listed
  <2>2. /\ Listed(i, a2, f2) \cap Mine' = {} /\ Listed(i, a2, f2) \cap Coming' = {}
        /\ allocated' = Listed(i, a2, f2) \cup Mine' \cup Coming'
    BY <1>2, <1>4, <2>1 DEF Owned
  <2>3. a[m] \in allocated /\ a[m - 1] \in allocated
    BY <1>2, <1>8 DEF Owned, Listed
  <2>4. \A w \in Voice \ allocated' : next'[w] = Null
    BY <1>2, <1>4, <1>9, <2>3 DEF Owned
  <2> QED BY <2>2, <2>4 DEF Owned, Listed
<1>16. Walking(a2, m)'
  <2>1. voice' = At(a2, m)
    BY <1>1, <1>5, <1>9, <1>12
  <2>2. m - 1 \in 1 .. m - 1 /\ m - 1 \in 1 .. Len(a2) /\ m \in 1 .. Len(a2) + 1
    BY <1>5, <1>6, <1>13
  <2>3. previousVoice' = At(a2, m - 1)
    BY <1>1, <1>5, <1>12, <2>2 DEF At
  <2> QED BY <2>1, <2>2, <2>3 DEF Walking
<1>17. Swept(a2, m)'
  <2>1. \A w \in Cells(a) : w \in done => ~mActive[w]
    BY <1>2 DEF Swept, Cells
  <2>2. \A p \in 1 .. Len(a2) : a2[p] \in done => ~mActive[a2[p]]
    BY <1>13, <2>1 DEF Cells
  <2>3. ASSUME NEW p \in 1 .. Len(a2), p < m, a2[p] \in done PROVE p = 1
    <3>1. p \in 1 .. Len(a) /\ p \in 1 .. m - 1
      BY <1>5, <1>6, <1>13, <2>3
    <3> QED BY <1>2, <1>12, <2>3, <3>1 DEF Swept
  <2> QED BY <1>1, <2>2, <2>3 DEF Swept
<1>18. OnTime(i, a2, m)'
  <2>1. \A w \in Cells(a) : mActive[w] => w \in Cells(a2)
    BY <1>1, <1>5, <1>13
  <2> QED BY <1>1, <1>2, <2>1, SweepOnTime
<1>19. Good(i, a2, f2, m)'
  BY <1>14, <1>15, <1>16, <1>17, <1>18 DEF Good, ThreeLists
<1> QED BY <1>11, <1>13, <1>19

\* After a finished head the sweep goes on behind the new head.
LEMMA SweepHeadGood ==
  ASSUME State, Render, SweepHead,
         NEW i \in Seq(Voice), NEW a \in Seq(Voice), NEW f \in Seq(Voice), NEW m \in Nat,
         Good(i, a, f, m)
  PROVE  \E a2, f2 \in Seq(Voice), m2 \in Nat : Good(i, a2, f2, m2)'
<1>1. /\ UNCHANGED <<mVoicesToInsert, mActive, done>>
      /\ apc = "sweep" /\ apc' = "sweep" /\ voice # Null /\ ~mActive[voice]
      /\ previousVoice = Null /\ UNCHANGED mOnOffsetFrames
      /\ next' = [next EXCEPT ![voice] = mFreeVoices]
      /\ mActiveVoices' = next[voice] /\ mFreeVoices' = voice
      /\ previousVoice' = mActiveVoices'
      /\ voice' = IF mActiveVoices' = Null THEN Null ELSE next'[mActiveVoices']
  BY DEF SweepHead, Sweeping, Retire, Render, Offset
<1>2. /\ Held(i, a, f) /\ Apart(i, a, f) /\ Owned(i, a, f)
      /\ Walking(a, m) /\ Swept(a, m) /\ OnTime(i, a, m)
  BY DEF Good, ThreeLists
<1>3. /\ Distinct(a) /\ Distinct(f) /\ Linked(next, mVoicesToInsert, i)
      /\ Linked(next, mActiveVoices, a) /\ Linked(next, mFreeVoices, f)
      /\ Cells(i) \cap Cells(a) = {} /\ Cells(a) \cap Cells(f) = {}
      /\ Cells(i) \cap Cells(f) = {}
  BY <1>2 DEF Held, Apart
<1>4. UNCHANGED allocated /\ Mine' = Mine /\ Coming' = Coming
  BY RenderIs
<1>5. m \in 1 .. Len(a) /\ voice = a[m] /\ a[m] \in Voice /\ previousVoice = At(a, m - 1)
  BY <1>1, <1>2, ListShape DEF Walking
<1>6. Len(a) \in Nat /\ m = 1 /\ 1 \in 1 .. Len(a)
  <2>1. m - 1 \notin 1 .. Len(a)
    BY <1>1, <1>5, ListShape
  <2> QED BY <1>5, <2>1, ListShape
<1>7. a[1] \in Voice /\ voice = a[1] /\ a[1] \in Cells(a)
  BY <1>5, <1>6 DEF Cells
<1>8. next'[a[1]] = mFreeVoices /\ \A w : w # a[1] => next'[w] = next[w]
  BY <1>1, <1>7 DEF State, TypeOK
<1>9. Linked(next', mVoicesToInsert, i) /\ Linked(next', mFreeVoices, f)
  <2>1. /\ \A w \in Cells(i) : next'[w] = next[w]
        /\ \A w \in Cells(f) : next'[w] = next[w]
    BY <1>3, <1>7, <1>8
  <2> QED BY <1>3, <2>1, StaysLinked
<1> PICK v \in Voice : v = a[1]
  BY <1>7
<1> DEFINE a2 == Removed(a, 1)
           f2 == Joined(<<v>>, f)
           m2 == IF Len(a2) = 0 THEN 1 ELSE 2
<1>10. /\ f2 \in Seq(Voice) /\ Distinct(f2) /\ Linked(next', v, f2)
       /\ Cells(f2) = {v} \cup Cells(f)
  <2>1. v \notin Cells(f) /\ next'[v] = mFreeVoices
    BY <1>3, <1>7, <1>8
  <2> QED BY <1>3, <1>9, <2>1, Pushed
<1>11. Linked(next', next[a[1]], a2)
  <2>1. \A j \in 1 .. Len(a) : j # 1 /\ j + 1 # 1 => next'[a[j]] = next[a[j]]
    BY <1>3, <1>6, <1>8 DEF Distinct
  <2>2. Linked(next', IF 1 = 1 THEN next[a[1]] ELSE mActiveVoices, a2)
    BY <1>3, <1>6, <2>1, RemovedIsLinked
  <2> QED BY <2>2
<1>12. /\ a2 \in Seq(Voice) /\ Len(a2) = Len(a) - 1 /\ Cells(a2) = Cells(a) \ {v}
       /\ Distinct(a2)
  BY <1>3, <1>6, RemovedShape
<1>13. m2 \in Nat /\ (Len(a2) = 0 => m2 = 1) /\ (Len(a2) # 0 => m2 = 2)
  OBVIOUS
<1> HIDE DEF a2, f2, m2
<1>14. Len(a2) \in Nat /\ m2 \in 1 .. Len(a2) + 1
  BY <1>12, <1>13, ListShape
<1>15. Held(i, a2, f2)' /\ Apart(i, a2, f2)'
  <2>1. v \in Cells(a) /\ v \notin Cells(i) /\ v \notin Cells(f)
    BY <1>3, <1>7
  <2> QED BY <1>1, <1>2, <1>7, <1>9, <1>10, <1>11, <1>12, <2>1 DEF Held, Apart
<1>16. Owned(i, a2, f2)'
  <2>1. Listed(i, a2, f2) = Listed(i, a, f)
    BY <1>7, <1>10, <1>12 DEF Listed
  <2>2. /\ Listed(i, a2, f2) \cap Mine' = {} /\ Listed(i, a2, f2) \cap Coming' = {}
        /\ allocated' = Listed(i, a2, f2) \cup Mine' \cup Coming'
    BY <1>2, <1>4, <2>1 DEF Owned
  <2>3. a[1] \in allocated
    BY <1>2, <1>7 DEF Owned, Listed
  <2>4. \A w \in Voice \ allocated' : next'[w] = Null
    BY <1>2, <1>4, <1>8, <2>3 DEF Owned
  <2> QED BY <2>2, <2>4 DEF Owned, Listed
<1>17. Walking(a2, m2)'
  <2>1. mActiveVoices' = At(a2, 1)
    BY <1>1, <1>7, <1>11 DEF Linked
  <2>2. CASE Len(a2) = 0
    <3>1. 1 \notin 1 .. Len(a2) /\ 1 - 1 \notin 1 .. Len(a2) /\ m2 = 1
      BY <1>13, <1>14, <2>2
    <3>2. voice' = At(a2, 1) /\ previousVoice' = At(a2, 1 - 1)
      BY <1>1, <1>12, <2>1, <3>1, ListShape
    <3> QED BY <1>14, <3>1, <3>2 DEF Walking
  <2>3. CASE Len(a2) # 0
    <3>1. 1 \in 1 .. Len(a2) /\ m2 = 2 /\ 2 - 1 = 1 /\ 1 + 1 = 2
      BY <1>13, <1>14, <2>3
    <3>2. At(a2, 1) # Null /\ At(a2, 1) = a2[1]
      BY <1>12, <3>1, ListShape
    <3>3. next'[a2[1]] = At(a2, 2)
      BY <1>11, <3>1 DEF Linked
    <3>4. voice' = At(a2, 2) /\ previousVoice' = At(a2, 2 - 1)
      BY <1>1, <2>1, <3>1, <3>2, <3>3
    <3> QED BY <1>14, <3>1, <3>4 DEF Walking
  <2> QED BY <2>2, <2>3
<1>18. Swept(a2, m2)'
  <2>1. \A w \in Cells(a) : w \in done => ~mActive[w]
    BY <1>2 DEF Swept, Cells
  <2>2. \A p \in 1 .. Len(a2) : a2[p] \in done => ~mActive[a2[p]]
    BY <1>12, <2>1 DEF Cells
  <2>3. \A p \in 1 .. Len(a2) : p < m2 => p = 1
    BY <1>13, <1>14
  <2> QED BY <1>1, <2>2, <2>3 DEF Swept
<1>19. OnTime(i, a2, m2)'
  <2>1. \A w \in Cells(a) : mActive[w] => w \in Cells(a2)
    BY <1>1, <1>7, <1>12
  <2> QED BY <1>1, <1>2, <2>1, SweepOnTime
<1>20. Good(i, a2, f2, m2)'
  BY <1>15, <1>16, <1>17, <1>18, <1>19 DEF Good, ThreeLists
<1> QED BY <1>10, <1>12, <1>13, <1>20

-------------------------------------------------------------------------------
(* The invariant holds *)

LEMMA InitIInv == Init => IInv
<1> SUFFICES ASSUME Init PROVE IInv
  OBVIOUS
<1>1. State
  BY InitState
<1>2. << >> \in Seq(Voice) /\ 1 \in Nat
  BY EmptySeq
<1>3. Good(<< >>, << >>, << >>, 1)
  BY InitGood
<1> QED BY <1>1, <1>2, <1>3 DEF IInv

LEMMA NextIInv ==
  ASSUME IInv, [Next]_vars
  PROVE  IInv'
<1>1. State /\ State'
  BY StateHolds DEF IInv
<1>2. PICK i \in Seq(Voice), a \in Seq(Voice), f \in Seq(Voice), m \in Nat : Good(i, a, f, m)
  BY DEF IInv
<1>3. m + 1 \in Nat /\ 1 \in Nat
  OBVIOUS
<1>4. \E i2, a2, f2 \in Seq(Voice), m2 \in Nat : Good(i2, a2, f2, m2)'
  <2>1. CASE \E start \in StartTimes : Add(start)
    BY <1>1, <1>2, <2>1, AddGood
  <2>2. CASE BlockBegin
    BY <1>1, <1>2, <2>2, BlockGood
  <2>3. CASE TriggerEvent
    BY <1>1, <1>2, <2>3, TriggerGood
  <2>4. CASE EventsDone
    BY <1>1, <1>2, <2>4, EventsDoneGood
  <2>5. CASE Render /\ TryInsert
    <3>1. CASE mVoiceToInsertLock # Null
      <4>1. UNCHANGED links
        BY <2>5, <3>1 DEF TryInsert
      <4> QED BY <1>1, <1>2, <1>3, <2>5, <3>1, <4>1, PutOffGood
    <3>2. CASE mVoiceToInsertLock = Null /\ mVoicesToInsert = Null
      <4>1. UNCHANGED links
        BY <2>5, <3>2 DEF TryInsert, Splice
      <4>2. Len(i) = 0
        BY <1>2, <3>2, MembersAre DEF Good, ThreeLists, Held, Apart
      <4> QED BY <1>1, <1>2, <1>3, <2>5, <4>1, <4>2, PutOffGood
    <3>3. CASE mVoiceToInsertLock = Null /\ mVoicesToInsert # Null
      <4>1. Splice
        BY <2>5, <3>3 DEF TryInsert
      <4>2. \E i2, a2 \in Seq(Voice) : Good(i2, a2, f, 1)'
        BY <1>1, <1>2, <2>5, <3>3, <4>1, SpliceGood
      <4> QED BY <1>2, <1>3, <4>2
    <3> QED BY <3>1, <3>2, <3>3
  <2>6. CASE Render /\ RenderVoice
    BY <1>1, <1>2, <1>3, <2>6, RenderVoiceGood
  <2>7. CASE Render /\ TrySweep
    BY <1>1, <1>2, <2>7, TrySweepGood
  <2>8. CASE Render /\ SweepActive
    BY <1>1, <1>2, <1>3, <2>8, SweepActiveGood
  <2>9. CASE Render /\ SweepInside
    BY <1>1, <1>2, <2>9, SweepInsideGood
  <2>10. CASE Render /\ SweepHead
    BY <1>1, <1>2, <2>10, SweepHeadGood
  <2>11. CASE Render /\ SweepEnd
    BY <1>1, <1>2, <2>11, SweepEndGood
  <2>12. CASE \E c \in Client : Elsewhere(started /\ ClientCalls(c)) \/ Elsewhere(ClientGoesOn(c))
    <3>1. PICK c \in Client : /\ ClientCalls(c) \/ ClientGoesOn(c)
                              /\ UNCHANGED <<seq, begun, late>>
      BY <2>12 DEF Elsewhere
    <3> QED BY <1>1, <1>2, <3>1, ClientGood
  <2>13. CASE Elsewhere(FrameBegin) \/ Elsewhere(DrawVoice)
    <3>1. (FrameBegin \/ DrawVoice) /\ UNCHANGED <<seq, begun, late>>
      BY <2>13 DEF Elsewhere
    <3> QED BY <1>1, <1>2, <3>1, GraphicsGood
  <2>14. CASE UNCHANGED vars
    <3>1. Good(i, a, f, m)'
      BY <1>2, <2>14 DEF vars, synth, seq, links, cvars, avars, Good, ThreeLists, Held, Apart,
         Owned, Listed, Mine, Coming, Walking, Swept, OnTime, DueNow, Passed, Near
    <3> QED BY <1>2, <3>1
  <2> QED BY <2>1, <2>2, <2>3, <2>4, <2>5, <2>6, <2>7, <2>8, <2>9, <2>10, <2>11, <2>12,
             <2>13, <2>14 DEF Next, AudioStep, Render, RenderStep
<1> QED BY <1>1, <1>4 DEF IInv

THEOREM Invariance == Spec => []IInv
BY InitIInv, NextIInv, PTL DEF Spec

-------------------------------------------------------------------------------
(* What it is good for *)

LEMMA IInvImpliesListsConserved == IInv => ListsConserved
<1> SUFFICES ASSUME IInv PROVE ListsConserved
  OBVIOUS
<1>1. PICK i \in Seq(Voice), a \in Seq(Voice), f \in Seq(Voice), m \in Nat : Good(i, a, f, m)
  BY DEF IInv
<1>2. Held(i, a, f) /\ Apart(i, a, f) /\ Owned(i, a, f)
  BY <1>1 DEF Good, ThreeLists
<1>3. /\ Members(mVoicesToInsert) = Cells(i) /\ Members(mActiveVoices) = Cells(a)
      /\ Members(mFreeVoices) = Cells(f)
  BY <1>2, MembersAre DEF Held, Apart
<1>4. \A head \in {mVoicesToInsert, mActiveVoices, mFreeVoices} :
        Walk(head)[Cardinality(Voice)] = Null
  BY <1>2, MembersAre DEF Held, Apart
<1>5. Lists[1] = Cells(i) /\ Lists[2] = Cells(a) /\ Lists[3] = Cells(f)
  BY <1>3 DEF Lists
<1>6. 1 .. 3 = {1, 2, 3}
  OBVIOUS
<1>7. \A j, k \in 1 .. 3 : j # k => Lists[j] \cap Lists[k] = {}
  BY <1>2, <1>5, <1>6 DEF Apart
<1>8. UNION {Lists[j] : j \in 1 .. 3} = Listed(i, a, f)
  BY <1>5, <1>6 DEF Listed
<1>9. allocated = Listed(i, a, f) \cup Mine \cup Coming
  BY <1>2 DEF Owned
<1> QED BY <1>4, <1>7, <1>8, <1>9 DEF ListsConserved, Mine, Coming

\* The three lists stay lists and apart, and together with the voices that the
\* clients hold and that wait for their events they are all voices there are:
\* the splice, the sweep, the push and the growth of the free list, which share
\* the next pointers, lose none and link none twice.
THEOREM NoVoiceIsLost == Spec => []ListsConserved
BY Invariance, IInvImpliesListsConserved, PTL

\* render() may leave the voice that became the head of the active list, and no
\* other that was finished when the sweep began.
THEOREM SweepIsAlmostComplete == Spec => SweepLeavesAtMostOne
<1>1. ASSUME IInv, [Next]_vars
      PROVE  [apc = "sweep" /\ apc' = "idle"
                => Cardinality(done \cap Members(mActiveVoices)) <= 1]_vars
  <2> SUFFICES ASSUME Next, apc = "sweep", apc' = "idle"
               PROVE  Cardinality(done \cap Members(mActiveVoices)) <= 1
    BY <1>1
  <2>1. voice = Null
    BY DEF Next, Add, AudioStep, BlockBegin, TriggerEvent, EventsDone, Render, RenderStep,
       TryInsert, RenderVoice, TrySweep, SweepActive, SweepInside, SweepHead, Sweeping,
       SweepEnd, Elsewhere, ClientCalls, ClientGoesOn, LockFree, GetVoice,
       AllocatePolyphony, TriggerOn, PushMine, PrintedFree, PrintQueued, PrintEnd, FrameBegin, DrawVoice,
       avars
  <2>2. PICK i \in Seq(Voice), a \in Seq(Voice), f \in Seq(Voice), m \in Nat : Good(i, a, f, m)
    BY <1>1 DEF IInv
  <2>3. Held(i, a, f) /\ Apart(i, a, f) /\ Walking(a, m) /\ Swept(a, m)
    BY <2>2 DEF Good, ThreeLists
  <2>4. Members(mActiveVoices) = Cells(a)
    BY <2>3, MembersAre DEF Held, Apart
  <2>5. Len(a) \in Nat /\ m = Len(a) + 1
    <3>1. m \in 1 .. Len(a) + 1 /\ At(a, m) = Null
      BY <2>1, <2>3 DEF Walking
    <3>2. m \notin 1 .. Len(a)
      BY <3>1, ListShape
    <3> QED BY <3>1, <3>2, ListShape
  <2>6. done \cap Cells(a) \subseteq {a[1]}
    <3>1. ASSUME NEW p \in 1 .. Len(a), a[p] \in done PROVE p = 1
      <4>1. p < m
        BY <2>5
      <4> QED BY <2>3, <3>1, <4>1 DEF Swept
    <3> QED BY <3>1 DEF Cells
  <2>7. IsFiniteSet({a[1]}) /\ Cardinality({a[1]}) = 1
    BY FS_Singleton
  <2>8. Cardinality(done \cap Cells(a)) <= Cardinality({a[1]})
    BY <2>6, <2>7, FS_Subset
  <2> QED BY <2>4, <2>7, <2>8
<1>2. Spec => []IInv /\ [][Next]_vars
  BY Invariance DEF Spec
<1> QED BY <1>1, <1>2, PTL DEF SweepLeavesAtMostOne

\* An event that was not put off sounds within a frame of its start time, however
\* the times and the offsets are rounded and whatever the frames per block: never
\* later than two roundings, also when it is put in the frame behind the last of
\* a block and heard in the next.
THEOREM EventsSoundInTime == Spec => EventsSoundWithinAFrame
<1>1. ASSUME IInv, [Next]_vars
      PROVE  [\A i \in DOMAIN mEvents :
                LET event == mEvents[i]
                    offset == mOnOffsetFrames[event.voice]
                    heard == blockStartTime + offset * Ticks
                IN  event.voice \in begun' \ (begun \cup late)
                      => /\ offset >= 0
                         /\ heard <= event.start + 2 * Rounding
                         /\ heard > event.start - Ticks - Rounding]_vars
  <2> SUFFICES ASSUME Next, NEW j \in DOMAIN mEvents,
                      mEvents[j].voice \in begun' \ (begun \cup late)
               PROVE  /\ mOnOffsetFrames[mEvents[j].voice] >= 0
                      /\ Near(blockStartTime + mOnOffsetFrames[mEvents[j].voice] * Ticks,
                              mEvents[j])
    BY <1>1 DEF Near
  <2>1. begun' # begun
    OBVIOUS
  <2>2. Render
    BY <2>1 DEF Next, Add, AudioStep, BlockBegin, TriggerEvent, EventsDone, Elsewhere
  <2>3. /\ apc = "render" /\ voice # Null /\ mActive[voice]
        /\ mEvents[j].voice = voice
    BY <2>1, <2>2 DEF Render, Offset
  <2>4. PICK i \in Seq(Voice), a \in Seq(Voice), f \in Seq(Voice), m \in Nat : Good(i, a, f, m)
    BY <1>1 DEF IInv
  <2>5. /\ State /\ Apart(i, a, f) /\ Owned(i, a, f) /\ Walking(a, m) /\ OnTime(i, a, m)
    BY <1>1, <2>4 DEF IInv, Good, ThreeLists
  <2>6. m \in 1 .. Len(a) /\ voice = a[m] /\ Len(a) \in Nat
    BY <2>3, <2>5, ListShape DEF Walking
  <2>7. j \in 1 .. mNextEvent
    <3>1. j \in 1 .. Len(mEvents) /\ Len(mEvents) \in Nat /\ mNextEvent \in 0 .. Len(mEvents)
      BY <2>5, EventShape DEF State, Timetable
    <3>2. voice \notin Coming
      BY <2>5, <2>6 DEF Owned, Listed, Cells
    <3>3. j \notin mNextEvent + 1 .. Len(mEvents)
      BY <2>3, <3>2 DEF Coming
    <3> QED BY <3>1, <3>3
  <2>8. PICK p \in 1 .. Len(a) :
          /\ a[p] = voice
          /\ (DueNow(mEvents[j]) /\ p >= m) \/ (Passed(mEvents[j]) /\ p < m)
    BY <2>3, <2>5, <2>7 DEF OnTime
  <2>9. p = m
    BY <2>5, <2>6, <2>8 DEF Apart, Distinct
  <2>10. DueNow(mEvents[j])
    BY <2>6, <2>8, <2>9
  <2>11. FramesPerBuffer \in Nat
    BY FramesAssumption
  <2> QED BY <2>10, <2>11 DEF DueNow
<1>2. Spec => []IInv /\ [][Next]_vars
  BY Invariance DEF Spec
<1> QED BY <1>1, <1>2, PTL DEF EventsSoundWithinAFrame

===============================================================================
