--------------------------- MODULE SequenceFacts ---------------------------
(***************************************************************************)
(* Facts about sequences that the proofs of several components share:      *)
(* stretches, concatenation and insertion, member by member, and the least *)
(* number of a set, which stands in for induction.                         *)
(***************************************************************************)
EXTENDS Integers, Sequences, FiniteSets, SequenceTheorems, FiniteSetTheorems,
        WellFoundedInduction, TLAPS

\* What a stretch of a sequence holds.
LEMMA Slice ==
    ASSUME NEW S, NEW s \in Seq(S), NEW a \in Nat, NEW b \in Nat, 1 <= a, a <= b + 1, b <= Len(s)
    PROVE  /\ SubSeq(s, a, b) \in Seq(S) /\ Len(SubSeq(s, a, b)) = b - a + 1
           /\ DOMAIN SubSeq(s, a, b) = 1 .. b - a + 1
           /\ \A i \in 1 .. b - a + 1 : SubSeq(s, a, b)[i] = s[a + i - 1]
<1>1. \A i \in a .. b : s[i] \in S
  OBVIOUS
<1>2. a \in Int /\ b \in Int
  OBVIOUS
<1>3. /\ SubSeq(s, a, b) \in Seq(S) /\ Len(SubSeq(s, a, b)) = IF a <= b THEN b - a + 1 ELSE 0
      /\ \A i \in 1 .. b - a + 1 : SubSeq(s, a, b)[i] = s[a + i - 1]
  BY <1>1, <1>2, SubSeqProperties
<1>4. b - a + 1 \in Nat /\ (a <= b \/ b - a + 1 = 0)
  OBVIOUS
<1> QED BY <1>3, <1>4

\* What one sequence after another holds.
LEMMA Joined ==
    ASSUME NEW S, NEW s \in Seq(S), NEW t \in Seq(S)
    PROVE  /\ s \o t \in Seq(S) /\ Len(s \o t) = Len(s) + Len(t)
           /\ DOMAIN (s \o t) = 1 .. Len(s) + Len(t)
           /\ Len(s) \in Nat /\ Len(t) \in Nat
           /\ \A i \in 1 .. Len(s) + Len(t) : (s \o t)[i] = IF i <= Len(s) THEN s[i] ELSE t[i - Len(s)]
<1>1. /\ s \o t \in Seq(S) /\ Len(s \o t) = Len(s) + Len(t)
      /\ \A i \in 1 .. Len(s) + Len(t) : (s \o t)[i] = IF i <= Len(s) THEN s[i] ELSE t[i - Len(s)]
  BY ConcatProperties
<1>2. DOMAIN (s \o t) = 1 .. Len(s \o t) /\ Len(s) \in Nat /\ Len(t) \in Nat
  OBVIOUS
<1> QED BY <1>1, <1>2

\* What is left of a sequence without its first f members.
LEMMA Rest ==
    ASSUME NEW S, NEW s \in Seq(S), NEW f \in Nat, f <= Len(s)
    PROVE  /\ SubSeq(s, f + 1, Len(s)) \in Seq(S)
           /\ Len(SubSeq(s, f + 1, Len(s))) = Len(s) - f
           /\ \A i \in 1 .. Len(s) - f : SubSeq(s, f + 1, Len(s))[i] = s[f + i]
<1> DEFINE a == f + 1
           n == Len(s)
           r == SubSeq(s, a, n)
<1>1. a \in Nat /\ n \in Nat /\ 1 <= a /\ a <= n + 1 /\ n <= Len(s) /\ n - a + 1 = Len(s) - f
  OBVIOUS
<1>2. \A i \in 1 .. Len(s) - f : a + i - 1 = f + i
  OBVIOUS
<1> HIDE DEF a, n
<1>3. r \in Seq(S) /\ Len(r) = n - a + 1 /\ \A i \in 1 .. n - a + 1 : r[i] = s[a + i - 1]
  BY <1>1, Slice
<1> HIDE DEF r
<1>4. r \in Seq(S) /\ Len(r) = Len(s) - f /\ \A i \in 1 .. Len(s) - f : r[i] = s[f + i]
  BY <1>1, <1>2, <1>3
<1> QED BY <1>4 DEF a, n, r

\* The order in which sequences are put together does not matter.
LEMMA Associative ==
    \A h, s, t \in Seq(Nat) : (h \o s) \o t = h \o (s \o t)
<1>1. ASSUME NEW h \in Seq(Nat), NEW s \in Seq(Nat), NEW t \in Seq(Nat)
      PROVE  (h \o s) \o t = h \o (s \o t)
  <2> DEFINE a == (h \o s) \o t
             b == h \o (s \o t)
  <2>1. /\ a \in Seq(Nat) /\ b \in Seq(Nat) /\ Len(a) = Len(b)
        /\ Len(h) \in Nat /\ Len(s) \in Nat /\ Len(t) \in Nat
        /\ Len(a) = Len(h) + Len(s) + Len(t)
    OBVIOUS
  <2>2. ASSUME NEW i \in 1 .. Len(a) PROVE a[i] = b[i]
    BY SMTT(40), <2>1
  <2> HIDE DEF a, b
  <2>3. a = b
    BY <2>1, <2>2, SeqEqual
  <2> QED BY <2>3 DEF a, b
<1> QED BY <1>1

\* A function into the integers has a least value on a finite set.
LEMMA LeastExists ==
    ASSUME NEW S, IsFiniteSet(S), S # {}, NEW f, \A x \in S : f[x] \in Int
    PROVE  \E x \in S : \A y \in S : f[x] <= f[y]
<1> DEFINE Covers == {X \in SUBSET S : X # {} /\ \A s \in S \ X : \E x \in X : f[x] <= f[s]}
<1>1. Covers \subseteq FiniteSubsetsOf(S) /\ S \in Covers
  BY FS_FiniteSubsetsOfFinite
<1>2. PICK X \in Covers : \A Y \in Covers : ~(<<Y, X>> \in StrictSubsetOrdering(S))
  <2> HIDE DEF Covers
  <2> QED BY <1>1, FS_StrictSubsetOrderingWellFounded, WFMin
<1>3. PICK x \in X : TRUE
  BY <1>2
<1>4. X = {x}
  <2> SUFFICES ASSUME NEW y \in X, y # x PROVE FALSE
    BY <1>3
  <2>1. \E a, b \in X : a # b /\ f[a] <= f[b]
    <3>1. f[x] \in Int /\ f[y] \in Int
      BY <1>2, <1>3
    <3>2. f[x] <= f[y] \/ f[y] <= f[x]
      BY <3>1
    <3> QED BY <1>3, <3>2
  <2>2. PICK a \in X, b \in X : a # b /\ f[a] <= f[b]
    BY <2>1
  <2> DEFINE Y == X \ {b}
  <2>3. ASSUME NEW s \in S \ Y PROVE \E z \in Y : f[z] <= f[s]
    <3>1. CASE s = b
      BY <2>2, <3>1
    <3>2. CASE s # b
      <4>1. PICK z \in X : f[z] <= f[s]
        BY <1>2, <2>3, <3>2
      <4>2. CASE z = b
        <5>1. f[a] \in Int /\ f[b] \in Int /\ f[s] \in Int
          BY <1>2, <2>2, <2>3
        <5> QED BY <2>2, <4>1, <4>2, <5>1
      <4>3. CASE z # b
        BY <4>1, <4>3
      <4> QED BY <4>2, <4>3
    <3> QED BY <3>1, <3>2
  <2>4. Y \in Covers
    BY <1>2, <2>2, <2>3
  <2>5. <<Y, X>> \in StrictSubsetOrdering(S)
    BY <1>2, <2>2 DEF StrictSubsetOrdering
  <2> QED BY <1>2, <2>4, <2>5
<1>5. f[x] \in Int /\ f[x] <= f[x]
  BY <1>2, <1>3
<1> QED BY <1>2, <1>3, <1>4, <1>5

\* The least of some numbers from 0 to n.
LEMMA LeastNumber ==
    ASSUME NEW n \in Nat, NEW T \in SUBSET (0 .. n), T # {}
    PROVE  \E x \in T : \A y \in T : x <= y
<1> DEFINE f == [x \in 0 .. n |-> x]
<1>1. IsFiniteSet(0 .. n)
  BY FS_Interval
<1>2. IsFiniteSet(T)
  BY <1>1, FS_Subset
<1>3. \A x \in T : f[x] = x /\ x \in Int
  OBVIOUS
<1> HIDE DEF f
<1>4. \E x \in T : \A y \in T : f[x] <= f[y]
  <2>1. \A x \in T : f[x] \in Int
    BY <1>3
  <2> QED BY ONLY <1>2, <2>1, T # {}, LeastExists
<1> QED BY <1>3, <1>4

\* s with e put in after its k-th member.
Put(s, k, e) == SubSeq(s, 1, k) \o <<e>> \o SubSeq(s, k + 1, Len(s))

\* w is s with e put in: what follows has moved by one.
Has(w, S, s, k, e) ==
    /\ w \in Seq(S) /\ Len(w) = Len(s) + 1 /\ w[k + 1] = e
    /\ \A i \in 1 .. k : w[i] = s[i]
    /\ \A i \in k + 2 .. Len(s) + 1 : w[i] = s[i - 1]

\* Putting a member in changes nothing else.
LEMMA Inserted ==
    ASSUME NEW S, NEW s \in Seq(S), NEW k \in 0 .. Len(s), NEW e \in S
    PROVE  Has(Put(s, k, e), S, s, k, e)
<1>p. PICK r : r = Put(s, k, e)
  OBVIOUS
<1> DEFINE before == SubSeq(s, 1, k)
           after == SubSeq(s, k + 1, Len(s))
           head == before \o <<e>>
<1>r. r = head \o after
  BY <1>p DEF Put
<1>0. k \in Nat /\ Len(s) \in Nat /\ k <= Len(s)
  OBVIOUS
<1>1. before \in Seq(S) /\ Len(before) = k /\ \A i \in 1 .. k : before[i] = s[i]
  <2>1. 1 \in Nat /\ 1 <= k + 1 /\ k - 1 + 1 = k
    BY <1>0
  <2>2. /\ before \in Seq(S) /\ Len(before) = k - 1 + 1
        /\ \A i \in 1 .. k - 1 + 1 : before[i] = s[1 + i - 1]
    BY <1>0, <2>1, Slice
  <2> HIDE DEF before
  <2> QED BY <1>0, <2>1, <2>2
<1>2. /\ after \in Seq(S) /\ Len(after) = Len(s) - k
      /\ \A i \in 1 .. Len(s) - k : after[i] = s[k + i]
  BY <1>0, Rest
<1> HIDE DEF before, after
<1>3. /\ head \in Seq(S) /\ Len(head) = k + 1 /\ head[k + 1] = e
      /\ \A i \in 1 .. k : head[i] = s[i]
  <2>1. <<e>> \in Seq(S) /\ Len(<<e>>) = 1 /\ <<e>>[1] = e
    OBVIOUS
  <2>2. PICK one : one = <<e>>
    OBVIOUS
  <2>3. /\ before \o one \in Seq(S) /\ Len(before \o one) = Len(before) + Len(one)
        /\ \A i \in 1 .. Len(before) + Len(one) :
              (before \o one)[i] = IF i <= Len(before) THEN before[i] ELSE one[i - Len(before)]
    BY <1>1, <2>1, <2>2, Joined
  <2>4. head = before \o one
    BY <2>2
  <2> HIDE DEF head
  <2>5. k + 1 \in 1 .. k + 1 /\ ~(k + 1 <= k) /\ (k + 1) - k = 1
    BY <1>0
  <2> QED BY SMTT(40), <1>0, <1>1, <2>1, <2>2, <2>3, <2>4, <2>5
<1> HIDE DEF head
<1>4. /\ r \in Seq(S) /\ Len(r) = (k + 1) + (Len(s) - k)
      /\ \A i \in 1 .. (k + 1) + (Len(s) - k) :
            r[i] = IF i <= k + 1 THEN head[i] ELSE after[i - (k + 1)]
  <2>1. /\ r \in Seq(S) /\ Len(r) = Len(head) + Len(after)
        /\ \A i \in 1 .. Len(head) + Len(after) :
              r[i] = IF i <= Len(head) THEN head[i] ELSE after[i - Len(head)]
    BY ONLY <1>2, <1>3, <1>r, Joined
  <2> QED BY <1>2, <1>3, <2>1
<1>5. (k + 1) + (Len(s) - k) = Len(s) + 1
  BY <1>0
<1>6. r[k + 1] = e /\ \A i \in 1 .. k : r[i] = s[i]
  BY ONLY <1>0, <1>3, <1>4, <1>5
<1>7. ASSUME NEW i \in k + 2 .. Len(s) + 1 PROVE r[i] = s[i - 1]
  <2>1. i \in 1 .. Len(s) + 1 /\ ~(i <= k + 1) /\ i - (k + 1) \in 1 .. Len(s) - k
        /\ k + (i - (k + 1)) = i - 1
    BY <1>0
  <2> QED BY <1>2, <1>4, <1>5, <2>1
<1>8. Has(r, S, s, k, e)
  BY ONLY <1>4, <1>5, <1>6, <1>7 DEF Has
<1> QED BY <1>p, <1>8
=============================================================================
