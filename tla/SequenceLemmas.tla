---------------------------- MODULE SequenceLemmas ----------------------------
(***************************************************************************)
(* Facts about sequences without repetitions: the queues, hash chains and  *)
(* free lists of the models, through which an object is linked at most     *)
(* once.                                                                   *)
(***************************************************************************)
EXTENDS Integers, Sequences, FiniteSets, SequencesExt, FiniteSetTheorems, SequenceTheorems,
        WellFoundedInduction, TLAPS

\* A non-empty set of natural numbers has a least member.
LEMMA LeastIndex ==
  ASSUME NEW S \in SUBSET Nat, S # {}
  PROVE  \E m \in S : \A n \in S : m <= n
<1> DEFINE Below == {x \in Nat \X Nat : x[1] < x[2]}
<1>1. IsWellFoundedOn(Below, Nat)
  BY Zenon, NatLessThanWellFounded DEF OpToRel
<1>2. \E m \in S : \A n \in S : <<n, m>> \notin Below
  <2> HIDE DEF Below
  <2> QED BY <1>1, WFMin
<1>3. \A m, n \in Nat : n < m => <<n, m>> \in Below
  OBVIOUS
<1>4. PICK m \in S : \A n \in S : <<n, m>> \notin Below
  BY <1>2
<1>5. \A n \in S : ~ (n < m)
  BY <1>3, <1>4
<1> QED BY <1>5

\* A member stands at some position, and what stands at a position is a member.
LEMMA RangePositions ==
  ASSUME NEW S, NEW q \in Seq(S)
  PROVE  /\ \A i \in 1 .. Len(q) : q[i] \in Range(q)
         /\ \A x \in Range(q) : \E i \in 1 .. Len(q) : x = q[i]
         /\ Range(q) \subseteq S
BY DEF Range

\* queue_insert_tail.
LEMMA AppendRange ==
  ASSUME NEW S, NEW q \in Seq(S), NEW x \in S
  PROVE  /\ Range(Append(q, x)) = Range(q) \cup {x}
         /\ IsInjective(q) /\ x \notin Range(q) => IsInjective(Append(q, x))
BY DEF Range, IsInjective

\* dfs_hashtable_join and queue_insert_head.
LEMMA ConsRange ==
  ASSUME NEW S, NEW q \in Seq(S), NEW x \in S
  PROVE  /\ <<x>> \o q \in Seq(S)
         /\ Range(<<x>> \o q) = Range(q) \cup {x}
         /\ IsInjective(q) /\ x \notin Range(q) => IsInjective(<<x>> \o q)
<1>1. /\ <<x>> \o q \in Seq(S) /\ Len(<<x>> \o q) = Len(q) + 1
      /\ (<<x>> \o q)[1] = x
      /\ \A i \in 2 .. Len(q) + 1 : (<<x>> \o q)[i] = q[i - 1]
  OBVIOUS
<1>2. \A i \in 1 .. Len(q) : (<<x>> \o q)[i + 1] = q[i]
  BY <1>1
<1>3. Range(<<x>> \o q) = Range(q) \cup {x}
  <2>1. ASSUME NEW y \in Range(<<x>> \o q) PROVE y \in Range(q) \cup {x}
    <3>1. PICK i \in 1 .. Len(q) + 1 : y = (<<x>> \o q)[i]
      BY <1>1 DEF Range
    <3>2. CASE i = 1
      BY <3>1, <3>2, <1>1
    <3>3. CASE i # 1
      <4>1. i - 1 \in DOMAIN q /\ y = q[i - 1]
        BY <3>1, <3>3, <1>1
      <4> QED BY <4>1 DEF Range
    <3> QED BY <3>2, <3>3
  <2>2. ASSUME NEW y \in Range(q) PROVE y \in Range(<<x>> \o q)
    <3>1. PICK i \in 1 .. Len(q) : y = q[i]
      BY DEF Range
    <3>2. i + 1 \in 1 .. Len(<<x>> \o q) /\ y = (<<x>> \o q)[i + 1]
      BY <3>1, <1>1, <1>2
    <3> QED BY <3>2, <1>1, RangePositions
  <2>3. x \in Range(<<x>> \o q)
    BY <1>1 DEF Range
  <2> QED BY <2>1, <2>2, <2>3
<1>4. ASSUME IsInjective(q), x \notin Range(q) PROVE IsInjective(<<x>> \o q)
  BY <1>1, <1>4 DEF IsInjective, Range
<1> QED BY <1>1, <1>3, <1>4

\* mem_get0: the pool hands out the first free block.
LEMMA TailRange ==
  ASSUME NEW S, NEW q \in Seq(S), IsInjective(q), q # <<>>
  PROVE  /\ Head(q) \in Range(q) /\ Tail(q) \in Seq(S)
         /\ Range(Tail(q)) = Range(q) \ {Head(q)}
         /\ IsInjective(Tail(q))
<1>1. /\ Tail(q) \in Seq(S) /\ Len(Tail(q)) = Len(q) - 1 /\ Len(q) > 0
      /\ Head(q) = q[1]
      /\ \A i \in 1 .. Len(q) - 1 : Tail(q)[i] = q[i + 1]
  BY HeadTailProperties
<1>2. Head(q) \in Range(q)
  BY <1>1 DEF Range
<1>3. IsInjective(Tail(q))
  BY <1>1 DEF IsInjective
<1>4. ASSUME NEW y \in Range(Tail(q)) PROVE y \in Range(q) \ {Head(q)}
  <2>1. PICK i \in 1 .. Len(q) - 1 : y = Tail(q)[i]
    BY <1>1 DEF Range
  <2>2. i + 1 \in DOMAIN q /\ 1 \in DOMAIN q /\ i + 1 # 1 /\ y = q[i + 1]
    BY <2>1, <1>1
  <2> QED BY <2>2, <1>1 DEF Range, IsInjective
<1>5. ASSUME NEW y \in Range(q) \ {Head(q)} PROVE y \in Range(Tail(q))
  <2>1. PICK i \in 1 .. Len(q) : y = q[i]
    BY DEF Range
  <2>2. i - 1 \in 1 .. Len(q) - 1
    BY <2>1, <1>1
  <2>3. y = Tail(q)[i - 1]
    BY <2>1, <2>2, <1>1
  <2> QED BY <2>2, <2>3, <1>1, RangePositions
<1> QED BY <1>1, <1>2, <1>3, <1>4, <1>5

\* Taking out one position of a sequence, position by position.
LEMMA RemoveAtProperties ==
  ASSUME NEW S, NEW q \in Seq(S), NEW k \in 1 .. Len(q)
  PROVE  /\ RemoveAt(q, k) \in Seq(S)
         /\ Len(RemoveAt(q, k)) = Len(q) - 1
         /\ \A i \in 1 .. Len(q) - 1 :
              RemoveAt(q, k)[i] = IF i < k THEN q[i] ELSE q[i + 1]
<1> DEFINE a == SubSeq(q, 1, k - 1)
           b == SubSeq(q, k + 1, Len(q))
<1>1. /\ a \in Seq(S) /\ Len(a) = k - 1
      /\ \A i \in 1 .. k - 1 : a[i] = q[i]
  BY SubSeqProperties
<1>2. /\ b \in Seq(S) /\ Len(b) = Len(q) - k
      /\ \A i \in 1 .. Len(q) - k : b[i] = q[k + i]
  <2>1. k + 1 \in Int /\ Len(q) \in Int /\ \A i \in k + 1 .. Len(q) : q[i] \in S
    OBVIOUS
  <2>2. /\ b \in Seq(S) /\ Len(b) = IF k + 1 <= Len(q) THEN Len(q) - (k + 1) + 1 ELSE 0
        /\ \A i \in 1 .. Len(q) - (k + 1) + 1 : b[i] = q[(k + 1) + i - 1]
    BY <2>1, SubSeqProperties
  <2> HIDE DEF b
  <2>3. ASSUME NEW i \in 1 .. Len(q) - k PROVE b[i] = q[k + i]
    <3>1. i \in 1 .. Len(q) - (k + 1) + 1 /\ (k + 1) + i - 1 = k + i
      OBVIOUS
    <3> QED BY <2>2, <3>1
  <2>4. Len(b) = Len(q) - k
    BY <2>2
  <2> QED BY <2>2, <2>3, <2>4
<1> HIDE DEF a, b
<1>3. a \o b \in Seq(S) /\ Len(a \o b) = Len(q) - 1
  <2>1. a \o b \in Seq(S) /\ Len(a \o b) = Len(a) + Len(b)
    BY <1>1, <1>2, ConcatProperties
  <2> QED BY <2>1, <1>1, <1>2
<1>4. ASSUME NEW i \in 1 .. Len(q) - 1
      PROVE  (a \o b)[i] = IF i < k THEN q[i] ELSE q[i + 1]
  <2>1. (a \o b)[i] = IF i <= Len(a) THEN a[i] ELSE b[i - Len(a)]
    BY <1>1, <1>2
  <2>2. CASE i < k
    <3>1. i \in 1 .. k - 1 /\ i <= k - 1
      BY <2>2
    <3> QED BY <1>1, <2>1, <2>2, <3>1
  <2>3. CASE ~(i < k)
    <3>1. i - (k - 1) \in 1 .. Len(q) - k /\ ~(i <= k - 1) /\ k + (i - (k - 1)) = i + 1
      BY <2>3
    <3> QED BY <1>1, <1>2, <2>1, <2>3, <3>1
  <2> QED BY <2>2, <2>3
<1> QED BY <1>3, <1>4 DEF RemoveAt, a, b

\* queue_remove, dfs_hashtable_remove_link: only the node of x goes.
Without(q, x) == RemoveAt(q, CHOOSE i \in DOMAIN q : q[i] = x)

LEMMA WithoutRange ==
  ASSUME NEW S, NEW q \in Seq(S), IsInjective(q), NEW x \in Range(q)
  PROVE  /\ Without(q, x) \in Seq(S)
         /\ Range(Without(q, x)) = Range(q) \ {x}
         /\ IsInjective(Without(q, x))
<1> DEFINE k == CHOOSE i \in DOMAIN q : q[i] = x
           r == RemoveAt(q, k)
<1>1. k \in 1 .. Len(q) /\ q[k] = x
  BY DEF Range
<1> HIDE DEF k
<1>2. /\ r \in Seq(S) /\ Len(r) = Len(q) - 1
      /\ \A i \in 1 .. Len(q) - 1 : r[i] = IF i < k THEN q[i] ELSE q[i + 1]
  BY <1>1, RemoveAtProperties
<1> HIDE DEF r
<1>3. IsInjective(r)
  <2> SUFFICES ASSUME NEW i \in 1 .. Len(q) - 1, NEW j \in 1 .. Len(q) - 1, r[i] = r[j]
               PROVE  i = j
    BY <1>2 DEF IsInjective
  <2> DEFINE at(n) == IF n < k THEN n ELSE n + 1
  <2>1. k \in 1 .. Len(q) /\ at(i) \in DOMAIN q /\ at(j) \in DOMAIN q
    BY <1>1
  <2>2. q[at(i)] = q[at(j)]
    BY <1>2
  <2>3. at(i) = at(j)
    BY <2>1, <2>2, Zenon DEF IsInjective
  <2> QED BY <2>1, <2>3
<1>4. ASSUME NEW y \in Range(r) PROVE y \in Range(q) \ {x}
  <2>1. PICK i \in 1 .. Len(q) - 1 : y = r[i]
    BY <1>2 DEF Range
  <2>2. PICK j \in 1 .. Len(q) : j # k /\ y = q[j]
    BY <2>1, <1>1, <1>2
  <2> QED BY <2>2, <1>1 DEF Range, IsInjective
<1>5. ASSUME NEW y \in Range(q) \ {x} PROVE y \in Range(r)
  <2>1. PICK j \in 1 .. Len(q) : y = q[j]
    BY DEF Range
  <2>2. PICK i \in 1 .. Len(q) - 1 : y = r[i]
    <3>1. CASE j < k
      BY <3>1, <2>1, <1>1, <1>2
    <3>2. CASE j > k
      <4>1. j - 1 \in 1 .. Len(q) - 1 /\ ~(j - 1 < k)
        BY <3>2, <1>1
      <4>2. r[j - 1] = q[j]
        BY <4>1, <1>2
      <4> QED BY <4>1, <4>2, <2>1
    <3> QED BY <3>1, <3>2, <2>1, <1>1
  <2> QED BY <2>2, <1>2 DEF Range
<1> QED BY <1>2, <1>3, <1>4, <1>5 DEF Without, r, k

\* A pool's free list as memory_pool sets it up: every object once.
LEMMA SetToSeqRange ==
  ASSUME NEW S, IsFiniteSet(S)
  PROVE  /\ SetToSeq(S) \in Seq(S) /\ IsInjective(SetToSeq(S))
         /\ Range(SetToSeq(S)) = S
<1> DEFINE n == Cardinality(S)
<1>1. n \in Nat /\ ExistsBijection(1 .. n, S)
  BY FS_CardinalityType
<1>2. \E f \in [1 .. n -> S] : IsInjective(f)
  BY <1>1 DEF ExistsBijection, Bijection, Injection
<1>3. SetToSeq(S) \in [1 .. n -> S] /\ IsInjective(SetToSeq(S))
  BY <1>2 DEF SetToSeq
<1>4. SetToSeq(S) \in Injection(1 .. n, S)
  BY <1>3 DEF Injection
<1>5. Cardinality(1 .. n) = n
  BY <1>1, FS_Interval
<1>6. SetToSeq(S) \in Surjection(1 .. n, S)
  BY <1>4, <1>5, FS_Injection
<1>7. Range(SetToSeq(S)) = S
  BY <1>3, <1>6 DEF Surjection, Range
<1>8. SetToSeq(S) \in Seq(S)
  BY <1>1, <1>3, SeqDef
<1> QED BY <1>3, <1>7, <1>8

\* A sequence without repetitions is as long as the set of its members.
LEMMA InjectiveLength ==
  ASSUME NEW S, NEW q \in Seq(S), IsInjective(q)
  PROVE  /\ IsFiniteSet(Range(q)) /\ Cardinality(Range(q)) = Len(q)
<1>1. q \in Bijection(1 .. Len(q), Range(q))
  <2>1. q \in [1 .. Len(q) -> Range(q)]
    BY DEF Range
  <2> QED BY <2>1 DEF Bijection, Injection, Surjection, Range
<1>2. ExistsBijection(1 .. Len(q), Range(q))
  BY <1>1 DEF ExistsBijection
<1> QED BY <1>2, FS_CountingElements, FS_NatBijection

\* Copying one buffer behind another.
LEMMA ConcatRange ==
  ASSUME NEW S, NEW s \in Seq(S), NEW t \in Seq(S)
  PROVE  /\ s \o t \in Seq(S) /\ Len(s \o t) = Len(s) + Len(t)
         /\ Range(s \o t) = Range(s) \cup Range(t)
         /\ IsInjective(s) /\ IsInjective(t) /\ Range(s) \cap Range(t) = {} => IsInjective(s \o t)
<1>1. /\ s \o t \in Seq(S) /\ Len(s \o t) = Len(s) + Len(t)
      /\ \A i \in 1 .. Len(s) : (s \o t)[i] = s[i]
      /\ \A i \in Len(s) + 1 .. Len(s) + Len(t) : (s \o t)[i] = t[i - Len(s)]
  OBVIOUS
<1>2. \A i \in 1 .. Len(t) : (s \o t)[Len(s) + i] = t[i]
  BY <1>1
<1>3. ASSUME NEW y \in Range(s \o t) PROVE y \in Range(s) \cup Range(t)
  <2>1. PICK i \in 1 .. Len(s) + Len(t) : y = (s \o t)[i]
    BY <1>1 DEF Range
  <2>2. CASE i <= Len(s)
    BY <1>1, <2>1, <2>2 DEF Range
  <2>3. CASE i > Len(s)
    <3>1. i - Len(s) \in DOMAIN t /\ y = t[i - Len(s)]
      BY <1>1, <2>1, <2>3
    <3> QED BY <3>1 DEF Range
  <2> QED BY <2>1, <2>2, <2>3
<1>4. ASSUME NEW y \in Range(s) \cup Range(t) PROVE y \in Range(s \o t)
  <2>1. CASE y \in Range(s)
    <3>1. PICK i \in 1 .. Len(s) : y = s[i]
      BY <2>1 DEF Range
    <3>2. i \in DOMAIN (s \o t) /\ y = (s \o t)[i]
      BY <1>1, <3>1
    <3> QED BY <3>2 DEF Range
  <2>2. CASE y \in Range(t)
    <3>1. PICK i \in 1 .. Len(t) : y = t[i]
      BY <2>2 DEF Range
    <3>2. Len(s) + i \in DOMAIN (s \o t) /\ y = (s \o t)[Len(s) + i]
      BY <1>1, <1>2, <3>1
    <3> QED BY <3>2 DEF Range
  <2> QED BY <2>1, <2>2
<1>5. ASSUME IsInjective(s), IsInjective(t), Range(s) \cap Range(t) = {}
      PROVE  IsInjective(s \o t)
  <2> SUFFICES ASSUME NEW i \in 1 .. Len(s) + Len(t), NEW j \in 1 .. Len(s) + Len(t),
                      (s \o t)[i] = (s \o t)[j]
               PROVE  i = j
    BY <1>1 DEF IsInjective
  <2>1. CASE i <= Len(s) /\ j <= Len(s)
    BY <1>1, <1>5, <2>1 DEF IsInjective
  <2>2. CASE i > Len(s) /\ j > Len(s)
    <3>1. /\ i - Len(s) \in DOMAIN t /\ j - Len(s) \in DOMAIN t
          /\ t[i - Len(s)] = t[j - Len(s)]
      BY <1>1, <2>2
    <3>2. i - Len(s) = j - Len(s)
      BY <1>5, <3>1 DEF IsInjective
    <3> QED BY <3>2
  <2>3. CASE i <= Len(s) /\ j > Len(s)
    <3>1. i \in DOMAIN s /\ j - Len(s) \in DOMAIN t /\ s[i] = t[j - Len(s)]
      BY <1>1, <2>3
    <3> QED BY <1>5, <3>1 DEF Range
  <2>4. CASE i > Len(s) /\ j <= Len(s)
    <3>1. j \in DOMAIN s /\ i - Len(s) \in DOMAIN t /\ s[j] = t[i - Len(s)]
      BY <1>1, <2>4
    <3> QED BY <1>5, <3>1 DEF Range
  <2> QED BY <2>1, <2>2, <2>3, <2>4
<1> QED BY <1>1, <1>3, <1>4, <1>5

\* The first k members go, the others stay.
LEMMA SplitRange ==
  ASSUME NEW S, NEW q \in Seq(S), IsInjective(q), NEW k \in 0 .. Len(q)
  PROVE  /\ SubSeq(q, 1, k) \in Seq(S) /\ Len(SubSeq(q, 1, k)) = k
         /\ SubSeq(q, k + 1, Len(q)) \in Seq(S) /\ Len(SubSeq(q, k + 1, Len(q))) = Len(q) - k
         /\ IsInjective(SubSeq(q, 1, k)) /\ IsInjective(SubSeq(q, k + 1, Len(q)))
         /\ Range(SubSeq(q, 1, k)) \cup Range(SubSeq(q, k + 1, Len(q))) = Range(q)
         /\ Range(SubSeq(q, 1, k)) \cap Range(SubSeq(q, k + 1, Len(q))) = {}
<1> DEFINE s == SubSeq(q, 1, k)
           t == SubSeq(q, k + 1, Len(q))
<1>1. /\ s \in Seq(S) /\ Len(s) = k /\ \A i \in 1 .. k : s[i] = q[i]
  OBVIOUS
<1>2. /\ t \in Seq(S) /\ Len(t) = Len(q) - k /\ \A i \in 1 .. Len(q) - k : t[i] = q[k + i]
  OBVIOUS
<1> HIDE DEF s, t
<1>3. IsInjective(s)
  BY <1>1 DEF IsInjective
<1>4. IsInjective(t)
  <2> SUFFICES ASSUME NEW i \in 1 .. Len(q) - k, NEW j \in 1 .. Len(q) - k, t[i] = t[j]
               PROVE  i = j
    BY <1>2 DEF IsInjective
  <2>1. k + i \in DOMAIN q /\ k + j \in DOMAIN q /\ q[k + i] = q[k + j]
    BY <1>2
  <2>2. k + i = k + j
    BY <2>1 DEF IsInjective
  <2> QED BY <2>2
<1>5. ASSUME NEW y \in Range(q) PROVE y \in Range(s) \cup Range(t)
  <2>1. PICK i \in 1 .. Len(q) : y = q[i]
    BY DEF Range
  <2>2. CASE i <= k
    <3>1. i \in DOMAIN s /\ y = s[i]
      BY <1>1, <2>1, <2>2
    <3> QED BY <3>1 DEF Range
  <2>3. CASE i > k
    <3>1. i - k \in 1 .. Len(q) - k /\ k + (i - k) = i
      BY <2>3
    <3>2. i - k \in DOMAIN t /\ y = t[i - k]
      BY <1>2, <2>1, <3>1
    <3> QED BY <3>2 DEF Range
  <2> QED BY <2>2, <2>3
<1>6. ASSUME NEW y \in Range(s) PROVE \E i \in 1 .. k : y = q[i]
  BY <1>1 DEF Range
<1>7. ASSUME NEW y \in Range(t) PROVE \E i \in k + 1 .. Len(q) : y = q[i]
  <2>1. PICK i \in 1 .. Len(q) - k : y = t[i]
    BY <1>2 DEF Range
  <2>2. k + i \in k + 1 .. Len(q) /\ y = q[k + i]
    BY <1>2, <2>1
  <2> QED BY <2>2
<1>8. Range(s) \cup Range(t) \subseteq Range(q)
  <2>1. \A i \in 1 .. Len(q) : q[i] \in Range(q)
    BY RangePositions
  <2>2. \A y \in Range(s) \cup Range(t) : \E i \in 1 .. Len(q) : y = q[i]
    BY <1>6, <1>7
  <2> QED BY <2>1, <2>2
<1>9. Range(s) \cap Range(t) = {}
  <2> SUFFICES ASSUME NEW y \in Range(s), y \in Range(t) PROVE FALSE
    OBVIOUS
  <2>1. PICK i \in 1 .. k : y = q[i]
    BY <1>6
  <2>2. PICK j \in k + 1 .. Len(q) : y = q[j]
    BY <1>7
  <2>3. i \in DOMAIN q /\ j \in DOMAIN q /\ q[i] = q[j] /\ i # j
    BY <2>1, <2>2
  <2> QED BY <2>3 DEF IsInjective
<1>10. Range(s) \cup Range(t) = Range(q)
  BY <1>5, <1>8
<1>11. /\ s \in Seq(S) /\ Len(s) = k /\ t \in Seq(S) /\ Len(t) = Len(q) - k
       /\ IsInjective(s) /\ IsInjective(t)
  BY <1>1, <1>2, <1>3, <1>4
<1> QED BY <1>9, <1>10, <1>11 DEF s, t

=============================================================================
