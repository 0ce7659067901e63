---------------------------- MODULE BasicLemmas -----------------------------
(***************************************************************************)
(* Facts the proofs share: about natural numbers, which searches for the   *)
(* first free slot and loops that go up one by one need, and about what    *)
(* the operations of module Queues do to a queue without duplicates.       *)
(***************************************************************************)
EXTENDS Integers, Queues, SequenceTheorems, FiniteSetTheorems, TLAPS

(* A set of natural numbers that is not empty has a least element.         *)
LEMMA LeastElement ==
  ASSUME NEW T, T \subseteq Nat, T # {}
  PROVE  \E n \in T : \A m \in T : n <= m
<1>1. PICK n \in T : \A m \in T : <<m, n>> \notin OpToRel(<, Nat)
  BY WFMin, NatLessThanWellFounded, Zenon
<1>2. \A m \in T : ~(m < n)
  BY <1>1, Zenon DEF OpToRel
<1> QED BY <1>2

(* Induction, on a set that holds 0 and the successor of its members.      *)
LEMMA Induction ==
  ASSUME NEW T, 0 \in T, \A n \in Nat : n \in T => n + 1 \in T
  PROVE  Nat \subseteq T
<1> SUFFICES ASSUME Nat \ T # {} PROVE FALSE
  OBVIOUS
<1>1. PICK n \in Nat \ T : \A m \in Nat \ T : n <= m
  BY LeastElement
<1>2. n - 1 \in Nat /\ n - 1 \notin Nat \ T
  BY <1>1
<1> QED BY <1>1, <1>2

(* Quotient and remainder, as the provers need to be told of them.         *)
LEMMA Division ==
  ASSUME NEW n \in Nat \ {0}, NEW x \in Nat
  PROVE  /\ x \div n \in Nat /\ x % n \in 0 .. n - 1
         /\ x = (x \div n) * n + (x % n)
OBVIOUS

(* What a quotient and a remainder make up has them.                       *)
LEMMA Quotient ==
  ASSUME NEW n \in Nat \ {0}, NEW q \in Nat, NEW r \in 0 .. n - 1
  PROVE  (q * n + r) \div n = q /\ (q * n + r) % n = r
OBVIOUS

(* An invariant of a loop, I[k] what holds after round k, holds throughout.*)
LEMMA Rounds ==
  ASSUME NEW n \in Nat, NEW f, NEW I, f[0] \in I[0],
         \A k \in 1 .. n : f[k - 1] \in I[k - 1] => f[k] \in I[k]
  PROVE  \A k \in 0 .. n : f[k] \in I[k]
<1> DEFINE T == {k \in Nat : k <= n => f[k] \in I[k]}
<1>1. 0 \in T
  OBVIOUS
<1>2. ASSUME NEW k \in Nat, k \in T PROVE k + 1 \in T
  <2> SUFFICES ASSUME k + 1 <= n PROVE f[k + 1] \in I[k + 1]
    OBVIOUS
  <2>1. k + 1 \in 1 .. n /\ (k + 1) - 1 = k /\ f[k] \in I[k]
    BY <1>2
  <2> QED BY <2>1
<1>3. Nat \subseteq T
  <2> HIDE DEF T
  <2> QED BY <1>1, <1>2, Induction
<1> QED BY <1>3

(* The same for an invariant that does not depend on the round.            *)
LEMMA RoundsIn ==
  ASSUME NEW n \in Nat, NEW f, NEW S, f[0] \in S,
         \A k \in 1 .. n : f[k - 1] \in S => f[k] \in S
  PROVE  f[n] \in S /\ \A k \in 0 .. n : f[k] \in S
<1> DEFINE I == [k \in 0 .. n |-> S]
<1>1. f[0] \in I[0]
  OBVIOUS
<1>2. ASSUME NEW k \in 1 .. n, f[k - 1] \in I[k - 1] PROVE f[k] \in I[k]
  <2>1. k \in 0 .. n /\ k - 1 \in 0 .. n
    OBVIOUS
  <2>2. I[k] = S /\ I[k - 1] = S
    BY <2>1
  <2> QED BY <1>2, <2>2
<1>3. \A k \in 0 .. n : f[k] \in I[k]
  <2> HIDE DEF I
  <2> QED BY <1>1, <1>2, Rounds
<1> QED BY <1>3

-----------------------------------------------------------------------------
(* A sequence that has no duplicates and whose members are those of R.     *)
Lists(s, S, R) == s \in Seq(S) /\ IsInjective(s) /\ Range(s) = R

(* The place of a member of a sequence, as Sched's Position finds it.      *)
LEMMA PositionProperties ==
  ASSUME NEW S, NEW s \in Seq(S), NEW t \in Range(s)
  PROVE  Position(s, t) \in 1 .. Len(s) /\ s[Position(s, t)] = t
  BY DEF Position, Range

(* Unlinking a node from the middle of a queue leaves the others in order. *)
LEMMA RemoveAtProperties ==
  ASSUME NEW S, NEW s \in Seq(S), NEW i \in 1 .. Len(s)
  PROVE  /\ RemoveAt(s, i) \in Seq(S)
         /\ Len(RemoveAt(s, i)) = Len(s) - 1
         /\ \A j \in 1 .. Len(s) - 1 :
              RemoveAt(s, i)[j] = IF j < i THEN s[j] ELSE s[j + 1]
<1> DEFINE a == SubSeq(s, 1, i - 1)
           b == SubSeq(s, i + 1, Len(s))
<1>1. /\ a \in Seq(S)
      /\ Len(a) = i - 1
      /\ \A j \in 1 .. i - 1 : a[j] = s[j]
  <2>1. \A j \in 1 .. i - 1 : s[j] \in S
    BY ElementOfSeq
  <2> QED BY <2>1, SubSeqProperties
<1>2. /\ b \in Seq(S)
      /\ Len(b) = Len(s) - i
      /\ \A j \in 1 .. Len(s) - i : b[j] = s[i + j]
  <2>1. \A j \in i + 1 .. Len(s) : s[j] \in S
    BY ElementOfSeq
  <2>2. /\ b \in Seq(S)
        /\ Len(b) = IF i + 1 <= Len(s) THEN Len(s) - (i + 1) + 1 ELSE 0
        /\ \A j \in 1 .. Len(s) - (i + 1) + 1 : b[j] = s[i + 1 + j - 1]
    BY <2>1, SubSeqProperties
  <2> QED BY <2>2
<1>3. RemoveAt(s, i) = a \o b
  BY DEF RemoveAt
<1> HIDE DEF a, b
<1>4. /\ a \o b \in Seq(S)
      /\ Len(a \o b) = Len(a) + Len(b)
      /\ \A j \in 1 .. Len(a) + Len(b) :
           (a \o b)[j] = IF j <= Len(a) THEN a[j] ELSE b[j - Len(a)]
  BY <1>1, <1>2, ConcatProperties
<1> QED BY <1>1, <1>2, <1>3, <1>4

(* queue_remove takes out one task and nothing else.                       *)
LEMMA WithoutProperties ==
  ASSUME NEW S, NEW s \in Seq(S), IsInjective(s), NEW t
  PROVE  Lists(Without(s, t), S, Range(s) \ {t})
<1>1. CASE t \notin Range(s)
  BY <1>1 DEF Without, Lists
<1>2. CASE t \in Range(s)
  <2> DEFINE i == Position(s, t)
             r == RemoveAt(s, i)
  <2>1. i \in 1 .. Len(s) /\ s[i] = t
    BY <1>2, PositionProperties
  <2>2. \A j, k \in 1 .. Len(s) : s[j] = s[k] => j = k
    BY DEF IsInjective
  <2> HIDE DEF i
  <2>3. /\ r \in Seq(S)
        /\ Len(r) = Len(s) - 1
        /\ \A j \in 1 .. Len(s) - 1 : r[j] = IF j < i THEN s[j] ELSE s[j + 1]
    BY <2>1, RemoveAtProperties
  <2> HIDE DEF r
  <2>4. DOMAIN r = 1 .. Len(s) - 1 /\ DOMAIN s = 1 .. Len(s)
    BY <2>3
  <2>5. IsInjective(r)
    BY <2>1, <2>2, <2>3, <2>4 DEF IsInjective
  <2>6. Range(r) \subseteq Range(s) \ {t}
    <3> SUFFICES ASSUME NEW j \in 1 .. Len(s) - 1
                 PROVE  r[j] \in Range(s) /\ r[j] # t
      BY <2>4 DEF Range
    <3> QED BY <2>1, <2>2, <2>3, <2>4 DEF Range
  <2>7. Range(s) \ {t} \subseteq Range(r)
    <3> SUFFICES ASSUME NEW j \in 1 .. Len(s), j # i
                 PROVE  \E k \in 1 .. Len(s) - 1 : r[k] = s[j]
      BY <2>1, <2>4 DEF Range
    <3>1. CASE j < i
      BY <3>1, <2>1, <2>3
    <3>2. CASE j > i
      <4>1. j - 1 \in 1 .. Len(s) - 1 /\ r[j - 1] = s[j]
        BY <3>2, <2>1, <2>3
      <4> QED BY <4>1
    <3> QED BY <3>1, <3>2, <2>1
  <2>8. Without(s, t) = r
    BY <1>2 DEF Without, r, i
  <2> QED BY <2>3, <2>5, <2>6, <2>7, <2>8 DEF Lists
<1> QED BY <1>1, <1>2

(* queue_insert_tail adds one task.                                        *)
LEMMA InsertTailProperties ==
  ASSUME NEW S, NEW s \in Seq(S), IsInjective(s), NEW t \in S, t \notin Range(s)
  PROVE  Lists(Append(s, t), S, Range(s) \cup {t})
<1> DEFINE r == Append(s, t)
<1>1. /\ r \in Seq(S)
      /\ Len(r) = Len(s) + 1
      /\ \A i \in 1 .. Len(s) : r[i] = s[i]
      /\ r[Len(s) + 1] = t
  BY AppendProperties
<1>2. DOMAIN r = 1 .. Len(s) + 1 /\ DOMAIN s = 1 .. Len(s)
  BY <1>1
<1> HIDE DEF r
<1>3. IsInjective(r)
  BY <1>1, <1>2 DEF IsInjective, Range
<1>4. Range(r) = Range(s) \cup {t}
  BY <1>1, <1>2 DEF Range
<1> QED BY <1>1, <1>3, <1>4 DEF Lists, r

(* Waking sleepers in one tick appends a list of other tasks.              *)
LEMMA ConcatLists ==
  ASSUME NEW S, NEW s \in Seq(S), NEW w \in Seq(S), IsInjective(s), IsInjective(w),
         Range(s) \cap Range(w) = {}
  PROVE  Lists(s \o w, S, Range(s) \cup Range(w))
<1> DEFINE r == s \o w
<1>1. /\ r \in Seq(S)
      /\ Len(r) = Len(s) + Len(w)
      /\ \A i \in 1 .. Len(s) + Len(w) :
           r[i] = IF i <= Len(s) THEN s[i] ELSE w[i - Len(s)]
  BY ConcatProperties
<1>2. DOMAIN r = 1 .. Len(s) + Len(w) /\ DOMAIN s = 1 .. Len(s) /\ DOMAIN w = 1 .. Len(w)
  BY <1>1
<1> HIDE DEF r
<1>3. IsInjective(r)
  <2> SUFFICES ASSUME NEW i \in DOMAIN r, NEW j \in DOMAIN r, r[i] = r[j]
               PROVE  i = j
    BY DEF IsInjective
  <2>1. CASE i <= Len(s) /\ j <= Len(s)
    BY <2>1, <1>1, <1>2 DEF IsInjective
  <2>2. CASE i > Len(s) /\ j > Len(s)
    <3>1. i - Len(s) \in 1 .. Len(w) /\ j - Len(s) \in 1 .. Len(w)
      BY <2>2, <1>2
    <3>2. w[i - Len(s)] = w[j - Len(s)]
      BY <2>2, <1>1, <1>2
    <3>3. i - Len(s) = j - Len(s)
      BY <3>1, <3>2, <1>2 DEF IsInjective
    <3> QED BY <3>3, <1>2
  <2>3. ASSUME NEW a \in DOMAIN r, NEW b \in DOMAIN r, a <= Len(s), b > Len(s)
        PROVE  r[a] # r[b]
    <3>1. r[a] = s[a] /\ r[a] \in Range(s)
      BY <2>3, <1>1, <1>2 DEF Range
    <3>2. b - Len(s) \in DOMAIN w /\ r[b] = w[b - Len(s)]
      BY <2>3, <1>1, <1>2
    <3>3. r[b] \in Range(w)
      BY <3>2 DEF Range
    <3> QED BY <3>1, <3>3
  <2> QED BY <2>1, <2>2, <2>3, <1>2
<1>4. Range(r) = Range(s) \cup Range(w)
  BY RangeConcatenation DEF r
<1> QED BY <1>1, <1>3, <1>4 DEF Lists, r

(* The members of a queue are finitely many.                               *)
LEMMA RangeIsFinite ==
  ASSUME NEW S, NEW s \in Seq(S)
  PROVE  IsFiniteSet(Range(s))
<1>1. IsFiniteSet(1 .. Len(s))
  BY FS_Interval
<1>2. s \in Surjection(1 .. Len(s), Range(s))
  BY DEF Surjection, Range
<1> QED BY <1>1, <1>2, FS_Surjection

(* The sleepers task_tick picks, or leaves, are listed once each.          *)
LEMMA InOrderProperties ==
  ASSUME NEW S, NEW s \in Seq(S), NEW R \in SUBSET Range(s), NEW w \in InOrder(s, R)
  PROVE  Lists(w, S, R)
<1>1. Cardinality(R) \in Nat
  BY RangeIsFinite, FS_Subset, FS_CardinalityType
<1>2. R \subseteq S
  BY RangeOfSeq
<1>3. w \in [1 .. Cardinality(R) -> R] /\ Range(w) = R
  BY DEF InOrder
<1>4. w \in Seq(S)
  BY <1>1, <1>2, <1>3
<1>5. \A i, j \in DOMAIN w : i < j => w[i] # w[j]
  <2> SUFFICES ASSUME NEW i \in DOMAIN w, NEW j \in DOMAIN w, i < j, w[i] = w[j]
               PROVE  FALSE
    OBVIOUS
  <2>1. Position(s, w[i]) < Position(s, w[j])
    BY DEF InOrder
  <2>2. w[i] \in Range(s)
    BY <1>3
  <2>3. Position(s, w[i]) \in Nat
    BY <2>2, PositionProperties
  <2> QED BY <2>1, <2>3
<1>6. IsInjective(w)
  BY <1>1, <1>3, <1>5 DEF IsInjective
<1> QED BY <1>3, <1>4, <1>6 DEF Lists

(* An empty queue is one with no members; Head of another is a member.     *)
LEMMA EmptyQueue ==
  ASSUME NEW S, NEW s \in Seq(S)
  PROVE  /\ s = << >> <=> Range(s) = {}
         /\ s # << >> => Head(s) \in Range(s) /\ Head(s) \in S
<1>1. s \in [1 .. Len(s) -> S] /\ Len(s) \in Nat
  BY LenProperties
<1>2. CASE s = << >>
  BY <1>2 DEF Range
<1>3. CASE s # << >>
  <2>1. 1 \in DOMAIN s
    BY <1>1, <1>3, EmptySeq
  <2>2. Head(s) = s[1]
    BY <1>3
  <2> QED BY <1>1, <1>3, <2>1, <2>2 DEF Range
<1> QED BY <1>2, <1>3
=============================================================================
