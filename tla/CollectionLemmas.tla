-------------------------- MODULE CollectionLemmas --------------------------
(* Finite sets and sequences: induction in the form of a smallest            *)
(* counterexample, and what is at which place of a queue.                    *)
EXTENDS Naturals, Sequences, FiniteSets, Functions, FiniteSetTheorems, SequenceTheorems,
        WellFoundedInduction, TLAPS

LEMMA SmallestSubset ==
  ASSUME NEW S, IsFiniteSet(S), NEW F, F \subseteq SUBSET S, F # {}
  PROVE  \E A \in F : \A B \in F : B \subseteq A => B = A
<1>1. F \subseteq FiniteSubsetsOf(S)
  BY FS_FiniteSubsetsOfFinite
<1>2. PICK A \in F : \A B \in F : ~ (<<B, A>> \in StrictSubsetOrdering(S))
  BY <1>1, FS_StrictSubsetOrderingWellFounded, WFMin
<1> QED BY <1>2 DEF StrictSubsetOrdering

LEMMA LeastNumber ==
  ASSUME NEW k \in Nat, NEW S \in SUBSET (0..k), S # {}
  PROVE  \E a \in S : \A other \in S : a <= other
<1> DEFINE Below == {0..a : a \in S}
<1>1. /\ Below \subseteq SUBSET (0..k)
      /\ Below # {}
  <2>1. \A a \in S : a \in Nat /\ a <= k
    OBVIOUS
  <2>2. \A a \in S : 0..a \subseteq 0..k
    BY <2>1
  <2> QED BY <2>2, Zenon
<1>2. PICK A \in Below : \A B \in Below : B \subseteq A => B = A
  <2>1. IsFiniteSet(0..k)
    BY FS_Interval
  <2> DEFINE All == 0..k
  <2>2. IsFiniteSet(All) /\ Below \subseteq SUBSET All /\ Below # {}
    BY <1>1, <2>1
  <2> HIDE DEF Below, All
  <2> QED BY <2>2, SmallestSubset
<1>3. PICK a \in S : A = 0..a
  BY <1>2
<1>4. ASSUME NEW other \in S, other < a PROVE FALSE
  <2>1. a \in Nat /\ other \in Nat
    OBVIOUS
  <2>2. 0..other \in Below /\ 0..other \subseteq 0..a
    BY <2>1, <1>4
  <2>3. 0..other = 0..a
    BY <1>2, <1>3, <2>2
  <2>4. a \in 0..other
    BY <2>1, <2>3
  <2> QED BY <1>4, <2>1, <2>4
<1> QED BY <1>4

LEMMA GreatestNumber ==
  ASSUME NEW k \in Nat, NEW S \in SUBSET (0..k), S # {}
  PROVE  \E a \in S : \A other \in S : other <= a
<1> DEFINE Below == {k - a : a \in S}
<1>1. Below \in SUBSET (0..k) /\ Below # {}
  <2>1. \A a \in S : k - a \in 0..k
    OBVIOUS
  <2>2. Below # {}
    OBVIOUS
  <2> QED BY <2>1, <2>2, Zenon
<1>2. PICK b \in Below : \A other \in Below : b <= other
  <2> HIDE DEF Below
  <2> QED BY <1>1, LeastNumber
<1>3. PICK a \in S : b = k - a
  BY <1>2
<1>4. \A other \in S : k - a <= k - other
  BY <1>2, <1>3
<1> QED BY <1>4

-----------------------------------------------------------------------------
(* Sequences.                                                                *)

LEMMA RangeEmpty == Range(<<>>) = {}
BY DEF Range

LEMMA RangeIndexed ==
  ASSUME NEW S, NEW q \in Seq(S)
  PROVE  Range(q) = {q[n] : n \in 1..Len(q)} /\ Range(q) \subseteq S
BY DEF Range

LEMMA RangeSingle ==
  ASSUME NEW m
  PROVE  Range(<<m>>) = {m}
<1> DEFINE q == <<m>>
<1>1. q \in Seq({m}) /\ Len(q) = 1 /\ q[1] = m
  OBVIOUS
<1>2. \A n \in 1..Len(q) : q[n] = m
  BY <1>1
<1>3. 1 \in 1..Len(q)
  BY <1>1
<1> HIDE DEF q
<1>4. Range(q) = {q[n] : n \in 1..Len(q)}
  BY <1>1, RangeIndexed
<1>5. Range(q) = {m}
  BY <1>1, <1>2, <1>3, <1>4
<1> QED BY <1>5 DEF q

\* What a receiver takes off a stream.
LEMMA Taken ==
  ASSUME NEW S, NEW q \in Seq(S), q # <<>>
  PROVE  /\ Tail(q) \in Seq(S) /\ Len(Tail(q)) = Len(q) - 1 /\ Len(q) \in Nat /\ Len(q) > 0
         /\ Head(q) = q[1] /\ Head(q) \in S
         /\ \A n \in 1..Len(Tail(q)) : n + 1 \in 1..Len(q) /\ Tail(q)[n] = q[n + 1]
         /\ \A n \in 1..Len(q) : n # 1 => n - 1 \in 1..Len(Tail(q)) /\ Tail(q)[n - 1] = q[n]
         /\ Range(q) = {Head(q)} \cup Range(Tail(q))
<1> DEFINE t == Tail(q)
<1>1. /\ t \in Seq(S) /\ Len(t) = Len(q) - 1 /\ Len(q) \in Nat /\ Len(q) > 0
      /\ Head(q) = q[1] /\ 1 \in 1..Len(q) /\ Head(q) \in S
      /\ \A n \in 1..(Len(q) - 1) : t[n] = q[n + 1]
  OBVIOUS
<1> HIDE DEF t
<1>2. \A n \in 1..Len(t) : n + 1 \in 1..Len(q) /\ t[n] = q[n + 1]
  BY <1>1
<1>3. \A n \in 1..Len(q) : n # 1 => n - 1 \in 1..Len(t) /\ t[n - 1] = q[n]
  <2> SUFFICES ASSUME NEW n \in 1..Len(q), n # 1
               PROVE  n - 1 \in 1..Len(t) /\ t[n - 1] = q[n]
    OBVIOUS
  <2>1. n - 1 \in 1..Len(t) /\ (n - 1) + 1 = n
    BY <1>1
  <2> QED BY <1>2, <2>1
<1>4. Range(q) = {q[n] : n \in 1..Len(q)} /\ Range(t) = {t[n] : n \in 1..Len(t)}
  BY <1>1, RangeIndexed
<1>5. Range(q) \subseteq {q[1]} \cup Range(t)
  BY <1>3, <1>4
<1>6. {q[1]} \cup Range(t) \subseteq Range(q)
  BY <1>1, <1>2, <1>4
<1> QED BY <1>1, <1>2, <1>3, <1>5, <1>6 DEF t

\* What a sender puts on a stream.
LEMMA Joined ==
  ASSUME NEW S, NEW x \in Seq(S), NEW y \in Seq(S)
  PROVE  /\ x \o y \in Seq(S) /\ Len(x \o y) = Len(x) + Len(y) /\ Len(x) \in Nat /\ Len(y) \in Nat
         /\ \A n \in 1..Len(x) : n \in 1..Len(x \o y) /\ (x \o y)[n] = x[n]
         /\ \A n \in 1..Len(y) : Len(x) + n \in 1..Len(x \o y) /\ (x \o y)[Len(x) + n] = y[n]
         /\ \A n \in 1..Len(x \o y) : n \in 1..Len(x) \/ n - Len(x) \in 1..Len(y)
         /\ Range(x \o y) = Range(x) \cup Range(y)
<1> DEFINE z == x \o y
<1>1. /\ z \in Seq(S) /\ Len(z) = Len(x) + Len(y) /\ Len(x) \in Nat /\ Len(y) \in Nat
      /\ \A n \in 1..(Len(x) + Len(y)) : z[n] = IF n <= Len(x) THEN x[n] ELSE y[n - Len(x)]
  BY ConcatProperties
<1> HIDE DEF z
<1>2. \A n \in 1..Len(x) : n \in 1..Len(z) /\ z[n] = x[n]
  BY <1>1
<1>3. \A n \in 1..Len(y) : Len(x) + n \in 1..Len(z) /\ z[Len(x) + n] = y[n]
  <2> TAKE n \in 1..Len(y)
  <2>1. Len(x) + n \in 1..(Len(x) + Len(y)) /\ ~(Len(x) + n <= Len(x)) /\ (Len(x) + n) - Len(x) = n
    BY <1>1
  <2> QED BY <1>1, <2>1
<1>4. \A n \in 1..Len(z) : n \in 1..Len(x) \/ n - Len(x) \in 1..Len(y)
  BY <1>1
<1>5. \A n \in 1..Len(z) : \/ n \in 1..Len(x) /\ z[n] = x[n]
                           \/ n - Len(x) \in 1..Len(y) /\ z[n] = y[n - Len(x)]
  <2> TAKE n \in 1..Len(z)
  <2>1. n \in 1..(Len(x) + Len(y))
    BY <1>1
  <2>2. z[n] = IF n <= Len(x) THEN x[n] ELSE y[n - Len(x)]
    BY <1>1, <2>1
  <2>3. IF n <= Len(x) THEN n \in 1..Len(x) ELSE n - Len(x) \in 1..Len(y)
    BY <1>1, <2>1
  <2>4. CASE n <= Len(x)
    BY <2>2, <2>3, <2>4
  <2>5. CASE ~(n <= Len(x))
    BY <2>2, <2>3, <2>5
  <2> QED BY <2>4, <2>5
<1>6. /\ Range(x) = {x[n] : n \in 1..Len(x)} /\ Range(y) = {y[n] : n \in 1..Len(y)}
      /\ Range(z) = {z[n] : n \in 1..Len(z)}
  BY <1>1, RangeIndexed
<1>7. Range(z) \subseteq Range(x) \cup Range(y)
  BY <1>5, <1>6
<1>8. Range(x) \subseteq Range(z)
  BY <1>2, <1>6
<1>9. Range(y) \subseteq Range(z)
  BY <1>3, <1>6
<1> QED BY <1>1, <1>2, <1>3, <1>4, <1>7, <1>8, <1>9 DEF z
=============================================================================
