---------------------------- MODULE PacketProofs ----------------------------
EXTENDS PacketReader, CollectionLemmas

\* What the constructors of message.hpp and v5_message.hpp write, and what is read back from it: for
\* every packet, the length that was computed is the length of the bytes, and numbers, texts,
\* properties and headers are read back as they were written.

\* Sequences.

\* The first n elements of a sequence, what is behind them, and that they join to the sequence.
LEMMA FirstBehind ==
  ASSUME NEW S, NEW x \in Seq(S), NEW n \in 0..Len(x)
  PROVE  /\ First(x, n) \in Seq(S) /\ Len(First(x, n)) = n
         /\ Behind(x, n) \in Seq(S) /\ Len(Behind(x, n)) = Len(x) - n
         /\ \A i \in 1..n : First(x, n)[i] = x[i]
         /\ \A i \in 1..(Len(x) - n) : Behind(x, n)[i] = x[n + i]
         /\ First(x, n) \o Behind(x, n) = x
<1>1. Len(x) \in Nat /\ n \in Nat /\ n <= Len(x)
  OBVIOUS
<1>2. \A i \in 1..Len(x) : x[i] \in S
  BY ElementOfSeq
<1>3. /\ First(x, n) \in Seq(S) /\ Len(First(x, n)) = n
      /\ \A i \in 1..n : First(x, n)[i] = x[i]
  <2>1. \A i \in 1..n : x[i] \in S
    BY <1>1, <1>2
  <2> QED BY <1>1, <2>1, SubSeqProperties DEF First
<1>4. /\ Behind(x, n) \in Seq(S) /\ Len(Behind(x, n)) = Len(x) - n
      /\ \A i \in 1..(Len(x) - n) : Behind(x, n)[i] = x[n + i]
  <2>1. \A i \in (n + 1)..Len(x) : x[i] \in S
    BY <1>1, <1>2
  <2> DEFINE b == SubSeq(x, n + 1, Len(x))
  <2>2. /\ b \in Seq(S) /\ Len(b) = IF n + 1 <= Len(x) THEN Len(x) - (n + 1) + 1 ELSE 0
        /\ \A i \in 1..(Len(x) - (n + 1) + 1) : b[i] = x[(n + 1) + i - 1]
    BY <1>1, <2>1, SubSeqProperties
  <2> HIDE DEF b
  <2>3. Len(b) = Len(x) - n
    BY <1>1, <2>2
  <2>4. \A i \in 1..(Len(x) - n) : b[i] = x[n + i]
    <3> TAKE i \in 1..(Len(x) - n)
    <3>1. i \in 1..(Len(x) - (n + 1) + 1) /\ (n + 1) + i - 1 = n + i
      BY <1>1
    <3> QED BY <2>2, <3>1
  <2>5. Behind(x, n) = b
    BY DEF Behind, b
  <2> QED BY <2>2, <2>3, <2>4, <2>5
<1>5. First(x, n) \o Behind(x, n) = x
  <2>1. 1 \in 1..(Len(x) + 1) /\ n \in (1 - 1)..Len(x) /\ Len(x) \in n..Len(x)
    BY <1>1
  <2>2. SubSeq(x, 1, n) \o SubSeq(x, n + 1, Len(x)) = SubSeq(x, 1, Len(x))
    BY <2>1, ConcatAdjacentSubSeq
  <2> QED BY <2>2, SubSeqFull DEF First, Behind
<1> QED BY <1>3, <1>4, <1>5

\* Behind and First at the two ends of a sequence.
LEMMA BehindEnds ==
  ASSUME NEW S, NEW x \in Seq(S)
  PROVE  /\ Behind(x, 0) = x /\ Behind(x, Len(x)) = <<>> /\ First(x, Len(x)) = x /\ First(x, 0) = <<>>
         /\ \A n \in Nat : Behind(<<>>, n) = <<>>
<1>1. Len(x) \in Nat /\ Len(x) < Len(x) + 1
  BY LenProperties
<1>2. Behind(x, 0) = x /\ First(x, Len(x)) = x
  BY SubSeqFull DEF Behind, First
<1>3. Behind(x, Len(x)) = <<>>
  BY <1>1, SubSeqEmpty DEF Behind
<1>4. First(x, 0) = <<>>
  BY SubSeqEmpty DEF First
<1>5. ASSUME NEW n \in Nat PROVE Behind(<<>>, n) = <<>>
  <2>1. n + 1 \in Int /\ 0 \in Int /\ 0 < n + 1 /\ Len(<<>>) = 0
    BY EmptySeq
  <2> QED BY <2>1, SubSeqEmpty DEF Behind
<1> QED BY <1>2, <1>3, <1>4, <1>5

\* What is read off the front of what was joined.
LEMMA OfJoined ==
  ASSUME NEW S, NEW x \in Seq(S), NEW y \in Seq(S)
  PROVE  /\ x \o y \in Seq(S) /\ Len(x \o y) = Len(x) + Len(y) /\ Len(x) \in Nat /\ Len(y) \in Nat
         /\ First(x \o y, Len(x)) = x /\ Behind(x \o y, Len(x)) = y
         /\ \A i \in 1..Len(x) : (x \o y)[i] = x[i]
<1> DEFINE z == x \o y
           n == Len(x)
<1>1. /\ z \in Seq(S) /\ Len(z) = n + Len(y) /\ n \in Nat /\ Len(y) \in Nat
      /\ \A i \in 1..n : z[i] = x[i]
      /\ \A i \in 1..Len(y) : z[n + i] = y[i]
  BY Joined
<1> HIDE DEF z
<1>2. n \in 0..Len(z) /\ Len(z) - n = Len(y)
  BY <1>1
<1> HIDE DEF n
<1>3. /\ First(z, n) \in Seq(S) /\ Len(First(z, n)) = n
      /\ Behind(z, n) \in Seq(S) /\ Len(Behind(z, n)) = Len(y)
      /\ \A i \in 1..n : First(z, n)[i] = z[i]
      /\ \A i \in 1..Len(y) : Behind(z, n)[i] = z[n + i]
  <2>1. /\ First(z, n) \in Seq(S) /\ Len(First(z, n)) = n
        /\ Behind(z, n) \in Seq(S) /\ Len(Behind(z, n)) = Len(z) - n
        /\ \A i \in 1..n : First(z, n)[i] = z[i]
        /\ \A i \in 1..(Len(z) - n) : Behind(z, n)[i] = z[n + i]
    BY <1>1, <1>2, FirstBehind
  <2> QED BY <1>2, <2>1
<1>4. First(z, n) = x
  BY <1>1, <1>3, SeqEqual DEF n
<1>5. Behind(z, n) = y
  BY <1>1, <1>3, SeqEqual
<1> QED BY <1>1, <1>4, <1>5 DEF z, n

\* What is behind n elements of what is behind m.
LEMMA BehindTwice ==
  ASSUME NEW S, NEW x \in Seq(S), NEW m \in Nat, NEW n \in Nat, m + n <= Len(x)
  PROVE  Behind(Behind(x, m), n) = Behind(x, m + n)
<1>1. Len(x) \in Nat /\ m \in 0..Len(x) /\ m + n \in 0..Len(x) /\ n \in 0..(Len(x) - m)
  OBVIOUS
<1> DEFINE b == Behind(x, m)
           c == Behind(x, m + n)
<1>2. /\ b \in Seq(S) /\ Len(b) = Len(x) - m
      /\ \A i \in 1..(Len(x) - m) : b[i] = x[m + i]
  BY <1>1, FirstBehind
<1>3. /\ c \in Seq(S) /\ Len(c) = Len(x) - (m + n)
      /\ \A i \in 1..(Len(x) - (m + n)) : c[i] = x[(m + n) + i]
  BY <1>1, FirstBehind
<1> HIDE DEF b, c
<1>4. /\ Behind(b, n) \in Seq(S) /\ Len(Behind(b, n)) = Len(b) - n
      /\ \A i \in 1..(Len(b) - n) : Behind(b, n)[i] = b[n + i]
  <2>1. n \in 0..Len(b)
    BY <1>1, <1>2
  <2> QED BY <1>2, <2>1, FirstBehind
<1>5. Len(Behind(b, n)) = Len(c)
  BY <1>1, <1>2, <1>3, <1>4
<1>6. ASSUME NEW i \in 1..Len(c) PROVE Behind(b, n)[i] = c[i]
  <2>1. i \in 1..(Len(b) - n) /\ n + i \in 1..(Len(x) - m) /\ m + (n + i) = (m + n) + i
    BY <1>1, <1>2, <1>3
  <2> QED BY <1>2, <1>3, <1>4, <2>1
<1>7. Behind(b, n) = c
  BY <1>3, <1>4, <1>5, <1>6, SeqEqual
<1> QED BY <1>7 DEF b, c

-----------------------------------------------------------------------------
\* Joining sequences.

\* The function FlattenSeq is defined by, on the first k places of s.
IsFlat(f, s, k) == f = [i \in 1..k |-> IF i = 1 THEN s[i] ELSE f[i - 1] \o s[i]]

\* Such a function exists, for every number of places.
LEMMA FlatExists ==
  ASSUME NEW s, NEW k \in Nat
  PROVE  \A m \in 0..k : \E f : IsFlat(f, s, m)
<1> DEFINE bad == {m \in 0..k : ~\E f : IsFlat(f, s, m)}
<1> SUFFICES ASSUME bad # {} PROVE FALSE
  OBVIOUS
<1>1. PICK a \in bad : \A other \in bad : a <= other
  <2>1. bad \in SUBSET (0..k)
    OBVIOUS
  <2> HIDE DEF bad
  <2> QED BY <2>1, LeastNumber
<1>2. a \in 0..k /\ ~\E f : IsFlat(f, s, a)
  OBVIOUS
<1>3. CASE a = 0
  <2> DEFINE f == [i \in 1..0 |-> <<>>]
  <2>1. f = [i \in 1..0 |-> IF i = 1 THEN s[i] ELSE f[i - 1] \o s[i]]
    OBVIOUS
  <2> QED BY <1>2, <1>3, <2>1 DEF IsFlat
<1>4. CASE a # 0
  <2>1. a - 1 \in 0..k /\ a - 1 \notin bad /\ a - 1 \in Nat /\ a \in Nat
    BY <1>1, <1>2, <1>4
  <2>2. PICK e : IsFlat(e, s, a - 1)
    BY <2>1
  <2> DEFINE f == [i \in 1..a |-> IF i = 1 THEN s[i] ELSE e[i - 1] \o s[i]]
  <2>3. ASSUME NEW i \in 1..(a - 1) PROVE f[i] = e[i]
    <3>1. e[i] = IF i = 1 THEN s[i] ELSE e[i - 1] \o s[i]
      BY <2>2 DEF IsFlat
    <3>2. i \in 1..a
      BY <2>1
    <3> QED BY <3>1, <3>2
  <2>4. ASSUME NEW i \in 1..a PROVE f[i] = IF i = 1 THEN s[i] ELSE f[i - 1] \o s[i]
    <3>1. i # 1 => i - 1 \in 1..(a - 1)
      BY <2>1
    <3>2. i # 1 => f[i - 1] = e[i - 1]
      <4> HIDE DEF f
      <4> QED BY <2>3, <3>1
    <3>3. f[i] = IF i = 1 THEN s[i] ELSE e[i - 1] \o s[i]
      OBVIOUS
    <3> HIDE DEF f
    <3> QED BY <3>2, <3>3
  <2>5. f = [i \in 1..a |-> f[i]]
    OBVIOUS
  <2> HIDE DEF f
  <2>6. IsFlat(f, s, a)
    BY <2>4, <2>5 DEF IsFlat
  <2> QED BY <1>2, <2>6
<1> QED BY <1>3, <1>4

\* FlattenSeq is the last value of such a function.
LEMMA FlattenIs ==
  ASSUME NEW s, NEW k \in Nat, Len(s) = k, k # 0
  PROVE  \E f : IsFlat(f, s, k) /\ FlattenSeq(s) = f[k]
<1> DEFINE g == CHOOSE f : IsFlat(f, s, k)
<1>1. FlattenSeq(s) = g[k]
  BY Zenon DEF FlattenSeq, IsFlat
<1>2. \E f : IsFlat(f, s, k)
  <2>1. k \in 0..k
    OBVIOUS
  <2> QED BY <2>1, FlatExists
<1>3. IsFlat(g, s, k)
  BY <1>2
<1> QED BY <1>1, <1>3

\* Two of them agree where their sequences do.
LEMMA FlatsAgree ==
  ASSUME NEW s, NEW t, NEW k \in Nat, NEW l \in Nat, k <= l, \A i \in 1..k : s[i] = t[i],
         NEW f, NEW g, IsFlat(f, s, k), IsFlat(g, t, l)
  PROVE  \A i \in 1..k : f[i] = g[i]
<1> DEFINE bad == {i \in 1..k : f[i] # g[i]}
<1> SUFFICES ASSUME bad # {} PROVE FALSE
  OBVIOUS
<1>1. PICK a \in bad : \A other \in bad : a <= other
  <2>1. bad \in SUBSET (0..k)
    OBVIOUS
  <2> HIDE DEF bad
  <2> QED BY <2>1, LeastNumber
<1>2. a \in 1..k /\ a \in 1..l /\ f[a] # g[a]
  OBVIOUS
<1>3. a # 1 => a - 1 \in 1..k /\ a - 1 \notin bad
  BY <1>1, <1>2
<1>4. a # 1 => f[a - 1] = g[a - 1]
  BY <1>3
<1>5. f[a] = IF a = 1 THEN s[a] ELSE f[a - 1] \o s[a]
  BY <1>2 DEF IsFlat
<1>6. g[a] = IF a = 1 THEN t[a] ELSE g[a - 1] \o t[a]
  BY <1>2 DEF IsFlat
<1> HIDE DEF bad
<1> QED BY <1>2, <1>4, <1>5, <1>6

\* A sequence of one element.
LEMMA IsOneSeq ==
  ASSUME NEW S, NEW x \in S
  PROVE  <<x>> \in Seq(S) /\ Len(<<x>>) = 1 /\ <<x>>[1] = x
OBVIOUS

\* Joining and appending.
LEMMA AppendJoined ==
  ASSUME NEW S, NEW x \in Seq(S), NEW y \in Seq(S), NEW e \in S
  PROVE  x \o Append(y, e) = Append(x \o y, e)
<1>1. <<e>> \in Seq(S) /\ x \o y \in Seq(S)
  BY ConcatProperties, IsOneSeq
<1>2. x \o Append(y, e) = x \o (y \o <<e>>)
  BY AppendIsConcat
<1>3. Append(x \o y, e) = (x \o y) \o <<e>>
  BY <1>1, AppendIsConcat
<1>4. (x \o y) \o <<e>> = x \o (y \o <<e>>)
  BY <1>1, ConcatAssociative
<1> QED BY <1>2, <1>3, <1>4

\* Nothing joined.
LEMMA FlattenEmpty == FlattenSeq(<<>>) = <<>>
BY EmptySeq DEF FlattenSeq

\* Joining one sequence more, for sequences that agree place by place.
LEMMA FlattenStep ==
  ASSUME NEW s, NEW t, NEW k \in Nat, NEW l \in Nat, k # 0, l = k + 1, Len(s) = k, Len(t) = l,
         \A i \in 1..k : s[i] = t[i]
  PROVE  FlattenSeq(t) = FlattenSeq(s) \o t[l]
<1>0. l # 0 /\ Len(t) = l /\ k # 0 /\ Len(s) = k
  OBVIOUS
<1>1. PICK g : IsFlat(g, t, l) /\ FlattenSeq(t) = g[l]
  BY ONLY <1>0, l \in Nat, FlattenIs
<1>2. PICK f : IsFlat(f, s, k) /\ FlattenSeq(s) = f[k]
  BY ONLY <1>0, k \in Nat, FlattenIs
<1>3. \A i \in 1..k : f[i] = g[i]
  <2>1. k <= l
    OBVIOUS
  <2> QED BY <1>1, <1>2, <2>1, FlatsAgree
<1>4. g[l] = IF l = 1 THEN t[l] ELSE g[l - 1] \o t[l]
  <2>1. l \in 1..l
    OBVIOUS
  <2>2. g = [i \in 1..l |-> IF i = 1 THEN t[i] ELSE g[i - 1] \o t[i]]
    BY <1>1 DEF IsFlat
  <2> QED BY <2>1, <2>2
<1>5. f[k] = g[k]
  BY <1>3
<1>6. l # 1 /\ l - 1 = k
  OBVIOUS
<1>7. g[l] = g[k] \o t[l]
  BY <1>4, <1>6
<1> QED BY <1>1, <1>2, <1>5, <1>7

\* Joining one sequence more.
LEMMA FlattenAppend ==
  ASSUME NEW S, NEW s \in Seq(Seq(S)), NEW x \in Seq(S)
  PROVE  FlattenSeq(Append(s, x)) = FlattenSeq(s) \o x
<1> DEFINE t == Append(s, x)
           k == Len(s)
<1>1. /\ k \in Nat /\ Len(t) = k + 1 /\ \A i \in 1..k : t[i] = s[i]
      /\ t[k + 1] = x
  BY AppendProperties, LenProperties
<1> HIDE DEF t, k
<1>2. PICK g : IsFlat(g, t, k + 1) /\ FlattenSeq(t) = g[k + 1]
  BY <1>1, FlattenIs
<1>3. g[k + 1] = IF k + 1 = 1 THEN t[k + 1] ELSE g[(k + 1) - 1] \o t[k + 1]
  <2>1. k + 1 \in 1..(k + 1)
    BY <1>1
  <2> QED BY <1>2, <2>1 DEF IsFlat
<1>4. CASE k = 0
  <2>1. FlattenSeq(t) = x
    BY <1>1, <1>2, <1>3, <1>4
  <2>2. s = <<>>
    BY <1>4, EmptySeq DEF k
  <2>3. FlattenSeq(s) \o x = x
    BY <2>2, FlattenEmpty, ConcatEmptySeq
  <2> QED BY <2>1, <2>3 DEF t
<1>5. CASE k # 0
  <2> DEFINE l == k + 1
  <2>1. k \in Nat /\ l \in Nat /\ l = k + 1 /\ Len(s) = k /\ Len(t) = l /\ \A i \in 1..k : s[i] = t[i]
    BY <1>1 DEF k
  <2>2. FlattenSeq(t) = FlattenSeq(s) \o t[l]
    <3> HIDE DEF l
    <3> QED BY <1>5, <2>1, FlattenStep
  <2> QED BY <1>1, <2>2 DEF t
<1> QED BY <1>4, <1>5

\* One more of the first elements.
LEMMA FirstMore ==
  ASSUME NEW S, NEW t \in Seq(S), NEW u \in 1..Len(t)
  PROVE  /\ First(t, u - 1) \in Seq(S) /\ t[u] \in S
         /\ First(t, u) = Append(First(t, u - 1), t[u])
<1>1. u - 1 \in 0..Len(t) /\ u \in 1..Len(t) /\ 1 \in 1..Len(t) /\ u \in 1..Len(t)
  BY LenProperties
<1>2. First(t, u - 1) \in Seq(S) /\ t[u] \in S
  BY <1>1, FirstBehind, ElementOfSeq
<1>3. SubSeq(t, 1, u) = SubSeq(t, 1, u - 1) \o <<t[u]>>
  BY <1>1, SubSeqRecursiveSecond
<1> QED BY <1>2, <1>3, AppendIsConcat DEF First

\* What is joined has the elements of its parts.
LEMMA FlattenType ==
  ASSUME NEW S, NEW t \in Seq(Seq(S))
  PROVE  FlattenSeq(t) \in Seq(S)
<1> DEFINE bad == {u \in 0..Len(t) : FlattenSeq(First(t, u)) \notin Seq(S)}
<1>1. Len(t) \in Nat /\ First(t, 0) = <<>> /\ First(t, Len(t)) = t
  BY LenProperties, BehindEnds
<1> SUFFICES ASSUME bad # {} PROVE FALSE
  BY <1>1
<1>2. PICK u \in bad : \A other \in bad : u <= other
  <2>1. bad \in SUBSET (0..Len(t))
    OBVIOUS
  <2> HIDE DEF bad
  <2> QED BY <1>1, <2>1, LeastNumber
<1>3. u \in 0..Len(t) /\ FlattenSeq(First(t, u)) \notin Seq(S)
  OBVIOUS
<1>4. u # 0
  BY <1>1, <1>3, FlattenEmpty, EmptySeq
<1>5. u - 1 \in 0..Len(t) /\ u - 1 \notin bad /\ u \in 1..Len(t)
  BY <1>1, <1>2, <1>3, <1>4
<1>6. FlattenSeq(First(t, u - 1)) \in Seq(S)
  BY <1>5
<1> DEFINE a == First(t, u - 1)
           b == t[u]
<1>7. a \in Seq(Seq(S)) /\ b \in Seq(S) /\ First(t, u) = Append(a, b)
  BY <1>5, FirstMore
<1> HIDE DEF a, b, bad
<1>8. FlattenSeq(Append(a, b)) = FlattenSeq(a) \o b
  BY <1>7, FlattenAppend
<1> QED BY <1>3, <1>6, <1>7, <1>8, ConcatProperties DEF a

\* Induction over the front of t.
LEMMA FlattenJoined ==
  ASSUME NEW S, NEW s \in Seq(Seq(S)), NEW t \in Seq(Seq(S))
  PROVE  FlattenSeq(s \o t) = FlattenSeq(s) \o FlattenSeq(t)
<1> DEFINE k == Len(t)
           Good(u) == FlattenSeq(s \o First(t, u)) = FlattenSeq(s) \o FlattenSeq(First(t, u))
           bad == {u \in 0..k : ~Good(u)}
<1>1. k \in Nat /\ First(t, 0) = <<>> /\ First(t, k) = t /\ FlattenSeq(s) \in Seq(S)
  BY LenProperties, BehindEnds, FlattenType
<1> SUFFICES ASSUME ~Good(k) PROVE FALSE
  BY <1>1
<1>a. bad # {}
  <2>1. k \in 0..k
    BY <1>1
  <2> HIDE DEF Good, k
  <2> QED BY <2>1
<1>2. PICK u \in bad : \A other \in bad : u <= other
  <2>1. bad \in SUBSET (0..k)
    OBVIOUS
  <2> HIDE DEF bad, k
  <2> QED BY <1>1, <1>a, <2>1, LeastNumber
<1>3. u \in 0..k /\ ~Good(u)
  OBVIOUS
<1>4. u # 0
  <2>1. FlattenSeq(s \o <<>>) = FlattenSeq(s) \o FlattenSeq(<<>>)
    <3>1. s \o <<>> = s
      BY ConcatEmptySeq
    <3>2. FlattenSeq(s) \o <<>> = FlattenSeq(s)
      BY <1>1, ConcatEmptySeq
    <3> QED BY <3>1, <3>2, FlattenEmpty
  <2> QED BY <1>1, <1>3, <2>1
<1>5. u - 1 \in 0..k /\ u - 1 \notin bad /\ u \in 1..k
  <2>1. u \in Nat /\ u <= k /\ u # 0
    BY <1>1, <1>3, <1>4
  <2> HIDE DEF bad, k
  <2> QED BY <1>1, <1>2, <2>1
<1>6. FlattenSeq(s \o First(t, u - 1)) = FlattenSeq(s) \o FlattenSeq(First(t, u - 1))
  BY <1>5
<1> DEFINE a == First(t, u - 1)
           b == t[u]
<1>7. a \in Seq(Seq(S)) /\ b \in Seq(S) /\ First(t, u) = Append(a, b)
  BY <1>5, FirstMore
<1>8. ~(FlattenSeq(s \o Append(a, b)) = FlattenSeq(s) \o FlattenSeq(Append(a, b)))
  BY <1>3, <1>7
<1>9. FlattenSeq(s \o a) = FlattenSeq(s) \o FlattenSeq(a)
  BY <1>6
<1> HIDE DEF a, b, bad, Good, k
<1>10. FlattenSeq(Append(a, b)) = FlattenSeq(a) \o b /\ FlattenSeq(a) \in Seq(S)
  BY <1>7, FlattenAppend, FlattenType
<1>11. s \o a \in Seq(Seq(S)) /\ <<b>> \in Seq(Seq(S))
  BY <1>7, ConcatProperties, IsOneSeq
<1>12. s \o Append(a, b) = Append(s \o a, b)
  BY <1>7, AppendJoined
<1>13. FlattenSeq(Append(s \o a, b)) = FlattenSeq(s \o a) \o b
  BY <1>7, <1>11, FlattenAppend
<1>14. (FlattenSeq(s) \o FlattenSeq(a)) \o b = FlattenSeq(s) \o (FlattenSeq(a) \o b)
  <2>1. FlattenSeq(s) \in Seq(S) /\ FlattenSeq(a) \in Seq(S) /\ b \in Seq(S)
    BY <1>1, <1>7, <1>10
  <2> QED BY <2>1, ConcatAssociative, SMTT(30)
<1> QED BY <1>8, <1>9, <1>10, <1>12, <1>13, <1>14

\* The pieces behind the first k, and the next of them.
LEMMA FlattenBehind ==
  ASSUME NEW S, NEW t \in Seq(Seq(S)), NEW k \in Nat, k < Len(t)
  PROVE  /\ FlattenSeq(Behind(t, k)) = t[k + 1] \o FlattenSeq(Behind(t, k + 1))
         /\ t[k + 1] \in Seq(S)
         /\ FlattenSeq(Behind(t, k)) \in Seq(S) /\ FlattenSeq(Behind(t, k + 1)) \in Seq(S)
<1> DEFINE b == Behind(t, k)
           c == Behind(t, k + 1)
           x == t[k + 1]
<1>1. Len(t) \in Nat /\ k \in 0..Len(t) /\ k + 1 \in 0..Len(t) /\ k + 1 \in 1..Len(t)
  BY LenProperties
<1>2. b \in Seq(Seq(S)) /\ c \in Seq(Seq(S)) /\ x \in Seq(S)
  BY <1>1, FirstBehind, ElementOfSeq
<1>3. b = <<x>> \o c
  <2>1. k + 1 \in 1..Len(t) /\ Len(t) \in (k + 1)..Len(t)
    BY <1>1
  <2>2. SubSeq(t, k + 1, Len(t)) = <<t[k + 1]>> \o SubSeq(t, (k + 1) + 1, Len(t))
    BY <2>1, SubSeqRecursiveFirst
  <2> QED BY <2>2 DEF Behind
<1> HIDE DEF b, c, x
<1>4. <<x>> \in Seq(Seq(S)) /\ <<>> \in Seq(Seq(S)) /\ <<x>> = Append(<<>>, x)
  BY <1>2
<1>5. FlattenSeq(<<x>>) = x
  <2>1. FlattenSeq(<<x>>) = FlattenSeq(<<>>) \o x
    BY <1>2, <1>4, FlattenAppend, Zenon
  <2>2. <<>> \o x = x
    BY <1>2, ConcatEmptySeq
  <2> QED BY <2>1, <2>2, FlattenEmpty
<1>6. FlattenSeq(b) = x \o FlattenSeq(c)
  BY <1>2, <1>3, <1>4, <1>5, FlattenJoined
<1>7. FlattenSeq(b) \in Seq(S) /\ FlattenSeq(c) \in Seq(S)
  BY <1>2, FlattenType
<1> QED BY <1>2, <1>6, <1>7 DEF b, c, x

-----------------------------------------------------------------------------
\* Sums.

\* The fold of SumOf, as a recursive function on the sets of places up to k.
IsSum(f, s, k) ==
  f = [t \in SUBSET (1..k) |-> IF t = {} THEN 0 ELSE f[t \ {Max(t)}] + s[Max(t)]]

\* The greatest of a set of places, and the others.
LEMMA GreatestPlace ==
  ASSUME NEW k \in Nat, NEW t \in SUBSET (1..k), t # {}
  PROVE  /\ Max(t) \in t /\ Max(t) \in 1..k
         /\ t \ {Max(t)} \in SUBSET (1..(k - 1))
<1>1. t \in SUBSET (0..k)
  OBVIOUS
<1>2. \E a \in t : \A other \in t : other <= a
  BY <1>1, GreatestNumber
<1>3. \A a \in t : a \in Nat /\ 1 <= a /\ a <= k
  OBVIOUS
<1>4. \E a \in t : \A other \in t : a >= other
  BY <1>2, <1>3
<1>5. Max(t) \in t /\ \A other \in t : Max(t) >= other
  BY <1>4 DEF Max
<1>6. ASSUME NEW a \in t, a # Max(t) PROVE a \in 1..(k - 1)
  <2>1. /\ a \in Nat /\ 1 <= a /\ a <= k
        /\ Max(t) \in Nat /\ Max(t) <= k /\ Max(t) >= a
    BY <1>3, <1>5
  <2> QED BY <1>6, <2>1
<1> QED BY <1>3, <1>5, <1>6

\* The places but for the last.
LEMMA LastPlace ==
  ASSUME NEW k \in Nat, NEW l \in Nat, l = k + 1
  PROVE  (1..l) \ {l} = 1..k /\ 1..l # {}
<1>1. l \in 1..l
  OBVIOUS
<1>2. \A i \in 1..k : i \in 1..l /\ i # l
  OBVIOUS
<1>3. \A i \in 1..l : i # l => i \in 1..k
  OBVIOUS
<1> DEFINE A == 1..l
           B == 1..k
<1> HIDE DEF A, B
<1>4. l \in A /\ (\A i \in B : i \in A /\ i # l) /\ (\A i \in A : i # l => i \in B)
  BY <1>1, <1>2, <1>3 DEF A, B
<1>5. A \ {l} = B /\ A # {}
  BY <1>4
<1> QED BY <1>5 DEF A, B

\* Such a function exists, for every number of places.
LEMMA SumExists ==
  ASSUME NEW s, NEW k \in Nat
  PROVE  \A m \in 0..k : \E f : IsSum(f, s, m)
<1> DEFINE S == {m \in 0..k : ~\E f : IsSum(f, s, m)}
<1> SUFFICES ASSUME S # {} PROVE FALSE
  OBVIOUS
<1>1. PICK a \in S : \A other \in S : a <= other
  <2>1. S \in SUBSET (0..k)
    OBVIOUS
  <2> HIDE DEF S
  <2> QED BY <2>1, LeastNumber
<1>2. a \in 0..k /\ ~\E f : IsSum(f, s, a)
  OBVIOUS
<1>3. CASE a = 0
  <2> DEFINE f == [t \in SUBSET (1..0) |-> 0]
  <2>1. \A t \in SUBSET (1..0) : t = {}
    OBVIOUS
  <2>2. f = [t \in SUBSET (1..0) |-> IF t = {} THEN 0 ELSE f[t \ {Max(t)}] + s[Max(t)]]
    BY <2>1
  <2>3. IsSum(f, s, 0)
    BY <2>2 DEF IsSum
  <2> QED BY <1>2, <1>3, <2>3
<1>4. CASE a # 0
  <2>1. a - 1 \in 0..k /\ a - 1 \notin S
    BY <1>1, <1>2, <1>4
  <2>2. PICK e : IsSum(e, s, a - 1)
    BY <2>1
  <2> DEFINE f == [t \in SUBSET (1..a) |-> IF t = {} THEN 0 ELSE e[t \ {Max(t)}] + s[Max(t)]]
  <2>3. \A t \in SUBSET (1..(a - 1)) : t \in SUBSET (1..a)
    BY <1>2
  <2>4. ASSUME NEW t \in SUBSET (1..(a - 1)) PROVE f[t] = e[t]
    <3>1. e[t] = IF t = {} THEN 0 ELSE e[t \ {Max(t)}] + s[Max(t)]
      BY <2>2, Zenon DEF IsSum
    <3>2. t \in SUBSET (1..a)
      BY <2>3
    <3>3. f[t] = IF t = {} THEN 0 ELSE e[t \ {Max(t)}] + s[Max(t)]
      BY <3>2
    <3> QED BY <3>1, <3>3
  <2>5. \A t \in SUBSET (1..a) : t # {} => t \ {Max(t)} \in SUBSET (1..(a - 1))
    BY <1>2, GreatestPlace
  <2>6. ASSUME NEW t \in SUBSET (1..a)
        PROVE  f[t] = IF t = {} THEN 0 ELSE f[t \ {Max(t)}] + s[Max(t)]
    <3>1. t # {} => f[t \ {Max(t)}] = e[t \ {Max(t)}]
      <4> HIDE DEF f
      <4> QED BY <2>4, <2>5
    <3>2. f[t] = IF t = {} THEN 0 ELSE e[t \ {Max(t)}] + s[Max(t)]
      OBVIOUS
    <3> HIDE DEF f
    <3> QED BY <3>1, <3>2
  <2>7. f = [t \in SUBSET (1..a) |-> f[t]]
    OBVIOUS
  <2> HIDE DEF f
  <2>8. IsSum(f, s, a)
    BY <2>6, <2>7 DEF IsSum
  <2> QED BY <1>2, <2>8
<1> QED BY <1>3, <1>4

\* SumOf is the last value of such a function.
LEMMA SumIs ==
  ASSUME NEW s, NEW k \in Nat, DOMAIN s = 1..k
  PROVE  \E f : IsSum(f, s, k) /\ SumOf(s) = f[1..k]
<1> DEFINE g == CHOOSE f : IsSum(f, s, k)
<1>1. SumOf(s) = g[1..k]
  BY Zenon DEF SumOf, FoldLeft, MapThenFoldSet, IsSum
<1>2. \E f : IsSum(f, s, k)
  <2>1. k \in 0..k
    OBVIOUS
  <2> QED BY <2>1, SumExists
<1>3. IsSum(g, s, k)
  BY <1>2
<1> QED BY <1>1, <1>3

\* Partial sums agree on the places both have.
LEMMA SumsAgree ==
  ASSUME NEW s, NEW t, NEW k \in Nat, NEW l \in Nat, k <= l, \A i \in 1..k : s[i] = t[i],
         NEW f, NEW g, IsSum(f, s, k), IsSum(g, t, l)
  PROVE  \A m \in 0..k : f[1..m] = g[1..m]
<1> DEFINE bad == {m \in 0..k : f[1..m] # g[1..m]}
<1> SUFFICES ASSUME bad # {} PROVE FALSE
  OBVIOUS
<1>1. PICK a \in bad : \A other \in bad : a <= other
  <2>1. bad \in SUBSET (0..k)
    OBVIOUS
  <2> HIDE DEF bad
  <2> QED BY <2>1, LeastNumber
<1>2. a \in 0..k /\ f[1..a] # g[1..a] /\ a \in Nat
  OBVIOUS
<1> DEFINE A == 1..a
           B == 1..(a - 1)
<1>3. A \in SUBSET (1..k) /\ A \in SUBSET (1..l)
  BY <1>2
<1>4. /\ f[A] = IF A = {} THEN 0 ELSE f[A \ {Max(A)}] + s[Max(A)]
      /\ g[A] = IF A = {} THEN 0 ELSE g[A \ {Max(A)}] + t[Max(A)]
  <2>1. /\ f = [u \in SUBSET (1..k) |-> IF u = {} THEN 0 ELSE f[u \ {Max(u)}] + s[Max(u)]]
        /\ g = [u \in SUBSET (1..l) |-> IF u = {} THEN 0 ELSE g[u \ {Max(u)}] + t[Max(u)]]
    BY DEF IsSum
  <2> HIDE DEF A
  <2>2. f[A] = IF A = {} THEN 0 ELSE f[A \ {Max(A)}] + s[Max(A)]
    BY <1>3, <2>1, Zenon
  <2>3. g[A] = IF A = {} THEN 0 ELSE g[A \ {Max(A)}] + t[Max(A)]
    BY <1>3, <2>1, Zenon
  <2> QED BY <2>2, <2>3
<1>5. CASE a = 0
  <2>1. A = {}
    BY <1>5
  <2> QED BY <1>2, <1>4, <2>1
<1>6. CASE a # 0
  <2>1. a \in A /\ \A i \in A : a >= i /\ (i >= a => i = a)
    BY <1>2, <1>6
  <2>2. Max(A) = a
    <3> HIDE DEF A
    <3> QED BY <2>1 DEF Max
  <2>3. A \ {a} = B /\ A # {}
    <3>1. a - 1 \in Nat /\ a = (a - 1) + 1
      BY <1>2, <1>6
    <3> QED BY <1>2, <3>1, LastPlace
  <2>4. a - 1 \in 0..k /\ a - 1 \notin bad
    BY <1>1, <1>2, <1>6
  <2>5. f[B] = g[B]
    BY <2>4
  <2>6. s[a] = t[a]
    BY <1>2, <1>6
  <2> HIDE DEF A, B, bad
  <2>7. f[A] = f[B] + s[a] /\ g[A] = g[B] + t[a]
    BY <1>4, <2>2, <2>3
  <2>8. f[A] = g[A]
    BY <2>5, <2>6, <2>7
  <2> QED BY <1>2, <2>8 DEF A
<1> QED BY <1>5, <1>6

\* A sum with one number more.
LEMMA SumAppend ==
  ASSUME NEW s \in Seq(Nat), NEW n \in Nat
  PROVE  SumOf(Append(s, n)) = SumOf(s) + n
<1> DEFINE t == Append(s, n)
           k == Len(s)
           l == k + 1
<1>1. /\ k \in Nat /\ l \in Nat /\ l = k + 1 /\ k <= l /\ \A i \in 1..k : s[i] = t[i]
      /\ t[l] = n /\ DOMAIN s = 1..k /\ DOMAIN t = 1..l
  BY AppendProperties, LenProperties
<1> HIDE DEF t, k, l
<1>2. PICK f : IsSum(f, s, k) /\ SumOf(s) = f[1..k]
  BY <1>1, SumIs
<1>3. PICK g : IsSum(g, t, l) /\ SumOf(t) = g[1..l]
  BY <1>1, SumIs
<1>4. f[1..k] = g[1..k]
  <2>1. k \in 0..k
    BY <1>1
  <2>2. \A m \in 0..k : f[1..m] = g[1..m]
    BY <1>1, <1>2, <1>3, SumsAgree
  <2> QED BY <2>1, <2>2
<1> DEFINE A == 1..l
           B == 1..k
<1>5. g[A] = IF A = {} THEN 0 ELSE g[A \ {Max(A)}] + t[Max(A)]
  <2>1. g = [u \in SUBSET (1..l) |-> IF u = {} THEN 0 ELSE g[u \ {Max(u)}] + t[Max(u)]]
    BY <1>3 DEF IsSum
  <2>2. A \in SUBSET (1..l)
    OBVIOUS
  <2> HIDE DEF A
  <2> QED BY <2>1, <2>2, Zenon
<1>6. l \in A /\ \A i \in A : l >= i /\ (i >= l => i = l)
  BY <1>1
<1>7. Max(A) = l
  <2> HIDE DEF A
  <2> QED BY <1>6 DEF Max
<1>8. A \ {l} = B /\ A # {}
  BY <1>1, LastPlace
<1> HIDE DEF A, B
<1>9. g[A] = g[B] + n
  BY <1>1, <1>5, <1>7, <1>8
<1> QED BY <1>2, <1>3, <1>4, <1>9 DEF A, B, t

\* The sum of nothing.
LEMMA SumEmpty == SumOf(<<>>) = 0
<1>1. DOMAIN <<>> = 1..0 /\ 0 \in Nat
  BY EmptySeq
<1> DEFINE e == <<>>
<1>2. PICK f : IsSum(f, e, 0) /\ SumOf(e) = f[1..0]
  <2>1. DOMAIN e = 1..0
    BY <1>1
  <2> HIDE DEF e
  <2> QED BY <1>1, <2>1, SumIs
<1> HIDE DEF e
<1>3. f = [u \in SUBSET (1..0) |-> IF u = {} THEN 0 ELSE f[u \ {Max(u)}] + e[Max(u)]]
  BY <1>2 DEF IsSum
<1>4. 1..0 = {} /\ 1..0 \in SUBSET (1..0)
  OBVIOUS
<1>5. f[1..0] = 0
  BY <1>3, <1>4, Zenon
<1> QED BY <1>2, <1>5 DEF e

\* How long the joined sequences are.
LEMMA FlattenLength ==
  ASSUME NEW S, NEW s \in Seq(Seq(S)), NEW n \in Seq(Nat), Len(n) = Len(s),
         \A i \in 1..Len(s) : n[i] = Len(s[i])
  PROVE  SumOf(n) = Len(FlattenSeq(s))
<1> DEFINE k == Len(s)
           Good(u) == SumOf(First(n, u)) = Len(FlattenSeq(First(s, u)))
           bad == {u \in 0..k : ~Good(u)}
<1>1. /\ k \in Nat /\ First(s, 0) = <<>> /\ First(s, k) = s
      /\ First(n, 0) = <<>> /\ First(n, k) = n
  BY LenProperties, BehindEnds
<1> SUFFICES ASSUME ~Good(k) PROVE FALSE
  BY <1>1
<1>a. bad # {}
  <2>1. k \in 0..k
    BY <1>1
  <2> HIDE DEF Good, k
  <2> QED BY <2>1
<1>2. PICK u \in bad : \A other \in bad : u <= other
  <2>1. bad \in SUBSET (0..k)
    OBVIOUS
  <2> HIDE DEF bad, k
  <2> QED BY <1>1, <1>a, <2>1, LeastNumber
<1>3. u \in 0..k /\ ~Good(u)
  OBVIOUS
<1>4. u # 0
  <2>1. SumOf(<<>>) = 0 /\ Len(FlattenSeq(<<>>)) = 0
    BY SumEmpty, FlattenEmpty, EmptySeq
  <2> QED BY <1>1, <1>3, <2>1
<1>5. u - 1 \in 0..k /\ u - 1 \notin bad /\ u \in 1..k
  <2>1. u \in Nat /\ u <= k /\ u # 0
    BY <1>1, <1>3, <1>4
  <2> HIDE DEF bad, k
  <2> QED BY <1>1, <1>2, <2>1
<1>6. SumOf(First(n, u - 1)) = Len(FlattenSeq(First(s, u - 1)))
  BY <1>5
<1> DEFINE a == First(s, u - 1)
           b == s[u]
           c == First(n, u - 1)
           d == n[u]
<1>7. a \in Seq(Seq(S)) /\ b \in Seq(S) /\ First(s, u) = Append(a, b)
  BY <1>5, FirstMore
<1>8. c \in Seq(Nat) /\ d \in Nat /\ First(n, u) = Append(c, d)
  <2>1. u \in 1..Len(n)
    BY <1>5
  <2> QED BY <2>1, FirstMore
<1>9. d = Len(b)
  BY <1>5
<1>10. ~(SumOf(Append(c, d)) = Len(FlattenSeq(Append(a, b))))
  BY <1>3, <1>7, <1>8
<1>11. SumOf(c) = Len(FlattenSeq(a))
  BY <1>6
<1> HIDE DEF a, b, c, d, bad, Good, k
<1>12. FlattenSeq(Append(a, b)) = FlattenSeq(a) \o b /\ FlattenSeq(a) \in Seq(S)
  BY <1>7, FlattenAppend, FlattenType
<1>13. Len(FlattenSeq(a) \o b) = Len(FlattenSeq(a)) + Len(b)
  BY <1>7, <1>12, ConcatProperties
<1>14. SumOf(Append(c, d)) = SumOf(c) + d
  BY <1>8, SumAppend
<1> QED BY <1>9, <1>10, <1>11, <1>12, <1>13, <1>14

-----------------------------------------------------------------------------
\* Numbers of one, two and four bytes.

\* A sequence given by its places.
LEMMA Places ==
  ASSUME NEW S, NEW n \in Nat, NEW x, x = [k \in 1..n |-> x[k]], \A k \in 1..n : x[k] \in S
  PROVE  x \in Seq(S) /\ Len(x) = n
<1>1. x \in [1..n -> S]
  OBVIOUS
<1> QED BY <1>1

\* Quotient and remainder of a byte put behind a number.
LEMMA Divided ==
  ASSUME NEW n, NEW a \in Nat, NEW b \in Nat, b < 256, n = 256 * a + b
  PROVE  n \in Nat /\ n \div 256 = a /\ n % 256 = b
BY SMT

\* A number of two bytes, byte by byte.
LEMMA SmallBytes ==
  ASSUME NEW n \in Nat, n < 65536
  PROVE  \E h \in Byte, l \in Byte : n = 256 * h + l
<1> DEFINE high == n \div 256
           low == n % 256
<1>1. high \in Byte /\ low \in Byte /\ n = 256 * high + low
  BY SMT DEF Byte
<1> HIDE DEF high, low
<1> QED BY <1>1, SMT

\* A number of four bytes, in two halves.
LEMMA LargeBytes ==
  ASSUME NEW n \in Nat, n \div 65536 < 65536
  PROVE  \E h \in Nat, l \in Nat : n = 65536 * h + l /\ h < 65536 /\ l < 65536
<1>1. /\ n \div 65536 \in Nat /\ n % 65536 \in Nat /\ n % 65536 < 65536
      /\ n = 65536 * (n \div 65536) + (n % 65536)
  BY SMT
<1> QED BY <1>1, SMT

\* One byte is read back as the number it was written for.
LEMMA OneByteBack ==
  ASSUME NEW n \in Byte
  PROVE  /\ BigEndian(n, 1) \in Seq(Byte) /\ Len(BigEndian(n, 1)) = 1
         /\ Number(BigEndian(n, 1)) = n
<1> DEFINE b == BigEndian(n, 1)
<1>1. b = [k \in 1..1 |-> b[k]] /\ b[1] = n
  <2>1. (n \div 1) % 256 = n
    BY SMT DEF Byte
  <2>2. 1 \in 1..1 /\ Units[1 + 1 - 1] = 1
    BY SMT DEF Units
  <2>3. b = [k \in 1..1 |-> (n \div Units[1 + 1 - k]) % 256]
    BY DEF BigEndian
  <2> HIDE DEF b
  <2>4. b[1] = (n \div Units[1 + 1 - 1]) % 256
    BY <2>2, <2>3, SMT
  <2>5. b = [k \in 1..1 |-> b[k]]
    BY <2>3, SMT
  <2> QED BY <2>1, <2>2, <2>4, <2>5, SMT
<1> HIDE DEF b
<1>2. \A k \in 1..1 : b[k] \in Byte
  BY <1>1
<1>3. b \in Seq(Byte) /\ Len(b) = 1
  BY <1>1, <1>2, Places
<1>4. Number(b) = n
  <2>1. /\ b[Len(b) + 1 - 1] = n /\ 1 <= Len(b) /\ ~(2 <= Len(b)) /\ ~(3 <= Len(b)) /\ ~(4 <= Len(b))
        /\ Units[2] * 0 = 0 /\ Units[3] * 0 = 0 /\ Units[4] * 0 = 0 /\ n + 0 + 0 + 0 = n
    BY <1>1, <1>3, SMT DEF Units, Byte
  <2> QED BY <2>1, Zenon DEF Number
<1> QED BY <1>3, <1>4 DEF b

\* Two given bytes are read back as their number.
LEMMA TwoBytesForm ==
  ASSUME NEW h \in Byte, NEW l \in Byte, NEW n, n = 256 * h + l
  PROVE  /\ BigEndian(n, 2) \in Seq(Byte) /\ Len(BigEndian(n, 2)) = 2
         /\ Number(BigEndian(n, 2)) = n
<1> DEFINE b == BigEndian(n, 2)
<1>1. n \in Nat /\ (n \div 256) % 256 = h /\ (n \div 1) % 256 = l
  BY SMT DEF Byte
<1>2. b = [k \in 1..2 |-> b[k]] /\ b[1] = h /\ b[2] = l
  <2>1. 1 \in 1..2 /\ 2 \in 1..2 /\ Units[2 + 1 - 1] = 256 /\ Units[2 + 1 - 2] = 1
    BY SMT DEF Units
  <2>2. b = [k \in 1..2 |-> (n \div Units[2 + 1 - k]) % 256]
    BY SMT DEF BigEndian
  <2> HIDE DEF b
  <2>3. b[1] = (n \div Units[2 + 1 - 1]) % 256 /\ b[2] = (n \div Units[2 + 1 - 2]) % 256
    BY <2>1, <2>2, SMT
  <2>4. b = [k \in 1..2 |-> b[k]]
    BY <2>2, SMT
  <2> QED BY <1>1, <2>1, <2>3, <2>4, SMT
<1> HIDE DEF b
<1>3. \A k \in 1..2 : b[k] \in Byte
  <2> TAKE k \in 1..2
  <2>1. k = 1 \/ k = 2
    BY SMT
  <2> QED BY <1>2, <2>1, Zenon
<1>4. b \in Seq(Byte) /\ Len(b) = 2
  BY <1>2, <1>3, Places
<1>5. Number(b) = n
  <2>1. /\ 1 <= Len(b) /\ 2 <= Len(b) /\ ~(3 <= Len(b)) /\ ~(4 <= Len(b))
        /\ b[Len(b) + 1 - 1] = l /\ b[Len(b) + 1 - 2] = h
    BY <1>2, <1>4, SMT
  <2>2. l + Units[2] * h + Units[3] * 0 + Units[4] * 0 = n
    BY SMT DEF Units, Byte
  <2> QED BY <2>1, <2>2, Zenon DEF Number
<1> QED BY <1>4, <1>5 DEF b

\* A number of two bytes is read back as it was written.
LEMMA TwoBytesBack ==
  ASSUME NEW n \in Nat, n < 65536
  PROVE  /\ BigEndian(n, 2) \in Seq(Byte) /\ Len(BigEndian(n, 2)) = 2
         /\ Number(BigEndian(n, 2)) = n
BY SmallBytes, TwoBytesForm, SMT

\* Four given bytes are read back as their number.
LEMMA FourBytesForm ==
  ASSUME NEW p \in Byte, NEW q \in Byte, NEW r \in Byte, NEW s \in Byte, NEW x, NEW m, NEW n,
         x = 256 * p + q, m = 256 * x + r, n = 256 * m + s
  PROVE  /\ BigEndian(n, 4) \in Seq(Byte) /\ Len(BigEndian(n, 4)) = 4
         /\ Number(BigEndian(n, 4)) = n
<1> DEFINE b == BigEndian(n, 4)
<1>1. /\ p \in Nat /\ p < 256 /\ q \in Nat /\ q < 256 /\ r \in Nat /\ r < 256 /\ s \in Nat /\ s < 256
      /\ x \in Nat /\ m \in Nat /\ n \in Nat
  BY SMT DEF Byte
<1>2. x % 256 = q /\ x \div 256 = p /\ p % 256 = p
  BY <1>1, Divided, SMT
<1>3. m % 256 = r /\ m \div 256 = x
  BY <1>1, Divided, SMT
<1>4. n % 256 = s /\ n \div 256 = m
  BY <1>1, Divided, SMT
<1>5. n \div (256 * 256) = (n \div 256) \div 256
  BY <1>1, SMT
<1>6. n \div (256 * 256 * 256) = (n \div (256 * 256)) \div 256
  BY <1>1, SMT
<1>7. n \div (256 * 256) = x /\ n \div (256 * 256 * 256) = p
  BY <1>2, <1>3, <1>4, <1>5, <1>6, SMT
<1>8. n \div 1 = n
  BY <1>1, SMT
<1>9. b = [k \in 1..4 |-> b[k]] /\ b[1] = p /\ b[2] = q /\ b[3] = r /\ b[4] = s
  <2>1. /\ 1 \in 1..4 /\ 2 \in 1..4 /\ 3 \in 1..4 /\ 4 \in 1..4
        /\ Units[4 + 1 - 1] = 256 * 256 * 256 /\ Units[4 + 1 - 2] = 256 * 256
        /\ Units[4 + 1 - 3] = 256 /\ Units[4 + 1 - 4] = 1
    BY SMT DEF Units
  <2>2. b = [k \in 1..4 |-> (n \div Units[4 + 1 - k]) % 256]
    BY SMT DEF BigEndian
  <2> HIDE DEF b
  <2>3. /\ b[1] = (n \div Units[4 + 1 - 1]) % 256 /\ b[2] = (n \div Units[4 + 1 - 2]) % 256
        /\ b[3] = (n \div Units[4 + 1 - 3]) % 256 /\ b[4] = (n \div Units[4 + 1 - 4]) % 256
    BY <2>1, <2>2, SMT
  <2>4. b = [k \in 1..4 |-> b[k]]
    BY <2>2, SMT
  <2> QED BY <1>2, <1>3, <1>4, <1>7, <1>8, <2>1, <2>3, <2>4, SMT
<1> HIDE DEF b
<1>10. \A k \in 1..4 : b[k] \in Byte
  <2> TAKE k \in 1..4
  <2>1. k = 1 \/ k = 2 \/ k = 3 \/ k = 4
    BY SMT
  <2> QED BY <1>9, <2>1, Zenon
<1>11. b \in Seq(Byte) /\ Len(b) = 4
  BY <1>9, <1>10, Places
<1>12. Number(b) = n
  <2>1. /\ 1 <= Len(b) /\ 2 <= Len(b) /\ 3 <= Len(b) /\ 4 <= Len(b)
        /\ b[Len(b) + 1 - 1] = s /\ b[Len(b) + 1 - 2] = r
        /\ b[Len(b) + 1 - 3] = q /\ b[Len(b) + 1 - 4] = p
    BY <1>9, <1>11, SMT
  <2>2. s + Units[2] * r + Units[3] * q + Units[4] * p = n
    BY <1>1, SMT DEF Units
  <2> QED BY <2>1, <2>2, SMTT(30) DEF Number
<1> QED BY <1>11, <1>12, Zenon DEF b

\* A number of four bytes is read back as it was written.
LEMMA FourBytesBack ==
  ASSUME NEW n \in Nat, n \div 65536 < 65536
  PROVE  /\ BigEndian(n, 4) \in Seq(Byte) /\ Len(BigEndian(n, 4)) = 4
         /\ Number(BigEndian(n, 4)) = n
<1>1. PICK x \in Nat, y \in Nat : n = 65536 * x + y /\ x < 65536 /\ y < 65536
  BY LargeBytes, SMT
<1>2. PICK p \in Byte, q \in Byte : x = 256 * p + q
  BY <1>1, SmallBytes, SMT
<1>3. PICK r \in Byte, s \in Byte : y = 256 * r + s
  BY <1>1, SmallBytes, SMT
<1>4. n = 256 * (256 * x + r) + s
  BY <1>1, <1>3, SMT DEF Byte
<1> QED BY <1>2, <1>4, FourBytesForm, SMT

-----------------------------------------------------------------------------
\* Variable lengths.

Septet == 0..127
\* A variable length, seven bits at a time.
Digit(n, k) == (n \div LengthUnits[k]) % 128

\* The least of a set of numbers.
LEMMA LeastIs ==
  ASSUME NEW S \in SUBSET Nat, NEW x \in S, \A y \in S : x <= y
  PROVE  Min(S) = x
<1>1. \A y \in S : (\A z \in S : y <= z) => y = x
  <2> TAKE y \in S
  <2> HAVE \A z \in S : y <= z
  <2>1. y <= x /\ x <= y /\ x \in Nat /\ y \in Nat
    BY SMT
  <2> QED BY <2>1, SMT
<1>2. \E y \in S : \A z \in S : y <= z
  OBVIOUS
<1>3. Min(S) \in S /\ \A z \in S : Min(S) <= z
  BY <1>2, Zenon DEF Min
<1> QED BY <1>1, <1>3, Zenon

\* How many bytes a variable length takes.
LEMMA VarSizeIs ==
  ASSUME NEW n \in Nat
  PROVE  /\ VarSize(n) \in 1..4
         /\ n < 128 * LengthUnits[VarSize(n)] \/ VarSize(n) = 4
         /\ VarSize(n) > 1 => n >= 128
         /\ VarSize(n) > 2 => n >= 128 * 128
         /\ VarSize(n) > 3 => n >= 128 * 128 * 128
         /\ n >= 128 * 128 * 128 => VarSize(n) = 4
<1> DEFINE fits == {k \in 1..4 : k = 4 \/ n < 128 * LengthUnits[k]}
           s == Min(fits)
<1>1. /\ LengthUnits[1] = 1 /\ LengthUnits[2] = 128 /\ LengthUnits[3] = 128 * 128
      /\ LengthUnits[4] = 128 * 128 * 128
  BY SMT DEF LengthUnits
<1>2. fits \in SUBSET (0..4) /\ 4 \in fits /\ fits # {} /\ fits \in SUBSET Nat
  BY SMT
<1>3. \A k : k \in fits <=> (k \in 1..4 /\ (k = 4 \/ n < 128 * LengthUnits[k]))
  BY SMT
<1> HIDE DEF fits
<1>4. PICK a \in fits : \A other \in fits : a <= other
  <2>1. 4 \in Nat
    BY SMT
  <2> QED BY <1>2, <2>1, LeastNumber, SMT
<1>5. Min(fits) = a
  BY <1>2, <1>4, LeastIs
<1>6. VarSize(n) = a
  BY <1>5, Zenon DEF VarSize, fits
<1>7. a \in 1..4 /\ (a = 4 \/ n < 128 * LengthUnits[a])
  BY <1>3, <1>4, Zenon
<1>8. \A k \in 1..4 : n < 128 * LengthUnits[k] => a <= k
  BY <1>3, <1>4, Zenon
<1>9. /\ a > 1 => ~(n < 128 * LengthUnits[1])
      /\ a > 2 => ~(n < 128 * LengthUnits[2])
      /\ a > 3 => ~(n < 128 * LengthUnits[3])
  BY <1>7, <1>8, SMT
<1>10. /\ a > 1 => n >= 128
       /\ a > 2 => n >= 128 * 128
       /\ a > 3 => n >= 128 * 128 * 128
  BY <1>1, <1>9, SMT
<1>11. n >= 128 * 128 * 128 => a = 4
  <2>1. a = 1 \/ a = 2 \/ a = 3 \/ a = 4
    BY <1>7, SMT
  <2> QED BY <1>1, <1>7, <2>1, SMT
<1> QED BY <1>6, <1>7, <1>10, <1>11, Zenon

\* Seven bits at a time.
LEMMA Sevens ==
  ASSUME NEW n, NEW a \in Nat, NEW b \in Nat, b < 128, n = 128 * a + b
  PROVE  n \in Nat /\ n \div 128 = a /\ n % 128 = b
BY SMT

\* A length that can be written is the sum of its digits.
LEMMA DigitsOf ==
  ASSUME NEW n \in Nat, n < LengthLimit
  PROVE  /\ Digit(n, 1) \in Septet /\ Digit(n, 2) \in Septet /\ Digit(n, 3) \in Septet
         /\ Digit(n, 4) \in Septet
         /\ n = Digit(n, 1) + 128 * Digit(n, 2) + (128 * 128) * Digit(n, 3)
                  + (128 * 128 * 128) * Digit(n, 4)
         /\ n < 128 => Digit(n, 2) = 0 /\ Digit(n, 3) = 0 /\ Digit(n, 4) = 0
         /\ n < 128 * 128 => Digit(n, 3) = 0 /\ Digit(n, 4) = 0
         /\ n < 128 * 128 * 128 => Digit(n, 4) = 0
<1>1. /\ LengthUnits[1] = 1 /\ LengthUnits[2] = 128 /\ LengthUnits[3] = 128 * 128
      /\ LengthUnits[4] = 128 * 128 * 128
  BY SMT DEF LengthUnits
<1> DEFINE m == n \div 128
           l == m \div 128
           k == l \div 128
<1>2. m \in Nat /\ n = 128 * m + (n % 128) /\ n % 128 \in Septet
  BY SMT DEF Septet
<1>3. l \in Nat /\ m = 128 * l + (m % 128) /\ m % 128 \in Septet
  <2> HIDE DEF m
  <2> QED BY <1>2, SMT DEF Septet
<1>4. k \in Nat /\ l = 128 * k + (l % 128) /\ l % 128 \in Septet
  <2> HIDE DEF m, l
  <2> QED BY <1>3, SMT DEF Septet
<1>5. n \div 1 = n
  BY SMT
<1>6. n \div (128 * 128) = l
  <2>1. n \div (128 * 128) = (n \div 128) \div 128
    BY SMT
  <2> QED BY <2>1, SMT
<1>7. n \div (128 * 128 * 128) = k
  <2>1. n \div (128 * 128 * 128) = (n \div (128 * 128)) \div 128
    BY SMT
  <2> QED BY <1>6, <2>1, SMT
<1>8. /\ Digit(n, 1) = n % 128 /\ Digit(n, 2) = m % 128 /\ Digit(n, 3) = l % 128
      /\ Digit(n, 4) = k % 128
  <2> DEFINE q == n \div 128
  <2>1. m = q
    BY SMT
  <2> HIDE DEF m, l, k
  <2> QED BY <1>1, <1>5, <1>6, <1>7, <2>1, SMT DEF Digit, q
<1> DEFINE d0 == n % 128
           d1 == m % 128
           d2 == l % 128
<1>9. n = 128 * m + d0 /\ d0 \in Septet
  BY <1>2, SMT
<1>10. m = 128 * l + d1 /\ d1 \in Septet /\ l = 128 * k + d2 /\ d2 \in Septet
  BY <1>3, <1>4, SMT
<1>11. Digit(n, 1) = d0 /\ Digit(n, 2) = d1 /\ Digit(n, 3) = d2
  BY <1>8, SMT
<1> HIDE DEF m, l, k, d0, d1, d2
<1>12. n = d0 + 128 * d1 + (128 * 128) * d2 + (128 * 128 * 128) * k
  BY <1>2, <1>3, <1>4, <1>9, <1>10, SMT DEF Septet
<1>13. k \in Septet /\ k % 128 = k
  <2>1. n < 128 * 128 * 128 * 128
    BY SMT DEF LengthLimit
  <2>2. (128 * 128 * 128) * k <= n
    BY <1>4, <1>10, <1>9, <1>12, SMT DEF Septet
  <2>3. k < 128
    BY <1>4, <2>1, <2>2, SMT
  <2> QED BY <1>4, <2>3, SMT DEF Septet
<1>14. /\ n < 128 => d1 = 0 /\ d2 = 0 /\ k = 0
       /\ n < 128 * 128 => d2 = 0 /\ k = 0
       /\ n < 128 * 128 * 128 => k = 0
  BY <1>9, <1>10, <1>12, <1>13, SMT DEF Septet
<1> QED BY <1>8, <1>9, <1>10, <1>11, <1>12, <1>13, <1>14, SMT

\* The bytes of a variable length: one digit each, and the bit that says that another follows.
LEMMA LengthType ==
  ASSUME NEW n \in Nat
  PROVE  /\ VarBytes(n) \in Seq(Byte) /\ Len(VarBytes(n)) = VarSize(n) /\ VarSize(n) \in 1..4
         /\ \A k \in 1..VarSize(n) :
              VarBytes(n)[k] = Digit(n, k) + (IF k < VarSize(n) THEN 128 ELSE 0)
<1> DEFINE b == VarBytes(n)
           s == VarSize(n)
<1>1. b = [k \in 1..s |-> Digit(n, k) + (IF k < s THEN 128 ELSE 0)]
  BY Zenon DEF VarBytes, Digit
<1>2. s \in 1..4
  BY VarSizeIs
<1> HIDE DEF b, s
<1>3. /\ LengthUnits[1] = 1 /\ LengthUnits[2] = 128 /\ LengthUnits[3] = 128 * 128
      /\ LengthUnits[4] = 128 * 128 * 128
  BY SMT DEF LengthUnits
<1>4. \A k \in 1..4 : Digit(n, k) \in Septet
  <2> TAKE k \in 1..4
  <2>1. k = 1 \/ k = 2 \/ k = 3 \/ k = 4
    BY SMT
  <2>2. (n \div 1) % 128 \in Septet /\ (n \div 128) % 128 \in Septet
        /\ (n \div (128 * 128)) % 128 \in Septet /\ (n \div (128 * 128 * 128)) % 128 \in Septet
    BY SMT DEF Septet
  <2> QED BY <1>3, <2>1, <2>2, SMT DEF Digit
<1>5. \A k \in 1..s : b[k] = Digit(n, k) + (IF k < s THEN 128 ELSE 0)
  BY <1>1, Zenon
<1>6. \A k \in 1..s : b[k] \in Byte
  <2> TAKE k \in 1..s
  <2>1. k \in 1..4 /\ k \in 1..s
    BY <1>2, SMT
  <2> QED BY <1>4, <1>5, <2>1, SMTT(30) DEF Septet, Byte
<1>7. s \in Nat /\ b = [k \in 1..s |-> b[k]]
  BY <1>1, <1>2, SMT
<1>8. b \in Seq(Byte) /\ Len(b) = s
  BY <1>6, <1>7, Places
<1> QED BY <1>2, <1>5, <1>8, Zenon DEF b, s

\* What a byte of a variable length says.
LEMMA SeptetBits ==
  ASSUME NEW d \in Septet, NEW x
  PROVE  /\ x = d + 0 => x < 128 /\ x % 128 = d
         /\ x = d + 128 => ~(x < 128) /\ x % 128 = d
BY SMT DEF Septet

\* A length is read back from whatever follows it.
LEMMA LengthBack ==
  ASSUME NEW n \in Nat, n < LengthLimit, NEW rest \in Seq(Byte)
  PROVE  /\ LengthEnd(VarBytes(n) \o rest) = Len(VarBytes(n))
         /\ LengthValue(VarBytes(n) \o rest, Len(VarBytes(n))) = n
         /\ Len(VarBytes(n)) \in 1..4 /\ VarBytes(n) \in Seq(Byte)
<1> DEFINE b == VarBytes(n)
           s == VarSize(n)
           c == b \o rest
<1>1. /\ b \in Seq(Byte) /\ Len(b) = s /\ s \in 1..4
      /\ \A k \in 1..s : b[k] = Digit(n, k) + (IF k < s THEN 128 ELSE 0)
  BY LengthType
<1>2. /\ c \in Seq(Byte) /\ Len(c) = Len(b) + Len(rest) /\ Len(rest) \in Nat
      /\ \A i \in 1..Len(b) : c[i] = b[i]
  BY <1>1, OfJoined
<1>3. /\ s > 1 => n >= 128
      /\ s > 2 => n >= 128 * 128
      /\ s > 3 => n >= 128 * 128 * 128
      /\ s = 1 => n < 128
      /\ s = 2 => n < 128 * 128
      /\ s = 3 => n < 128 * 128 * 128
  <2>1. /\ LengthUnits[1] = 1 /\ LengthUnits[2] = 128 /\ LengthUnits[3] = 128 * 128
    BY SMT DEF LengthUnits
  <2>2. /\ n < 128 * LengthUnits[s] \/ s = 4
        /\ s > 1 => n >= 128
        /\ s > 2 => n >= 128 * 128
        /\ s > 3 => n >= 128 * 128 * 128
    BY VarSizeIs, SMT
  <2> HIDE DEF s
  <2> QED BY <1>1, <2>1, <2>2, SMT
<1> HIDE DEF b, s, c
<1>4. \A k \in 1..s : c[k] = Digit(n, k) + (IF k < s THEN 128 ELSE 0)
  BY <1>1, <1>2, SMT
<1>5. /\ Digit(n, 1) \in Septet /\ Digit(n, 2) \in Septet /\ Digit(n, 3) \in Septet
      /\ Digit(n, 4) \in Septet
      /\ n = Digit(n, 1) + 128 * Digit(n, 2) + (128 * 128) * Digit(n, 3)
                  + (128 * 128 * 128) * Digit(n, 4)
      /\ n < 128 => Digit(n, 2) = 0 /\ Digit(n, 3) = 0 /\ Digit(n, 4) = 0
      /\ n < 128 * 128 => Digit(n, 3) = 0 /\ Digit(n, 4) = 0
      /\ n < 128 * 128 * 128 => Digit(n, 4) = 0
  BY DigitsOf
<1>6. \A k \in 1..4 : Digit(n, k) \in Septet
  <2> TAKE k \in 1..4
  <2>1. k = 1 \/ k = 2 \/ k = 3 \/ k = 4
    BY SMT
  <2> QED BY <1>5, <2>1, Zenon
<1>7. LengthEnd(c) = s
  <2> DEFINE ends == {k \in 1..4 : k \in DOMAIN c /\ c[k] < 128}
  <2>1. DOMAIN c = 1..Len(c) /\ s \in DOMAIN c
    BY <1>1, <1>2, SMT
  <2>2. c[s] < 128
    <3>1. c[s] = Digit(n, s) + 0 /\ Digit(n, s) \in Septet
      BY <1>1, <1>4, <1>6, SMT
    <3> QED BY <3>1, SeptetBits
  <2>3. ASSUME NEW k \in 1..4, k < s PROVE ~(c[k] < 128)
    <3>1. k \in 1..s
      BY <1>1, <2>3, SMT
    <3>2. c[k] = Digit(n, k) + 128 /\ Digit(n, k) \in Septet
      BY <1>4, <1>6, <2>3, <3>1, SMT
    <3> QED BY <3>2, SeptetBits
  <2>4. s \in ends /\ ends \in SUBSET Nat
    BY <1>1, <2>1, <2>2, SMT
  <2>5. \A k \in ends : s <= k
    <3> TAKE k \in ends
    <3>1. k \in 1..4 /\ c[k] < 128
      OBVIOUS
    <3> QED BY <1>1, <2>3, <3>1, SMT
  <2> HIDE DEF ends
  <2>6. Min(ends) = s /\ ends # {}
    BY <2>4, <2>5, LeastIs
  <2> QED BY <2>6, Zenon DEF LengthEnd, ends
<1>8. LengthValue(c, s) = n
  <2> DEFINE d(k) == IF k <= s THEN c[k] % 128 ELSE 0
  <2>1. ASSUME NEW k \in 1..4 PROVE d(k) = IF k <= s THEN Digit(n, k) ELSE 0
    <3>1. CASE k <= s
      <4>1. k \in 1..s
        BY <1>1, <3>1, SMT
      <4>2. c[k] = Digit(n, k) + (IF k < s THEN 128 ELSE 0) /\ Digit(n, k) \in Septet
        BY <1>4, <1>6, <4>1, SMT
      <4>3. c[k] % 128 = Digit(n, k)
        BY <4>2, SeptetBits
      <4> QED BY <3>1, <4>3, Zenon
    <3>2. CASE ~(k <= s)
      BY <3>2, Zenon
    <3> QED BY <3>1, <3>2, Zenon
  <2>2. d(1) = Digit(n, 1) /\ d(2) = Digit(n, 2) /\ d(3) = Digit(n, 3) /\ d(4) = Digit(n, 4)
    <3>1. /\ d(1) = (IF 1 <= s THEN Digit(n, 1) ELSE 0) /\ d(2) = (IF 2 <= s THEN Digit(n, 2) ELSE 0)
          /\ d(3) = (IF 3 <= s THEN Digit(n, 3) ELSE 0) /\ d(4) = (IF 4 <= s THEN Digit(n, 4) ELSE 0)
      BY <2>1, SMT
    <3> HIDE DEF d
    <3>2. s = 1 \/ s = 2 \/ s = 3 \/ s = 4
      BY <1>1, SMT
    <3> QED BY <1>3, <1>5, <3>1, <3>2, SMT
  <2>3. LengthValue(c, s) = d(1) + LengthUnits[2] * d(2) + LengthUnits[3] * d(3) + LengthUnits[4] * d(4)
    BY Zenon DEF LengthValue
  <2>4. LengthUnits[2] = 128 /\ LengthUnits[3] = 128 * 128 /\ LengthUnits[4] = 128 * 128 * 128
    BY SMT DEF LengthUnits
  <2> HIDE DEF d
  <2> QED BY <1>5, <2>2, <2>3, <2>4, SMT
<1> QED BY <1>1, <1>7, <1>8, Zenon DEF b, s, c

-----------------------------------------------------------------------------
\* Texts and properties.

\* A text on the wire: the two bytes of its length, then its bytes.
LEMMA TextIs ==
  ASSUME NEW s \in Strings
  PROVE  /\ s \in Seq(Byte) /\ Len(s) \in Nat /\ Len(s) < 65536
         /\ BigEndian(Len(s), 2) \in Seq(Byte) /\ Len(BigEndian(Len(s), 2)) = 2
         /\ Number(BigEndian(Len(s), 2)) = Len(s)
         /\ Text(s) = BigEndian(Len(s), 2) \o s
         /\ Text(s) \in Seq(Byte) /\ Len(Text(s)) = 2 + Len(s)
<1>1. s \in Seq(Byte) /\ Len(s) \in Nat
  BY SMT DEF Strings
<1>7. Len(s) < 65536
  BY SMT DEF Strings
<1>2. BigEndian(Len(s), 2) \in Seq(Byte) /\ Len(BigEndian(Len(s), 2)) = 2 /\ Number(BigEndian(Len(s), 2)) = Len(s)
  BY <1>1, <1>7, TwoBytesBack, SMT
<1> DEFINE b == BigEndian(Len(s), 2)
<1>3. Text(s) = b \o s
  BY Zenon DEF Text
<1>4. b \in Seq(Byte) /\ Len(b) = 2
  BY <1>2, Zenon
<1> HIDE DEF b
<1>5. b \o s \in Seq(Byte) /\ Len(b \o s) = Len(b) + Len(s)
  BY <1>1, <1>4, OfJoined
<1>6. Text(s) \in Seq(Byte) /\ Len(Text(s)) = 2 + Len(s)
  BY <1>1, <1>3, <1>4, <1>5, SMT
<1> QED BY <1>1, <1>2, <1>3, <1>6, <1>7, SMT DEF b

\* Joining associates.
LEMMA Associate ==
  ASSUME NEW S, NEW x \in Seq(S), NEW y \in Seq(S), NEW z \in Seq(S)
  PROVE  (x \o y) \o z = x \o (y \o z)
BY ConcatAssociative, SMT

\* Three byte sequences that are joined.
LEMMA AssociateBytes ==
  ASSUME NEW x \in Seq(Byte), NEW y \in Seq(Byte), NEW z \in Seq(Byte)
  PROVE  (x \o y) \o z = x \o (y \o z)
BY Associate, SMTT(30)

\* A text that is read off the front of what follows it.
LEMMA TextBack ==
  ASSUME NEW s \in Strings, NEW r \in Seq(Byte)
  PROVE  /\ TextUsed(Text(s) \o r) = Len(Text(s)) /\ TextAt(Text(s) \o r) = s
         /\ Behind(Text(s) \o r, TextUsed(Text(s) \o r)) = r
         /\ First(Text(s) \o r, 2) = BigEndian(Len(s), 2)
<1> DEFINE b == BigEndian(Len(s), 2)
           x == Text(s)
           c == x \o r
<1>1. /\ s \in Seq(Byte) /\ Len(s) \in Nat /\ b \in Seq(Byte) /\ Len(b) = 2 /\ Number(b) = Len(s)
      /\ x = b \o s /\ x \in Seq(Byte) /\ Len(x) = 2 + Len(s)
  BY TextIs, SMT
<1> HIDE DEF b, x
<1>2. c = b \o (s \o r) /\ s \o r \in Seq(Byte)
  <2>1. b \in Seq(Byte) /\ s \in Seq(Byte) /\ r \in Seq(Byte)
    BY <1>1
  <2>2. (b \o s) \o r = b \o (s \o r)
    BY ONLY <2>1, AssociateBytes, SMTT(30)
  <2>3. s \o r \in Seq(Byte)
    BY ONLY <2>1, OfJoined, ZenonT(30)
  <2> QED BY <1>1, <2>2, <2>3
<1>3. c \in Seq(Byte) /\ Len(c) = Len(x) + Len(r) /\ Behind(c, Len(x)) = r /\ First(c, Len(x)) = x
      /\ Len(r) \in Nat
  BY <1>1, OfJoined, ZenonT(60)
<1> HIDE DEF c
<1>4. First(c, Len(b)) = b /\ Behind(c, Len(b)) = s \o r
  BY <1>1, <1>2, OfJoined, ZenonT(60)
<1>5. TextUsed(c) = Len(x)
  <2>1. ~(Len(c) < 2) /\ First(c, 2) = b
    BY <1>1, <1>3, <1>4, SMT
  <2> QED BY <1>1, <2>1 DEF TextUsed
<1>6. TextAt(c) = s
  <2>1. TextAt(c) = SubSeq(c, 3, Len(x))
    BY <1>5, Zenon DEF TextAt
  <2> DEFINE m == Len(x)
             k == Len(s)
             t == SubSeq(c, 3, m)
             w == s \o r
  <2>2. m \in Nat /\ m = 2 + k /\ k \in Nat /\ Len(c) = m + Len(r) /\ k >= 0
    BY <1>1, <1>3, SMT
  <2>3. /\ Behind(c, 2) \in Seq(Byte) /\ Len(Behind(c, 2)) = Len(c) - 2
        /\ \A i \in 1..(Len(c) - 2) : Behind(c, 2)[i] = c[2 + i]
    <3> DEFINE two == Len(b)
    <3>1. two \in 0..Len(c) /\ two = 2
      BY <1>1, <1>3, <2>2, SMT
    <3> HIDE DEF two
    <3>2. /\ Behind(c, two) \in Seq(Byte) /\ Len(Behind(c, two)) = Len(c) - two
          /\ \A i \in 1..(Len(c) - two) : Behind(c, two)[i] = c[two + i]
      BY <1>3, <3>1, FirstBehind, ZenonT(60)
    <3> QED BY <3>1, <3>2
  <2>4. \A i \in 1..k : w[i] = s[i]
    BY <1>1, OfJoined
  <2>5. \A i \in 3..m : c[i] \in Byte
    <3> TAKE i \in 3..m
    <3>1. i \in 1..Len(c)
      BY <1>3, <2>2, SMT
    <3> QED BY <1>3, <3>1, ElementOfSeq, SMT
  <2>6. /\ t \in Seq(Byte) /\ Len(t) = (IF 3 <= m THEN m - 3 + 1 ELSE 0)
        /\ \A i \in 1..(m - 3 + 1) : t[i] = c[3 + i - 1]
    <3> HIDE DEF m
    <3>1. 3 \in Nat /\ m \in Nat
      BY <2>2, SMT
    <3> QED BY <1>3, <2>5, <3>1, SubSeqProperties, SMT
  <2>7. Behind(c, 2) = w
    BY <1>1, <1>4, SMT
  <2> HIDE DEF m, k, t, w
  <2>8. Len(t) = k
    BY <2>2, <2>6, SMT
  <2>9. \A i \in 1..k : t[i] = s[i]
    <3> TAKE i \in 1..k
    <3>1. i \in 1..(m - 3 + 1) /\ 3 + i - 1 = 2 + i /\ i \in 1..(Len(c) - 2)
      BY <1>3, <2>2, SMT
    <3>2. t[i] = c[2 + i]
      BY <2>6, <3>1, SMT
    <3>3. c[2 + i] = w[i]
      BY <2>3, <2>7, <3>1, SMT
    <3> QED BY <2>4, <3>2, <3>3, SMT
  <2>10. t = s
    <3>1. Len(s) = k
      BY DEF k
    <3> QED BY <1>1, <2>6, <2>8, <2>9, <3>1, SeqEqual, SMT
  <2> QED BY <2>1, <2>10, Zenon DEF t, m
<1>7. First(c, 2) = b
  BY <1>1, <1>4, SMT
<1>8. Behind(c, TextUsed(c)) = r
  BY <1>3, <1>5, SMT
<1> QED BY <1>5, <1>6, <1>7, <1>8, Zenon DEF b, x, c

\* The sorts of property.
IsText(p) ==
  p.id \in TextIds /\ p.id \notin VariableIds /\ p.id \notin PairIds /\ p.val \in Strings
IsVariable(p) ==
  /\ p.id \notin TextIds /\ p.id \in VariableIds /\ p.id \notin PairIds
  /\ p.val \in Nat /\ p.val < LengthLimit
IsPair(p) ==
  /\ p.id \notin TextIds /\ p.id \notin VariableIds /\ p.id \in PairIds
  /\ p.val[1] \in Strings /\ p.val[2] \in Strings /\ p.val = <<p.val[1], p.val[2]>>
IsNumber(p) ==
  /\ p.id \notin TextIds /\ p.id \notin VariableIds /\ p.id \notin PairIds
  /\ NumberSize(p.id) \in {1, 2, 4}
  /\ BigEndian(p.val, NumberSize(p.id)) \in Seq(Byte)
  /\ Len(BigEndian(p.val, NumberSize(p.id))) = NumberSize(p.id)
  /\ Number(BigEndian(p.val, NumberSize(p.id))) = p.val

\* What two bytes can hold.
LEMMA InTwoBytes ==
  ASSUME NEW n \in TwoBytes
  PROVE  n \in Nat /\ n < 65536
BY SMT DEF TwoBytes

\* The length that is too great to be written is a number.
LEMMA LimitIsNumber == LengthLimit \in Nat
BY SMT DEF LengthLimit

\* Lengths that can be written.
LEMMA BelowLimit ==
  ASSUME NEW n \in 0..(LengthLimit - 1)
  PROVE  n \in Nat /\ n < LengthLimit
BY LimitIsNumber, SMT

\* Every property is of one of these sorts.
LEMMA PropertySorts ==
  ASSUME NEW p \in PropertyValues
  PROVE  /\ p.id \in Byte /\ p = [id |-> p.id, val |-> p.val]
         /\ IsText(p) \/ IsVariable(p) \/ IsPair(p) \/ IsNumber(p)
<1>1. p \in [id : OneByteIds, val : Byte]
      => p.id \in Byte /\ p = [id |-> p.id, val |-> p.val] /\ IsNumber(p)
  <2> SUFFICES ASSUME p \in [id : OneByteIds, val : Byte]
               PROVE  p.id \in Byte /\ p = [id |-> p.id, val |-> p.val] /\ IsNumber(p)
    OBVIOUS
  <2>1. p.id \in OneByteIds /\ p.val \in Byte /\ p = [id |-> p.id, val |-> p.val]
    BY SMT
  <2>2. p.id \in Byte /\ p.id \notin TextIds /\ p.id \notin VariableIds /\ p.id \notin PairIds
    BY <2>1, SMT DEF OneByteIds, TextIds, VariableIds, PairIds, Byte
  <2>3. NumberSize(p.id) = 1
    BY <2>1, SMT DEF NumberSize
  <2>4. /\ BigEndian(p.val, 1) \in Seq(Byte) /\ Len(BigEndian(p.val, 1)) = 1
        /\ Number(BigEndian(p.val, 1)) = p.val
    BY <2>1, OneByteBack, SMT
  <2> QED BY <2>1, <2>2, <2>3, <2>4 DEF IsNumber
<1>2. p \in [id : TwoByteIds, val : TwoBytes]
      => p.id \in Byte /\ p = [id |-> p.id, val |-> p.val] /\ IsNumber(p)
  <2> SUFFICES ASSUME p \in [id : TwoByteIds, val : TwoBytes]
               PROVE  p.id \in Byte /\ p = [id |-> p.id, val |-> p.val] /\ IsNumber(p)
    OBVIOUS
  <2>1. p.id \in TwoByteIds /\ p.val \in TwoBytes /\ p = [id |-> p.id, val |-> p.val]
    BY SMT
  <2>2. p.id \in Byte /\ p.id \notin TextIds /\ p.id \notin VariableIds /\ p.id \notin PairIds
        /\ p.id \notin OneByteIds
    BY <2>1, SMT DEF OneByteIds, TwoByteIds, TextIds, VariableIds, PairIds, Byte
  <2>3. NumberSize(p.id) = 2
    BY <2>1, <2>2, SMT DEF NumberSize
  <2>4. p.val \in Nat /\ p.val < 65536
    BY <2>1, InTwoBytes, SMT
  <2>5. /\ BigEndian(p.val, 2) \in Seq(Byte) /\ Len(BigEndian(p.val, 2)) = 2
        /\ Number(BigEndian(p.val, 2)) = p.val
    BY <2>4, TwoBytesBack, SMT
  <2> QED BY <2>1, <2>2, <2>3, <2>5 DEF IsNumber
<1>3. p \in [id : FourByteIds, val : FourBytes]
      => p.id \in Byte /\ p = [id |-> p.id, val |-> p.val] /\ IsNumber(p)
  <2> SUFFICES ASSUME p \in [id : FourByteIds, val : FourBytes]
               PROVE  p.id \in Byte /\ p = [id |-> p.id, val |-> p.val] /\ IsNumber(p)
    OBVIOUS
  <2>1. p.id \in FourByteIds /\ p.val \in FourBytes /\ p = [id |-> p.id, val |-> p.val]
    BY SMT
  <2>2. p.id \in Byte /\ p.id \notin TextIds /\ p.id \notin VariableIds /\ p.id \notin PairIds
        /\ p.id \notin OneByteIds /\ p.id \notin TwoByteIds
    BY <2>1, SMT DEF OneByteIds, TwoByteIds, FourByteIds, TextIds, VariableIds, PairIds, Byte
  <2>3. NumberSize(p.id) = 4
    BY <2>1, <2>2, SMT DEF NumberSize
  <2>4. p.val \in Nat /\ p.val \div 65536 < 65536
    BY <2>1, SMT DEF FourBytes
  <2>5. /\ BigEndian(p.val, 4) \in Seq(Byte) /\ Len(BigEndian(p.val, 4)) = 4
        /\ Number(BigEndian(p.val, 4)) = p.val
    BY <2>4, FourBytesBack, SMT
  <2> QED BY <2>1, <2>2, <2>3, <2>5 DEF IsNumber
<1>4. p \in [id : VariableIds, val : 0..(LengthLimit - 1)]
      => p.id \in Byte /\ p = [id |-> p.id, val |-> p.val] /\ IsVariable(p)
  <2> SUFFICES ASSUME p \in [id : VariableIds, val : 0..(LengthLimit - 1)]
               PROVE  p.id \in Byte /\ p = [id |-> p.id, val |-> p.val] /\ IsVariable(p)
    OBVIOUS
  <2>1. p.id \in VariableIds /\ p.val \in 0..(LengthLimit - 1) /\ p = [id |-> p.id, val |-> p.val]
    BY SMT
  <2>2. p.id \in Byte /\ p.id \notin TextIds /\ p.id \notin PairIds
    BY <2>1, SMT DEF VariableIds, PairIds, TextIds, Byte
  <2>3. p.val \in Nat /\ p.val < LengthLimit
    BY <2>1, BelowLimit
  <2> QED BY <2>1, <2>2, <2>3 DEF IsVariable
<1>5. p \in [id : TextIds, val : Strings]
      => p.id \in Byte /\ p = [id |-> p.id, val |-> p.val] /\ IsText(p)
  <2> SUFFICES ASSUME p \in [id : TextIds, val : Strings]
               PROVE  p.id \in Byte /\ p = [id |-> p.id, val |-> p.val] /\ IsText(p)
    OBVIOUS
  <2>1. p.id \in TextIds /\ p.val \in Strings /\ p = [id |-> p.id, val |-> p.val]
    BY SMT
  <2>2. p.id \in Byte /\ p.id \notin VariableIds /\ p.id \notin PairIds
    BY <2>1, SMT DEF PairIds, VariableIds, TextIds, Byte
  <2> QED BY <2>1, <2>2 DEF IsText
<1>6. p \in [id : PairIds, val : Strings \X Strings]
      => p.id \in Byte /\ p = [id |-> p.id, val |-> p.val] /\ IsPair(p)
  <2> SUFFICES ASSUME p \in [id : PairIds, val : Strings \X Strings]
               PROVE  p.id \in Byte /\ p = [id |-> p.id, val |-> p.val] /\ IsPair(p)
    OBVIOUS
  <2>1. p.id \in PairIds /\ p.val \in Strings \X Strings /\ p = [id |-> p.id, val |-> p.val]
    BY SMT
  <2>2. p.id \in Byte /\ p.id \notin TextIds /\ p.id \notin VariableIds
    BY <2>1, SMT DEF PairIds, VariableIds, TextIds, Byte
  <2>3. p.val[1] \in Strings /\ p.val[2] \in Strings /\ p.val = <<p.val[1], p.val[2]>>
    BY <2>1, SMT
  <2> QED BY <2>1, <2>2, <2>3 DEF IsPair
<1> QED BY <1>1, <1>2, <1>3, <1>4, <1>5, <1>6, Zenon DEF PropertyValues

\* The bytes of a property behind its id.
ValueBytes(p) ==
  IF p.id \in TextIds THEN Text(p.val)
  ELSE IF p.id \in VariableIds THEN VarBytes(p.val)
  ELSE IF p.id \in PairIds THEN Text(p.val[1]) \o Text(p.val[2])
  ELSE BigEndian(p.val, NumberSize(p.id))

\* A property on the wire: its id, then its value; and the size computed for it is its length.
LEMMA PropertyIs ==
  ASSUME NEW p \in PropertyValues
  PROVE  /\ Property(p).bytes = <<p.id>> \o ValueBytes(p)
         /\ ValueBytes(p) \in Seq(Byte) /\ Len(ValueBytes(p)) \in Nat /\ Len(ValueBytes(p)) >= 1
         /\ Property(p).bytes \in Seq(Byte) /\ Len(Property(p).bytes) = 1 + Len(ValueBytes(p))
         /\ Property(p).size = Len(Property(p).bytes)
<1> DEFINE v == ValueBytes(p)
<1>1. p.id \in Byte /\ (IsText(p) \/ IsVariable(p) \/ IsPair(p) \/ IsNumber(p))
  BY PropertySorts
<1>2. <<p.id>> \in Seq(Byte) /\ Len(<<p.id>>) = 1
  BY <1>1
<1>3. /\ Property(p).bytes = <<p.id>> \o v /\ v \in Seq(Byte) /\ Len(v) \in Nat /\ Len(v) >= 1
      /\ Property(p).size = 1 + Len(v)
  <2>1. CASE IsText(p)
    <3>1. p.id \in TextIds /\ p.id \notin VariableIds /\ p.id \notin PairIds /\ p.val \in Strings
      BY <2>1 DEF IsText
    <3>2. v = Text(p.val) /\ Property(p) = BinaryProperty(p)
      BY <3>1, Zenon DEF Property, ValueBytes
    <3>3. Text(p.val) \in Seq(Byte) /\ Len(Text(p.val)) = 2 + Len(p.val) /\ Len(p.val) \in Nat
      BY <3>1, TextIs
    <3>4. Property(p).bytes = <<p.id>> \o Text(p.val) /\ Property(p).size = 1 + 2 + Len(p.val)
      BY <3>2 DEF BinaryProperty
    <3> HIDE DEF v
    <3> QED BY <3>2, <3>3, <3>4, SMT
  <2>2. CASE IsVariable(p)
    <3>1. p.id \notin TextIds /\ p.id \in VariableIds /\ p.id \notin PairIds /\ p.val \in Nat
      BY <2>2 DEF IsVariable
    <3>2. v = VarBytes(p.val) /\ Property(p) = VariableProperty(p)
      BY <3>1, Zenon DEF Property, ValueBytes
    <3>3. VarBytes(p.val) \in Seq(Byte) /\ Len(VarBytes(p.val)) \in 1..4
      BY <3>1, LengthType
    <3>4. /\ Property(p).bytes = <<p.id>> \o VarBytes(p.val)
          /\ Property(p).size = 1 + Len(VarBytes(p.val))
      BY <3>2 DEF VariableProperty
    <3> HIDE DEF v
    <3> QED BY <3>2, <3>3, <3>4, SMT
  <2>3. CASE IsPair(p)
    <3>1. p.id \notin TextIds /\ p.id \notin VariableIds /\ p.id \in PairIds
          /\ p.val[1] \in Strings /\ p.val[2] \in Strings
      BY <2>3 DEF IsPair
    <3> DEFINE a == Text(p.val[1])
               b == Text(p.val[2])
    <3>2. v = a \o b /\ Property(p) = UserProperty(p)
      BY <3>1, Zenon DEF Property, ValueBytes
    <3>3. /\ a \in Seq(Byte) /\ Len(a) = 2 + Len(p.val[1]) /\ Len(p.val[1]) \in Nat
          /\ b \in Seq(Byte) /\ Len(b) = 2 + Len(p.val[2]) /\ Len(p.val[2]) \in Nat
      <4>1. \A x \in Strings : Text(x) \in Seq(Byte) /\ Len(Text(x)) = 2 + Len(x) /\ Len(x) \in Nat
        BY TextIs
      <4> QED BY <3>1, <4>1, Zenon
    <3>4. /\ Property(p).bytes = <<p.id>> \o a \o b
          /\ Property(p).size = 1 + 2 + Len(p.val[1]) + 2 + Len(p.val[2])
      BY <3>2 DEF UserProperty
    <3> HIDE DEF v, a, b
    <3>5. a \o b \in Seq(Byte) /\ Len(a \o b) = Len(a) + Len(b)
      BY <3>3, OfJoined
    <3>6. (<<p.id>> \o a) \o b = <<p.id>> \o (a \o b)
      BY <1>2, <3>3, Associate, SMTT(30)
    <3>7. /\ Len(v) \in Nat /\ Len(v) >= 1 /\ Property(p).size = 1 + Len(v)
      <4> DEFINE k == Len(p.val[1])
                 l == Len(p.val[2])
                 z == Property(p).size
      <4>1. Len(v) = (2 + k) + (2 + l) /\ k \in Nat /\ l \in Nat /\ z = 1 + 2 + k + 2 + l
        BY <3>2, <3>3, <3>4, <3>5, Zenon
      <4> HIDE DEF k, l, z
      <4>2. Len(v) \in Nat /\ Len(v) >= 1 /\ z = 1 + Len(v)
        BY <4>1, SMT
      <4> QED BY <4>2 DEF z
    <3> QED BY <3>2, <3>4, <3>5, <3>6, <3>7, Zenon
  <2>4. CASE IsNumber(p)
    <3>1. /\ p.id \notin TextIds /\ p.id \notin VariableIds /\ p.id \notin PairIds
          /\ NumberSize(p.id) \in {1, 2, 4}
          /\ BigEndian(p.val, NumberSize(p.id)) \in Seq(Byte)
          /\ Len(BigEndian(p.val, NumberSize(p.id))) = NumberSize(p.id)
      BY <2>4 DEF IsNumber
    <3>2. v = BigEndian(p.val, NumberSize(p.id)) /\ Property(p) = NBytesProperty(p)
      BY <3>1, Zenon DEF Property, ValueBytes
    <3>3. /\ Property(p).bytes = <<p.id>> \o BigEndian(p.val, NumberSize(p.id))
          /\ Property(p).size = 1 + NumberSize(p.id)
      BY <3>2 DEF NBytesProperty
    <3> HIDE DEF v
    <3> QED BY <3>1, <3>2, <3>3, SMT
  <2> QED BY <1>1, <2>1, <2>2, <2>3, <2>4
<1> HIDE DEF v
<1>4. <<p.id>> \o v \in Seq(Byte) /\ Len(<<p.id>> \o v) = 1 + Len(v)
  BY <1>2, <1>3, OfJoined
<1> QED BY <1>3, <1>4, SMT DEF v

\* One byte, read off the front.
LEMMA IdBack ==
  ASSUME NEW e \in Byte, NEW r \in Seq(Byte)
  PROVE  /\ (<<e>> \o r)[1] = e /\ Tail(<<e>> \o r) = r /\ Behind(<<e>> \o r, 1) = r
         /\ First(<<e>> \o r, 1) = <<e>>
         /\ <<e>> \o r \in Seq(Byte) /\ Len(<<e>> \o r) = 1 + Len(r)
<1> DEFINE x == <<e>>
           c == x \o r
<1>1. x \in Seq(Byte) /\ Len(x) = 1 /\ x[1] = e
  OBVIOUS
<1> HIDE DEF x
<1>2. /\ c \in Seq(Byte) /\ Len(c) = Len(x) + Len(r) /\ Len(r) \in Nat
      /\ First(c, Len(x)) = x /\ Behind(c, Len(x)) = r
      /\ \A i \in 1..Len(x) : c[i] = x[i]
  BY <1>1, OfJoined
<1> HIDE DEF c
<1>3. Tail(c) = Behind(c, 1)
  BY <1>2 DEF Behind
<1> QED BY <1>1, <1>2, <1>3, SMT DEF x, c

-----------------------------------------------------------------------------
\* Reading properties back.

\* Bytes are numbers.
LEMMA ByteIsNumber ==
  ASSUME NEW e \in Byte
  PROVE  e \in Nat /\ e < 256
BY SMT DEF Byte

\* Whatever the bytes, they make a number.
LEMMA NumberType ==
  ASSUME NEW b \in Seq(Byte)
  PROVE  Number(b) \in Nat
<1> DEFINE d(k) == IF k <= Len(b) THEN b[Len(b) + 1 - k] ELSE 0
<1>1. ASSUME NEW k \in 1..4 PROVE d(k) \in Nat
  <2>1. Len(b) \in Nat
    BY LenProperties
  <2>2. CASE k <= Len(b)
    <3>1. Len(b) + 1 - k \in 1..Len(b)
      BY <2>1, <2>2, SMT
    <3>2. b[Len(b) + 1 - k] \in Byte
      BY <3>1, ElementOfSeq
    <3>3. b[Len(b) + 1 - k] \in Nat
      BY <3>2, ByteIsNumber
    <3> QED BY <2>2, <3>3, Zenon
  <2>3. CASE ~(k <= Len(b))
    BY <2>3, SMT
  <2> QED BY <2>2, <2>3
<1>2. d(1) \in Nat /\ d(2) \in Nat /\ d(3) \in Nat /\ d(4) \in Nat
  BY <1>1, SMT
<1> DEFINE e == d(1)
           f == d(2)
           g == d(3)
           h == d(4)
<1>3. e \in Nat /\ f \in Nat /\ g \in Nat /\ h \in Nat
  BY <1>2
<1>4. Number(b) = e + Units[2] * f + Units[3] * g + Units[4] * h
  BY Zenon DEF Number
<1> HIDE DEF e, f, g, h
<1>5. Units[2] = 256 /\ Units[3] = 256 * 256 /\ Units[4] = 256 * 256 * 256
  BY SMT DEF Units
<1> QED BY <1>3, <1>4, <1>5, SMT

\* A variable length ends within four bytes, or does not (0).
LEMMA LengthEndType ==
  ASSUME NEW b \in Seq(Byte)
  PROVE  LengthEnd(b) \in 0..4
<1> DEFINE ends == {k \in 1..4 : k \in DOMAIN b /\ b[k] < 128}
<1>1. CASE ends = {}
  BY <1>1, SMT DEF LengthEnd
<1>2. CASE ends # {}
  <2>1. ends \in SUBSET (0..4) /\ ends \in SUBSET Nat
    BY SMT
  <2> HIDE DEF ends
  <2>2. PICK a \in ends : \A other \in ends : a <= other
    <3>1. 4 \in Nat
      BY SMT
    <3> QED BY <1>2, <2>1, <3>1, LeastNumber, SMT
  <2>3. Min(ends) = a
    BY <2>1, <2>2, LeastIs
  <2>4. LengthEnd(b) = Min(ends)
    BY <1>2, Zenon DEF LengthEnd, ends
  <2> QED BY <2>1, <2>2, <2>3, <2>4, SMT
<1> QED BY <1>1, <1>2

\* How far a length and a text go, whatever the bytes.
LEMMA UsedTypes ==
  ASSUME NEW b \in Seq(Byte)
  PROVE  VariableLength(b).used \in Nat /\ TextUsed(b) \in Nat
<1> DEFINE size == IF LengthEnd(b) = 0 THEN Len(b) ELSE LengthEnd(b)
<1>1. size \in Nat
  BY LengthEndType, LenProperties, SMT
<1> HIDE DEF size
<1>2. VariableLength(b) = IF size > 4 THEN [value |-> 0, used |-> 0]
                          ELSE [value |-> LengthValue(b, size), used |-> size]
  BY Zenon DEF VariableLength, size
<1>3. VariableLength(b).used = IF size > 4 THEN 0 ELSE size
  BY <1>2
<1>4. VariableLength(b).used \in Nat
  BY <1>1, <1>3, SMT
<1>5. CASE Len(b) < 2
  BY <1>4, <1>5, SMT DEF TextUsed
<1>6. CASE ~(Len(b) < 2)
  <2>1. Len(b) \in Nat
    BY LenProperties
  <2> DEFINE two == 2
  <2>2. two \in 0..Len(b)
    BY <1>6, <2>1, SMT
  <2> HIDE DEF two
  <2>3. First(b, two) \in Seq(Byte)
    BY <2>2, FirstBehind
  <2>4. Number(First(b, two)) \in Nat
    BY <2>3, NumberType
  <2> QED BY <1>4, <1>6, <2>4, SMT DEF TextUsed, two
<1> QED BY <1>5, <1>6

\* The sorts of property ids exclude each other.
LEMMA IdsApart ==
  ASSUME NEW id
  PROVE  /\ id \in TextIds => id \notin VariableIds /\ id \notin PairIds
         /\ id \in VariableIds => id \notin TextIds /\ id \notin PairIds
         /\ id \in PairIds => id \notin TextIds /\ id \notin VariableIds
         /\ NumberSize(id) \in {1, 2, 4}
<1>1. NumberSize(id) \in {1, 2, 4}
  BY SMT DEF NumberSize
<1> QED BY <1>1, SMT DEF TextIds, VariableIds, PairIds

\* What is behind n elements, even where there are fewer.
LEMMA BehindType ==
  ASSUME NEW S, NEW x \in Seq(S), NEW n \in Nat
  PROVE  /\ Behind(x, n) \in Seq(S)
         /\ Len(Behind(x, n)) = IF n <= Len(x) THEN Len(x) - n ELSE 0
<1>1. Len(x) \in Nat
  BY LenProperties
<1>2. CASE n <= Len(x)
  <2>1. n \in 0..Len(x)
    BY <1>1, <1>2, SMT
  <2> QED BY <1>2, <2>1, FirstBehind
<1>3. CASE ~(n <= Len(x))
  <2>1. Len(x) < n + 1 /\ n + 1 \in Int /\ Len(x) \in Int
    BY <1>1, <1>3, SMT
  <2>2. Behind(x, n) = <<>>
    BY <2>1, SubSeqEmpty DEF Behind
  <2> QED BY <1>3, <2>2
<1> QED BY <1>2, <1>3

\* How far a property goes, whatever the bytes.
LEMMA ParseOneUsed ==
  ASSUME NEW b \in Seq(Byte), b # <<>>
  PROVE  ParseOne(b).used \in Nat
<1> DEFINE id == b[1]
           body == Tail(b)
           variable == VariableLength(body)
           behindKey == Behind(body, TextUsed(body))
<1>1. body \in Seq(Byte)
  BY Taken
<1>2. variable.used \in Nat /\ TextUsed(body) \in Nat
  BY <1>1, UsedTypes
<1>3. behindKey \in Seq(Byte)
  <2> HIDE DEF body
  <2> QED BY <1>1, <1>2, BehindType
<1>4. TextUsed(behindKey) \in Nat
  <2> HIDE DEF behindKey
  <2> QED BY <1>3, UsedTypes
<1> HIDE DEF id, body, variable, behindKey
<1>5. CASE id \in TextIds
  <2>1. id \notin VariableIds /\ id \notin PairIds
    BY <1>5, IdsApart
  <2>2. ParseOne(b) = [prop |-> [id |-> id, val |-> TextAt(body)], used |-> 1 + TextUsed(body)]
    BY <1>5, <2>1, Zenon DEF ParseOne, id, body
  <2>3. ParseOne(b).used = 1 + TextUsed(body)
    BY <2>2
  <2> QED BY <1>2, <2>3, SMT
<1>6. CASE id \in VariableIds
  <2>1. id \notin TextIds /\ id \notin PairIds
    BY <1>6, IdsApart
  <2>2. ParseOne(b) = [prop |-> [id |-> id, val |-> variable.value],
                       used |-> IF variable.used = 0 THEN 0 ELSE 1 + variable.used]
    BY <1>6, <2>1, Zenon DEF ParseOne, id, body, variable
  <2>3. ParseOne(b).used = IF variable.used = 0 THEN 0 ELSE 1 + variable.used
    BY <2>2
  <2> QED BY <1>2, <2>3, SMT
<1>7. CASE id \in PairIds
  <2>1. id \notin TextIds /\ id \notin VariableIds
    BY <1>7, IdsApart
  <2>2. ParseOne(b) = [prop |-> [id |-> id, val |-> <<TextAt(body), TextAt(behindKey)>>],
                       used |-> 1 + TextUsed(body) + TextUsed(behindKey)]
    BY <1>7, <2>1, Zenon DEF ParseOne, id, body, behindKey
  <2>3. ParseOne(b).used = 1 + TextUsed(body) + TextUsed(behindKey)
    BY <2>2
  <2> QED BY <1>2, <1>4, <2>3, SMT
<1>8. CASE id \notin TextIds /\ id \notin VariableIds /\ id \notin PairIds
  <2>1. ParseOne(b) = [prop |-> [id |-> id, val |-> Number(First(body, NumberSize(id)))],
                       used |-> 1 + NumberSize(id)]
    BY <1>8, Zenon DEF ParseOne, id, body
  <2>2. ParseOne(b).used = 1 + NumberSize(id)
    BY <2>1
  <2>3. NumberSize(id) \in {1, 2, 4}
    BY IdsApart
  <2> QED BY <2>2, <2>3, SMT
<1> QED BY <1>5, <1>6, <1>7, <1>8

\* A property is read back from the bytes it was written as.
LEMMA ParseOneBack ==
  ASSUME NEW p \in PropertyValues, NEW r \in Seq(Byte)
  PROVE  /\ ParseOne(Property(p).bytes \o r).prop = p
         /\ ParseOne(Property(p).bytes \o r).used = Len(Property(p).bytes)
<1> DEFINE b == Property(p).bytes \o r
           id == b[1]
           body == Tail(b)
           variable == VariableLength(body)
           behindKey == Behind(body, TextUsed(body))
           v == ValueBytes(p)
<1>1. /\ p.id \in Byte /\ p = [id |-> p.id, val |-> p.val]
      /\ IsText(p) \/ IsVariable(p) \/ IsPair(p) \/ IsNumber(p)
  BY PropertySorts
<1>2. /\ Property(p).bytes = <<p.id>> \o v /\ v \in Seq(Byte)
      /\ Len(Property(p).bytes) = 1 + Len(v)
  BY PropertyIs
<1> HIDE DEF v
<1>3. id = p.id /\ body = v \o r
  <2>1. <<p.id>> \in Seq(Byte)
    BY <1>1
  <2>2. b = <<p.id>> \o (v \o r)
    BY <1>2, <2>1, Associate, SMTT(30)
  <2>3. v \o r \in Seq(Byte)
    BY <1>2, OfJoined
  <2>4. (<<p.id>> \o (v \o r))[1] = p.id /\ Tail(<<p.id>> \o (v \o r)) = v \o r
    BY <1>1, <2>3, IdBack
  <2> QED BY <2>2, <2>4, Zenon
<1> HIDE DEF b, id, body, variable, behindKey
<1>4. CASE IsText(p)
  <2>1. id \in TextIds /\ id \notin VariableIds /\ id \notin PairIds /\ p.val \in Strings
    BY <1>3, <1>4 DEF IsText
  <2>2. v = Text(p.val)
    BY <1>3, <2>1, Zenon DEF v, ValueBytes
  <2>3. TextUsed(body) = Len(v) /\ TextAt(body) = p.val
    BY <1>3, <2>1, <2>2, TextBack
  <2>4. ParseOne(b) = [prop |-> [id |-> id, val |-> TextAt(body)], used |-> 1 + TextUsed(body)]
    BY <2>1, Zenon DEF ParseOne, id, body
  <2> QED BY <1>1, <1>2, <1>3, <2>3, <2>4 DEF b
<1>5. CASE IsVariable(p)
  <2>1. id \notin TextIds /\ id \in VariableIds /\ id \notin PairIds /\ p.val \in Nat /\ p.val < LengthLimit
    BY <1>3, <1>5 DEF IsVariable
  <2>2. v = VarBytes(p.val)
    BY <1>3, <2>1, Zenon DEF v, ValueBytes
  <2>3. LengthEnd(body) = Len(v) /\ LengthValue(body, Len(v)) = p.val /\ Len(v) \in 1..4
    BY <1>3, <2>1, <2>2, LengthBack
  <2>4. Len(v) # 0 /\ ~(Len(v) > 4)
    BY <2>3, SMT
  <2>5. variable = [value |-> p.val, used |-> Len(v)]
    BY <2>3, <2>4, Zenon DEF VariableLength, variable
  <2>6. variable.value = p.val /\ variable.used = Len(v)
    BY <2>5
  <2>7. ParseOne(b) = [prop |-> [id |-> id, val |-> variable.value],
                       used |-> IF variable.used = 0 THEN 0 ELSE 1 + variable.used]
    BY <2>1, Zenon DEF ParseOne, id, body, variable
  <2>8. ParseOne(b).prop = [id |-> id, val |-> variable.value]
        /\ ParseOne(b).used = IF variable.used = 0 THEN 0 ELSE 1 + variable.used
    BY <2>7
  <2> QED BY <1>1, <1>2, <1>3, <2>4, <2>6, <2>8, Zenon DEF b
<1>6. CASE IsPair(p)
  <2>1. id \notin TextIds /\ id \notin VariableIds /\ id \in PairIds
        /\ p.val[1] \in Strings /\ p.val[2] \in Strings /\ p.val = <<p.val[1], p.val[2]>>
    BY <1>3, <1>6 DEF IsPair
  <2> DEFINE x == Text(p.val[1])
             y == Text(p.val[2])
  <2>2. v = x \o y
    BY <1>3, <2>1, Zenon DEF v, ValueBytes
  <2>3. x \in Seq(Byte) /\ y \in Seq(Byte)
    BY <2>1, TextIs
  <2>4. y \o r \in Seq(Byte) /\ Len(v) = Len(x) + Len(y) /\ Len(x) \in Nat /\ Len(y) \in Nat
    <3> HIDE DEF x, y
    <3> QED BY <2>2, <2>3, OfJoined
  <2>5. body = x \o (y \o r)
    <3> HIDE DEF x, y
    <3> QED BY <1>3, <2>2, <2>3, Associate, SMTT(30)
  <2>6. TextUsed(body) = Len(x) /\ TextAt(body) = p.val[1] /\ behindKey = y \o r
    BY <2>1, <2>4, <2>5, TextBack DEF behindKey
  <2>7. TextUsed(behindKey) = Len(y) /\ TextAt(behindKey) = p.val[2]
    BY <2>1, <2>6, TextBack
  <2>8. ParseOne(b) = [prop |-> [id |-> id, val |-> <<TextAt(body), TextAt(behindKey)>>],
                       used |-> 1 + TextUsed(body) + TextUsed(behindKey)]
    BY <2>1, Zenon DEF ParseOne, id, body, behindKey
  <2>9. ParseOne(b).prop = [id |-> id, val |-> <<TextAt(body), TextAt(behindKey)>>]
        /\ ParseOne(b).used = 1 + TextUsed(body) + TextUsed(behindKey)
    BY <2>8
  <2>10. ParseOne(b).prop = p
    BY <1>1, <1>3, <2>1, <2>6, <2>7, <2>9, Zenon
  <2> DEFINE k == Len(x)
             l == Len(y)
  <2>11. ParseOne(b).used = 1 + k + l /\ Len(v) = k + l /\ k \in Nat /\ l \in Nat
    BY <2>4, <2>6, <2>7, <2>9, Zenon
  <2> HIDE DEF k, l
  <2>12. ParseOne(b).used = 1 + Len(v)
    BY <2>11, SMT
  <2> QED BY <1>2, <2>10, <2>12, Zenon DEF b
<1>7. CASE IsNumber(p)
  <2> DEFINE n == NumberSize(p.id)
             w == BigEndian(p.val, n)
  <2>1. /\ id \notin TextIds /\ id \notin VariableIds /\ id \notin PairIds
        /\ w \in Seq(Byte) /\ Len(w) = n /\ Number(w) = p.val
    BY <1>3, <1>7 DEF IsNumber
  <2>2. v = w
    BY <1>3, <2>1, Zenon DEF v, ValueBytes
  <2> HIDE DEF w
  <2>3. First(body, n) = w
    BY <1>3, <2>1, <2>2, OfJoined
  <2>4. ParseOne(b) = [prop |-> [id |-> id, val |-> Number(First(body, NumberSize(id)))],
                       used |-> 1 + NumberSize(id)]
    BY <2>1, Zenon DEF ParseOne, id, body
  <2>5. ParseOne(b).prop = [id |-> id, val |-> Number(First(body, NumberSize(id)))]
        /\ ParseOne(b).used = 1 + NumberSize(id)
    BY <2>4
  <2> QED BY <1>1, <1>2, <1>3, <2>1, <2>2, <2>3, <2>5, Zenon DEF b
<1> QED BY <1>1, <1>4, <1>5, <1>6, <1>7 DEF b

\* Induction over the numbers up to n, for a set that is already known.
LEMMA UpTo ==
  ASSUME NEW n \in Nat, NEW S, 0 \in S, \A j \in 0..n : j < n /\ j \in S => j + 1 \in S
  PROVE  \A j \in 0..n : j \in S
<1> DEFINE bad == {j \in 0..n : j \notin S}
<1> SUFFICES ASSUME bad # {} PROVE FALSE
  OBVIOUS
<1>1. PICK a \in bad : \A other \in bad : a <= other
  <2>1. bad \in SUBSET (0..n)
    OBVIOUS
  <2> HIDE DEF bad
  <2> QED BY <2>1, LeastNumber
<1>2. a \in 0..n /\ a \notin S
  OBVIOUS
<1>3. a # 0
  BY <1>2
<1>4. a - 1 \in 0..n /\ a - 1 < n /\ (a - 1) + 1 = a /\ ~(a <= a - 1)
  BY <1>2, <1>3, SMT
<1>5. a - 1 \in S
  BY <1>1, <1>4
<1>6. (a - 1) + 1 \in S
  BY <1>4, <1>5
<1> QED BY <1>2, <1>4, <1>6

\* Induction from n down to zero, for a set that is already known.
LEMMA DownTo ==
  ASSUME NEW n \in Nat, NEW S, n \in S, \A j \in 0..n : j < n /\ j + 1 \in S => j \in S
  PROVE  \A j \in 0..n : j \in S
<1> DEFINE bad == {j \in 0..n : j \notin S}
<1> SUFFICES ASSUME bad # {} PROVE FALSE
  OBVIOUS
<1>1. PICK a \in bad : \A other \in bad : other <= a
  <2>1. bad \in SUBSET (0..n)
    OBVIOUS
  <2> HIDE DEF bad
  <2> QED BY <2>1, GreatestNumber
<1>2. a \in 0..n /\ a \notin S
  OBVIOUS
<1>3. a # n
  BY <1>2
<1>4. a + 1 \in 0..n /\ a < n /\ ~(a + 1 <= a)
  BY <1>2, <1>3, SMT
<1>5. a + 1 \in S
  BY <1>1, <1>4
<1> QED BY <1>2, <1>4, <1>5

\* The function of Parse, on the places from a on: u[k] is how far the property
\* at k goes, p[k] what it is.
IsParse(f, u, p, l, a) ==
  f = [k \in a..l |-> IF k = l \/ u[k] = 0 \/ k + u[k] > l THEN <<>> ELSE <<p[k]>> \o f[k + u[k]]]

\* The function of Parse, defined from one place earlier on.
LEMMA ParseFurther ==
  ASSUME NEW l \in Nat, NEW u, NEW p, \A k \in 0..l : k # l => u[k] \in Nat,
         NEW a \in 0..l, a < l, NEW f, IsParse(f, u, p, l, a + 1)
  PROVE  \E g : IsParse(g, u, p, l, a)
<1> DEFINE b == a + 1
           At(h, k) == IF k = l \/ u[k] = 0 \/ k + u[k] > l THEN <<>> ELSE <<p[k]>> \o h[k + u[k]]
           g == [k \in a..l |-> IF k = a THEN At(f, k) ELSE f[k]]
<1>1. \A k \in b..l : f[k] = At(f, k)
  BY Zenon DEF IsParse
<1>2. \A k \in a..l : k = a \/ k \in b..l
  BY SMT
<1>3. \A k \in b..l : k \in a..l /\ k # a
  BY SMT
<1>4. \A k \in b..l : g[k] = f[k]
  BY <1>3
<1>5. \A k \in a..l : ~(k = l \/ u[k] = 0 \/ k + u[k] > l) => k + u[k] \in b..l
  <2> TAKE k \in a..l
  <2>1. k \in 0..l
    BY SMT
  <2>2. HAVE ~(k = l \/ u[k] = 0 \/ k + u[k] > l)
  <2>3. u[k] \in Nat
    BY <2>1, <2>2
  <2> QED BY <2>1, <2>2, <2>3, SMT
<1> HIDE DEF b
<1>6. \A k \in a..l : At(g, k) = At(f, k)
  <2> HIDE DEF g
  <2> TAKE k \in a..l
  <2>1. CASE k = l \/ u[k] = 0 \/ k + u[k] > l
    BY <2>1, Zenon
  <2>2. CASE ~(k = l \/ u[k] = 0 \/ k + u[k] > l)
    <3>1. g[k + u[k]] = f[k + u[k]]
      BY <1>4, <1>5, <2>2, Zenon
    <3> QED BY <3>1, Zenon
  <2> QED BY <2>1, <2>2, Zenon
<1>7. \A k \in a..l : (IF k = a THEN At(f, k) ELSE f[k]) = At(g, k)
  <2> TAKE k \in a..l
  <2>1. CASE k = a
    BY <2>1, <1>6, Zenon
  <2>2. CASE k # a
    <3>1. k \in b..l
      BY <1>2, <2>2
    <3>2. f[k] = At(f, k)
      BY <1>1, <3>1, Zenon
    <3> QED BY <1>6, <2>2, <3>2, Zenon
  <2> QED BY <2>1, <2>2
<1>8. g = [k \in a..l |-> At(g, k)]
  <2> DEFINE X(k) == IF k = a THEN At(f, k) ELSE f[k]
             Y(k) == At(g, k)
  <2>1. g = [k \in a..l |-> X(k)]
    OBVIOUS
  <2>2. \A k \in a..l : X(k) = Y(k)
    BY <1>7
  <2> HIDE DEF X, Y, g
  <2>3. g = [k \in a..l |-> Y(k)]
    BY <2>1, <2>2
  <2> QED BY <2>3 DEF Y
<1> HIDE DEF g
<1>9. IsParse(g, u, p, l, a)
  BY <1>8, Zenon DEF IsParse
<1> QED BY <1>9

\* It exists.
LEMMA ParseExists ==
  ASSUME NEW l \in Nat, NEW u, NEW p, \A k \in 0..l : k # l => u[k] \in Nat
  PROVE  \E f : IsParse(f, u, p, l, 0)
<1> DEFINE S == {a \in 0..l : \E f : IsParse(f, u, p, l, a)}
<1>1. l \in S
  <2> DEFINE f == [k \in l..l |-> <<>>]
  <2>1. \A k \in l..l : k = l
    BY SMT
  <2>2. f = [k \in l..l |-> IF k = l \/ u[k] = 0 \/ k + u[k] > l THEN <<>> ELSE <<p[k]>> \o f[k + u[k]]]
    BY <2>1, Zenon
  <2> HIDE DEF f
  <2>3. IsParse(f, u, p, l, l)
    BY <2>2, Zenon DEF IsParse
  <2> QED BY <2>3, SMT
<1>2. ASSUME NEW a \in 0..l, a < l, a + 1 \in S PROVE a \in S
  <2>1. PICK f : IsParse(f, u, p, l, a + 1)
    BY <1>2
  <2> QED BY <1>2, <2>1, ParseFurther
<1> HIDE DEF S
<1>3. \A a \in 0..l : a \in S
  BY <1>1, <1>2, DownTo
<1>4. 0 \in 0..l
  BY SMT
<1>5. 0 \in S
  BY <1>3, <1>4
<1> QED BY <1>5 DEF S

\* Parse is its value at the first place.
LEMMA ParseIs ==
  ASSUME NEW b \in Seq(Byte)
  PROVE  \E f : /\ IsParse(f, [k \in 0..Len(b) |-> ParseOne(Behind(b, k)).used],
                           [k \in 0..Len(b) |-> ParseOne(Behind(b, k)).prop], Len(b), 0)
                /\ Parse(b) = f[0]
<1> DEFINE l == Len(b)
           u == [k \in 0..l |-> ParseOne(Behind(b, k)).used]
           p == [k \in 0..l |-> ParseOne(Behind(b, k)).prop]
           Is(f) == f = [k \in 0..l |->
                          LET next == ParseOne(Behind(b, k))
                          IN IF k = l \/ next.used = 0 \/ k + next.used > l THEN <<>>
                             ELSE <<next.prop>> \o f[k + next.used]]
           from == CHOOSE f : Is(f)
<1>1. l \in Nat
  BY LenProperties
<1>2. ASSUME NEW k \in 0..l, k # l PROVE u[k] \in Nat
  <2>1. k \in 0..Len(b) /\ Len(b) - k # 0
    BY <1>1, <1>2, SMT
  <2>2. Behind(b, k) \in Seq(Byte) /\ Len(Behind(b, k)) = Len(b) - k
    BY <2>1, FirstBehind
  <2>3. Behind(b, k) # <<>>
    BY <2>1, <2>2
  <2>4. ParseOne(Behind(b, k)).used \in Nat
    BY <2>2, <2>3, ParseOneUsed
  <2> QED BY <1>2, <2>4, Zenon
<1>3. ASSUME NEW f PROVE Is(f) <=> IsParse(f, u, p, l, 0)
  <2>1. \A k \in 0..l : u[k] = ParseOne(Behind(b, k)).used /\ p[k] = ParseOne(Behind(b, k)).prop
    BY Zenon
  <2> HIDE DEF u, p, l
  <2> DEFINE X(k) == IF k = l \/ ParseOne(Behind(b, k)).used = 0 \/ k + ParseOne(Behind(b, k)).used > l THEN <<>>
                     ELSE <<ParseOne(Behind(b, k)).prop>> \o f[k + ParseOne(Behind(b, k)).used]
             Y(k) == IF k = l \/ u[k] = 0 \/ k + u[k] > l THEN <<>> ELSE <<p[k]>> \o f[k + u[k]]
  <2>2. \A k \in 0..l : X(k) = Y(k)
    BY <2>1, Zenon
  <2>3. Is(f) <=> f = [k \in 0..l |-> X(k)]
    BY Zenon
  <2>4. IsParse(f, u, p, l, 0) <=> f = [k \in 0..l |-> Y(k)]
    BY Zenon DEF IsParse
  <2> HIDE DEF X, Y, Is
  <2>5. [k \in 0..l |-> X(k)] = [k \in 0..l |-> Y(k)]
    BY <2>2
  <2> QED BY <2>3, <2>4, <2>5, Zenon
<1>4. Parse(b) = from[0]
  BY Zenon DEF Parse
<1> HIDE DEF u, p, Is
<1>5. \E f : IsParse(f, u, p, l, 0)
  <2> HIDE DEF l
  <2> QED BY <1>1, <1>2, ParseExists
<1>6. Is(from)
  BY <1>3, <1>5, Zenon
<1>7. IsParse(from, u, p, l, 0)
  BY <1>3, <1>6, Zenon
<1> HIDE DEF from
<1>8. \E f : IsParse(f, u, p, l, 0) /\ Parse(b) = f[0]
  BY <1>4, <1>7, Zenon
<1> QED BY <1>8, Zenon DEF u, p, l

\* What is behind j elements begins with the next.
LEMMA BehindNext ==
  ASSUME NEW S, NEW x \in Seq(S), NEW j \in Nat, j < Len(x)
  PROVE  /\ x[j + 1] \in S /\ Behind(x, j) = <<x[j + 1]>> \o Behind(x, j + 1)
         /\ Behind(x, j + 1) \in Seq(S)
         /\ First(x, j + 1) = Append(First(x, j), x[j + 1])
<1>1. Len(x) \in Nat
  BY LenProperties
<1>2. j + 1 \in 1..Len(x) /\ (j + 1) - 1 = j /\ j \in 0..Len(x) /\ j + 1 \in 0..Len(x)
  BY <1>1, SMT
<1>3. /\ x[j + 1] \in S /\ First(x, j + 1) = Append(First(x, j), x[j + 1])
  BY <1>2, FirstMore
<1> DEFINE y == Behind(x, j)
           z == Behind(x, j + 1)
<1>4. /\ y \in Seq(S) /\ Len(y) = Len(x) - j
      /\ \A i \in 1..(Len(x) - j) : y[i] = x[j + i]
      /\ z \in Seq(S) /\ Len(z) = Len(x) - (j + 1)
      /\ \A i \in 1..(Len(x) - (j + 1)) : z[i] = x[(j + 1) + i]
  BY <1>2, FirstBehind
<1> HIDE DEF y, z
<1> DEFINE w == <<x[j + 1]>>
<1>5. w \in Seq(S) /\ Len(w) = 1 /\ w[1] = x[j + 1]
  BY <1>3
<1> HIDE DEF w
<1>6. /\ w \o z \in Seq(S) /\ Len(w \o z) = 1 + Len(z)
      /\ \A i \in 1..(1 + Len(z)) : (w \o z)[i] = IF i <= 1 THEN w[i] ELSE z[i - 1]
  <2>1. /\ w \o z \in Seq(S) /\ Len(w \o z) = Len(w) + Len(z)
        /\ \A i \in 1..(Len(w) + Len(z)) : (w \o z)[i] = IF i <= Len(w) THEN w[i] ELSE z[i - Len(w)]
    BY <1>4, <1>5, ConcatProperties, ZenonT(60)
  <2> QED BY <1>5, <2>1, Zenon
<1>7. Len(w \o z) = Len(y)
  BY <1>1, <1>4, <1>6
<1>8. \A i \in 1..Len(y) : (w \o z)[i] = y[i]
  <2> TAKE i \in 1..Len(y)
  <2>1. i \in 1..(1 + Len(z)) /\ i \in 1..(Len(x) - j)
    BY <1>1, <1>4
  <2>2. CASE i = 1
    BY <1>4, <1>5, <1>6, <2>1, <2>2
  <2>3. CASE i # 1
    <3>1. ~(i <= 1) /\ i - 1 \in 1..(Len(x) - (j + 1)) /\ (j + 1) + (i - 1) = j + i
      BY <1>1, <2>1, <2>3
    <3> QED BY <1>4, <1>6, <2>1, <3>1
  <2> QED BY <2>2, <2>3
<1>9. w \o z = y
  BY <1>4, <1>6, <1>7, <1>8, SeqEqual
<1> QED BY <1>3, <1>4, <1>9 DEF w, y, z

\* The properties on the wire, one by one.
Pieces(props) == [k \in DOMAIN props |-> Property(props[k]).bytes]
\* What is on the wire behind the first j of the pieces.
RestOf(pieces, j) == FlattenSeq(Behind(pieces, j))

\* The properties on the wire are their pieces joined, and their computed length is the length of that.
LEMMA PiecesType ==
  ASSUME NEW props \in Seq(PropertyValues)
  PROVE  /\ Pieces(props) \in Seq(Seq(Byte)) /\ Len(Pieces(props)) = Len(props)
         /\ \A k \in 1..Len(props) : Pieces(props)[k] = Property(props[k]).bytes
         /\ PropertyBytes(props) = FlattenSeq(Pieces(props))
         /\ PropertyBytes(props) \in Seq(Byte)
         /\ PropertiesLength(props) = Len(PropertyBytes(props))
<1>1. Len(props) \in Nat /\ DOMAIN props = 1..Len(props)
  BY LenProperties
<1> DEFINE x == Pieces(props)
           n == [k \in DOMAIN props |-> Property(props[k]).size]
<1>2. \A k \in 1..Len(props) : props[k] \in PropertyValues
  BY ElementOfSeq
<1>3. \A k \in 1..Len(props) : Property(props[k]).bytes \in Seq(Byte)
           /\ Len(Property(props[k]).bytes) \in Nat
           /\ Property(props[k]).size = Len(Property(props[k]).bytes)
  <2> TAKE k \in 1..Len(props)
  <2>1. props[k] \in PropertyValues
    BY <1>2
  <2>2. Property(props[k]).bytes \in Seq(Byte)
           /\ Property(props[k]).size = Len(Property(props[k]).bytes)
    BY <2>1, PropertyIs
  <2> QED BY <2>2, LenProperties
<1>4. x = [k \in 1..Len(props) |-> Property(props[k]).bytes]
      /\ n = [k \in 1..Len(props) |-> Property(props[k]).size]
  BY <1>1, Zenon DEF Pieces
<1> HIDE DEF x, n
<1>5. \A k \in 1..Len(props) : x[k] = Property(props[k]).bytes /\ n[k] = Property(props[k]).size
  BY <1>4, Zenon
<1>6. x = [k \in 1..Len(props) |-> x[k]] /\ n = [k \in 1..Len(props) |-> n[k]]
  BY <1>4
<1>7. \A k \in 1..Len(props) : x[k] \in Seq(Byte) /\ n[k] \in Nat /\ n[k] = Len(x[k])
  BY <1>3, <1>5, Zenon
<1>8. x \in Seq(Seq(Byte)) /\ Len(x) = Len(props)
  BY <1>1, <1>6, <1>7, Places
<1>9. n \in Seq(Nat) /\ Len(n) = Len(props)
  BY <1>1, <1>6, <1>7, Places
<1>10. Len(n) = Len(x) /\ \A i \in 1..Len(x) : n[i] = Len(x[i])
  BY <1>7, <1>8, <1>9
<1>11. SumOf(n) = Len(FlattenSeq(x))
  BY <1>8, <1>9, <1>10, FlattenLength
<1>12. FlattenSeq(x) \in Seq(Byte)
  BY <1>8, FlattenType
<1>13. PropertyBytes(props) = FlattenSeq(x) /\ PropertiesLength(props) = SumOf(n)
  BY Zenon DEF PropertyBytes, PropertiesLength, Pieces, x, n
<1> QED BY <1>5, <1>8, <1>11, <1>12, <1>13 DEF x

\* The pieces from one on.
LEMMA RestNext ==
  ASSUME NEW S, NEW x \in Seq(Seq(S)), NEW j \in Nat, j < Len(x)
  PROVE  /\ RestOf(x, j) = x[j + 1] \o RestOf(x, j + 1)
         /\ x[j + 1] \in Seq(S) /\ RestOf(x, j) \in Seq(S) /\ RestOf(x, j + 1) \in Seq(S)
         /\ Len(RestOf(x, j)) = Len(x[j + 1]) + Len(RestOf(x, j + 1))
<1> DEFINE a == RestOf(x, j)
           c == RestOf(x, j + 1)
           b == x[j + 1]
<1>1. a = b \o c /\ b \in Seq(S) /\ a \in Seq(S) /\ c \in Seq(S)
  BY FlattenBehind DEF RestOf
<1> HIDE DEF a, b, c
<1>2. Len(a) = Len(b) + Len(c)
  BY <1>1, OfJoined
<1> QED BY <1>1, <1>2 DEF a, b, c

\* Behind no piece is all, behind all of them nothing.
LEMMA RestEnds ==
  ASSUME NEW S, NEW x \in Seq(Seq(S))
  PROVE  RestOf(x, 0) = FlattenSeq(x) /\ RestOf(x, Len(x)) = <<>>
BY BehindEnds, FlattenEmpty DEF RestOf

\* No rest is longer than the whole.
LEMMA RestShorter ==
  ASSUME NEW S, NEW x \in Seq(Seq(S))
  PROVE  \A j \in 0..Len(x) : /\ RestOf(x, j) \in Seq(S)
                              /\ Len(RestOf(x, j)) \in Nat
                              /\ Len(RestOf(x, j)) <= Len(FlattenSeq(x))
                              /\ Behind(FlattenSeq(x), Len(FlattenSeq(x)) - Len(RestOf(x, j))) = RestOf(x, j)
<1> DEFINE b == FlattenSeq(x)
           l == Len(b)
           r(j) == RestOf(x, j)
           Good(j) == /\ r(j) \in Seq(S) /\ Len(r(j)) \in Nat /\ Len(r(j)) <= l
                      /\ Behind(b, l - Len(r(j))) = r(j)
           G == {j \in 0..Len(x) : Good(j)}
<1>1. Len(x) \in Nat /\ 0 \in 0..Len(x)
  <2>1. Len(x) \in Nat
    BY LenProperties
  <2> QED BY <2>1, SMT
<1>2. b \in Seq(S) /\ l \in Nat
  BY FlattenType, LenProperties
<1>3. 0 \in G
  <2>1. r(0) = b
    BY RestEnds
  <2>2. l - l = 0 /\ l <= l
    BY <1>2, SMT
  <2>3. Behind(b, 0) = b
    <3> HIDE DEF b
    <3> QED BY <1>2, BehindEnds
  <2> HIDE DEF b, l, r
  <2>4. Len(r(0)) = l
    BY <2>1 DEF l
  <2> QED BY <1>1, <1>2, <2>1, <2>2, <2>3, <2>4
<1>4. ASSUME NEW j \in 0..Len(x), j < Len(x), j \in G PROVE j + 1 \in G
  <2>1. j \in Nat /\ j + 1 \in 0..Len(x)
    BY <1>1, <1>4, SMT
  <2> DEFINE piece == x[j + 1]
             next == r(j + 1)
             m == l - Len(r(j))
             k == Len(piece)
  <2>2. /\ r(j) = piece \o next /\ piece \in Seq(S) /\ r(j) \in Seq(S) /\ next \in Seq(S)
        /\ Len(r(j)) = Len(piece) + Len(next)
    BY <1>4, <2>1, RestNext
  <2>3. Len(r(j)) \in Nat /\ Len(r(j)) <= l /\ Behind(b, m) = r(j)
    BY <1>4
  <2> HIDE DEF r, piece, next, b, l
  <2>4. k \in Nat /\ Len(next) \in Nat
    BY <2>2, LenProperties
  <2>5. m \in Nat /\ m + k <= l /\ m + k = l - Len(next) /\ Len(next) <= l
    BY <1>2, <2>2, <2>3, <2>4, SMT
  <2> HIDE DEF m, k
  <2>6. Behind(Behind(b, m), k) = Behind(b, m + k)
    BY <1>2, <2>4, <2>5, BehindTwice DEF l
  <2>7. Behind(piece \o next, k) = next
    BY <2>2, OfJoined DEF k
  <2>8. Behind(b, l - Len(next)) = next
    BY <2>2, <2>3, <2>5, <2>6, <2>7, Zenon
  <2>9. Good(j + 1)
    BY <2>2, <2>4, <2>5, <2>8, Zenon DEF next
  <2> QED BY <2>1, <2>9
<1> HIDE DEF G
<1>5. \A j \in 0..Len(x) : j \in G
  BY <1>1, <1>3, <1>4, UpTo
<1> QED BY <1>5, Zenon DEF G

\* The properties are read back from the bytes they were written as.
LEMMA ParseBack ==
  ASSUME NEW props \in Seq(PropertyValues)
  PROVE  Parse(PropertyBytes(props)) = props
<1> DEFINE b == PropertyBytes(props)
           l == Len(b)
           n == Len(props)
           x == Pieces(props)
           u == [k \in 0..l |-> ParseOne(Behind(b, k)).used]
           p == [k \in 0..l |-> ParseOne(Behind(b, k)).prop]
           r(j) == RestOf(x, j)
           at(j) == l - Len(r(j))
<1>1. /\ x \in Seq(Seq(Byte)) /\ Len(x) = n /\ b = FlattenSeq(x) /\ b \in Seq(Byte)
      /\ \A k \in 1..n : x[k] = Property(props[k]).bytes
  BY PiecesType
<1>2. n \in Nat /\ l \in Nat
  BY <1>1, LenProperties
<1> HIDE DEF x
<1>3. ASSUME NEW j \in 0..n
      PROVE  r(j) \in Seq(Byte) /\ Len(r(j)) \in Nat /\ Len(r(j)) <= l /\ Behind(b, at(j)) = r(j)
  <2> HIDE DEF b
  <2> QED BY <1>1, RestShorter
<1>4. PICK f : IsParse(f, u, p, l, 0) /\ Parse(b) = f[0]
  BY <1>1, ParseIs, Zenon
<1>5. \A k \in 0..l : u[k] = ParseOne(Behind(b, k)).used /\ p[k] = ParseOne(Behind(b, k)).prop
  BY Zenon
<1> HIDE DEF u, p
<1>6. \A k \in 0..l : f[k] = IF k = l \/ u[k] = 0 \/ k + u[k] > l THEN <<>> ELSE <<p[k]>> \o f[k + u[k]]
  BY <1>4, Zenon DEF IsParse
<1> DEFINE G == {j \in 0..n : f[at(j)] = Behind(props, j)}
<1>7. n \in G
  <2>1. r(n) = <<>>
    BY <1>1, RestEnds, Zenon
  <2>2. Len(r(n)) = 0
    BY <2>1
  <2>3. at(n) = l /\ l \in 0..l /\ n \in 0..n
    BY <1>2, <2>2, SMT
  <2>4. f[l] = <<>>
    BY <1>6, <2>3, Zenon
  <2>5. Behind(props, n) = <<>>
    BY BehindEnds
  <2> QED BY <2>3, <2>4, <2>5, Zenon
<1>8. ASSUME NEW j \in 0..n, j < n, j + 1 \in G PROVE j \in G
  <2> DEFINE q == props[j + 1]
             piece == Property(q).bytes
             m == at(j)
             k == Len(piece)
             next == r(j + 1)
  <2>1. j \in Nat /\ j + 1 \in 0..n /\ j + 1 \in 1..n
    BY <1>2, <1>8, SMT
  <2>2. /\ q \in PropertyValues /\ Behind(props, j) = <<q>> \o Behind(props, j + 1)
    BY <1>8, <2>1, BehindNext
  <2>3. x[j + 1] = piece
    BY <1>1, <2>1
  <2>4. r(j) = x[j + 1] \o next /\ Len(r(j)) = Len(x[j + 1]) + Len(next)
    BY <1>1, <1>8, <2>1, RestNext
  <2>5. next \in Seq(Byte) /\ Len(next) \in Nat /\ Len(next) <= l
    BY <1>3, <2>1
  <2>6. Len(r(j)) \in Nat /\ Len(r(j)) <= l /\ Behind(b, m) = r(j)
    BY <1>3
  <2>7. piece \in Seq(Byte) /\ k \in Nat /\ k >= 1
    <3>1. /\ piece \in Seq(Byte) /\ k = 1 + Len(ValueBytes(q))
          /\ Len(ValueBytes(q)) \in Nat
      BY <2>2, PropertyIs
    <3> QED BY <3>1, SMT
  <2> HIDE DEF q
  <2>8. ParseOne(piece \o next).prop = q /\ ParseOne(piece \o next).used = k
    <3> HIDE DEF next
    <3> QED BY <2>2, <2>5, ParseOneBack
  <2> HIDE DEF piece, next, b, l, r
  <2>9. Len(r(j)) = k + Len(next)
    BY <2>3, <2>4, Zenon
  <2> DEFINE s == Len(next)
             t == Len(r(j))
  <2>10. s \in Nat /\ s <= l /\ t \in Nat /\ t <= l /\ t = k + s /\ m = l - t /\ at(j + 1) = l - s
    BY <2>5, <2>6, <2>9, Zenon DEF next
  <2> HIDE DEF s, t, k, m
  <2>11. m \in 0..l /\ m # l /\ k # 0 /\ ~(m + k > l) /\ m + k = at(j + 1)
    <3> DEFINE w == at(j + 1)
    <3>1. w = l - s
      BY <2>10
    <3> HIDE DEF w
    <3>2. m \in 0..l /\ m # l /\ k # 0 /\ ~(m + k > l) /\ m + k = w
      BY <1>2, <2>7, <2>10, <3>1, SMT
    <3> QED BY <3>2, Zenon DEF w
  <2>12. u[m] = k /\ p[m] = q
    BY <1>5, <2>3, <2>4, <2>6, <2>8, <2>11, Zenon
  <2>13. f[m] = <<q>> \o f[at(j + 1)]
    BY <1>6, <2>11, <2>12, Zenon
  <2>14. f[at(j + 1)] = Behind(props, j + 1)
    BY <1>8
  <2> QED BY <2>2, <2>13, <2>14, Zenon DEF m
<1> HIDE DEF G
<1>9. \A j \in 0..n : j \in G
  BY <1>2, <1>7, <1>8, DownTo
<1>10. 0 \in 0..n /\ l - l = 0
  BY <1>2, SMT
<1>11. f[at(0)] = Behind(props, 0)
  BY <1>9, <1>10, Zenon DEF G
<1>12. r(0) = b
  BY <1>1, RestEnds, Zenon
<1>13. at(0) = 0
  BY <1>10, <1>12, Zenon
<1>14. Behind(props, 0) = props
  BY BehindEnds
<1> QED BY <1>4, <1>11, <1>13, <1>14, Zenon

-----------------------------------------------------------------------------
\* The lengths that the constructors compute.

\* b has the length that was computed for it.
Wired(l, b) == b \in Seq(Byte) /\ l \in Nat /\ l = Len(b)

\* The computed lengths of what is joined add up.
LEMMA WiredJoined ==
  ASSUME NEW k, NEW l, NEW x, NEW y, Wired(k, x), Wired(l, y)
  PROVE  Wired(k + l, x \o y) /\ x \o y \in Seq(Byte) /\ k + l \in Nat
<1>1. x \o y \in Seq(Byte) /\ Len(x \o y) = Len(x) + Len(y)
  BY OfJoined DEF Wired
<1> QED BY <1>1, SMT DEF Wired

\* Nothing has length zero, and joins to nothing.
LEMMA WiredEmpty == Wired(0, <<>>) /\ \A S, x : x \in Seq(S) => <<>> \o x = x /\ x \o <<>> = x
<1>1. <<>> \in Seq(Byte) /\ Len(<<>>) = 0
  OBVIOUS
<1>2. ASSUME NEW S, NEW x \in Seq(S) PROVE <<>> \o x = x /\ x \o <<>> = x
  OBVIOUS
<1> QED BY <1>1, <1>2, SMT DEF Wired

\* The computed length of a byte.
LEMMA WiredByte ==
  ASSUME NEW e \in Byte
  PROVE  Wired(1, <<e>>)
<1>1. <<e>> \in Seq(Byte) /\ Len(<<e>>) = 1
  OBVIOUS
<1> QED BY <1>1, SMT DEF Wired

\* The computed length of a text.
LEMMA WiredText ==
  ASSUME NEW s \in Strings
  PROVE  Wired(2 + Len(s), Text(s))
<1>1. Len(s) \in Nat /\ Text(s) \in Seq(Byte) /\ Len(Text(s)) = 2 + Len(s)
  BY TextIs
<1> QED BY <1>1, SMT DEF Wired

\* Texts on the wire, one by one.
TextPieces(s) == [k \in DOMAIN s |-> Text(s[k])]

\* Texts on the wire are their pieces joined, of the length that was computed.
LEMMA TextPiecesType ==
  ASSUME NEW s \in Seq(Strings)
  PROVE  /\ TextPieces(s) \in Seq(Seq(Byte)) /\ Len(TextPieces(s)) = Len(s)
         /\ \A k \in 1..Len(s) : TextPieces(s)[k] = Text(s[k])
         /\ Texts(s) = FlattenSeq(TextPieces(s))
         /\ Wired(TextsSize(s), Texts(s))
<1>1. Len(s) \in Nat /\ DOMAIN s = 1..Len(s)
  BY LenProperties
<1> DEFINE x == TextPieces(s)
           n == [k \in DOMAIN s |-> 2 + Len(s[k])]
<1>3. \A k \in 1..Len(s) : /\ Text(s[k]) \in Seq(Byte) /\ 2 + Len(s[k]) \in Nat
                           /\ 2 + Len(s[k]) = Len(Text(s[k]))
  <2> TAKE k \in 1..Len(s)
  <2>1. s[k] \in Strings
    BY ElementOfSeq
  <2> QED BY <2>1, WiredText DEF Wired
<1>4. x = [k \in 1..Len(s) |-> Text(s[k])] /\ n = [k \in 1..Len(s) |-> 2 + Len(s[k])]
  BY <1>1, Zenon DEF TextPieces
<1> HIDE DEF x, n
<1>5. \A k \in 1..Len(s) : x[k] = Text(s[k]) /\ n[k] = 2 + Len(s[k])
  BY <1>4, Zenon
<1>6. x = [k \in 1..Len(s) |-> x[k]] /\ n = [k \in 1..Len(s) |-> n[k]]
  BY <1>4
<1>7. \A k \in 1..Len(s) : x[k] \in Seq(Byte) /\ n[k] \in Nat /\ n[k] = Len(x[k])
  BY <1>3, <1>5, Zenon
<1>8. x \in Seq(Seq(Byte)) /\ Len(x) = Len(s)
  BY <1>1, <1>6, <1>7, Places
<1>9. n \in Seq(Nat) /\ Len(n) = Len(s)
  BY <1>1, <1>6, <1>7, Places
<1>10. Len(n) = Len(x) /\ \A i \in 1..Len(x) : n[i] = Len(x[i])
  BY <1>7, <1>8, <1>9
<1>11. SumOf(n) = Len(FlattenSeq(x))
  BY <1>8, <1>9, <1>10, FlattenLength
<1>12. FlattenSeq(x) \in Seq(Byte) /\ Len(FlattenSeq(x)) \in Nat
  BY <1>8, FlattenType, LenProperties
<1>13. Texts(s) = FlattenSeq(x) /\ TextsSize(s) = SumOf(n)
  BY Zenon DEF Texts, TextsSize, TextPieces, x, n
<1> QED BY <1>5, <1>8, <1>11, <1>12, <1>13 DEF x, Wired

\* No text, and one.
LEMMA TextsOf ==
  /\ Texts(<<>>) = <<>> /\ TextsSize(<<>>) = 0
  /\ \A x \in Strings : Texts(<<x>>) = Text(x) /\ TextsSize(<<x>>) = 2 + Len(x)
<1>1. Texts(<<>>) = <<>> /\ TextsSize(<<>>) = 0
  <2>1. [k \in DOMAIN <<>> |-> Text(<<>>[k])] = <<>> /\ [k \in DOMAIN <<>> |-> 2 + Len(<<>>[k])] = <<>>
    OBVIOUS
  <2> QED BY <2>1, FlattenEmpty, SumEmpty, Zenon DEF Texts, TextsSize
<1>2. ASSUME NEW x \in Strings PROVE Texts(<<x>>) = Text(x) /\ TextsSize(<<x>>) = 2 + Len(x)
  <2>1. Text(x) \in Seq(Byte) /\ 2 + Len(x) = Len(Text(x))
    BY WiredText DEF Wired
  <2> DEFINE s == <<x>>
             y == TextPieces(s)
  <2>2. s \in Seq(Strings) /\ Len(s) = 1 /\ s[1] = x
    BY IsOneSeq
  <2> HIDE DEF s
  <2>3. /\ y \in Seq(Seq(Byte)) /\ Len(y) = Len(s) /\ \A k \in 1..Len(s) : y[k] = Text(s[k])
        /\ Texts(s) = FlattenSeq(y) /\ Wired(TextsSize(s), Texts(s))
    BY <2>2, TextPiecesType
  <2> HIDE DEF y
  <2>4. y \in Seq(Seq(Byte)) /\ Len(y) = 1 /\ y[1] = Text(x)
    BY <2>2, <2>3
  <2> DEFINE t == Text(x)
  <2>5. t \in Seq(Byte)
    BY <2>1
  <2> HIDE DEF t
  <2>6. <<>> \in Seq(Seq(Byte)) /\ y = Append(<<>>, t)
    BY <2>4 DEF t
  <2>7. FlattenSeq(y) = FlattenSeq(<<>>) \o t
    BY <2>5, <2>6, FlattenAppend
  <2>8. FlattenSeq(y) = t
    BY <2>5, <2>7, FlattenEmpty
  <2> QED BY <2>1, <2>3, <2>8 DEF s, t, Wired
<1> QED BY <1>1, <1>2

\* Texts, then other texts.
LEMMA TextsJoined ==
  ASSUME NEW s \in Seq(Strings), NEW t \in Seq(Strings)
  PROVE  /\ Texts(s \o t) = Texts(s) \o Texts(t)
         /\ TextsSize(s \o t) = TextsSize(s) + TextsSize(t)
         /\ s \o t \in Seq(Strings)
<1> DEFINE u == s \o t
           x == TextPieces(s)
           y == TextPieces(t)
           z == TextPieces(u)
<1>1. /\ u \in Seq(Strings) /\ Len(u) = Len(s) + Len(t) /\ Len(s) \in Nat /\ Len(t) \in Nat
      /\ \A i \in 1..(Len(s) + Len(t)) : u[i] = IF i <= Len(s) THEN s[i] ELSE t[i - Len(s)]
  BY ConcatProperties
<1> HIDE DEF u
<1>2. /\ x \in Seq(Seq(Byte)) /\ Len(x) = Len(s) /\ \A k \in 1..Len(s) : x[k] = Text(s[k])
      /\ Texts(s) = FlattenSeq(x) /\ Wired(TextsSize(s), Texts(s))
  BY TextPiecesType
<1>3. /\ y \in Seq(Seq(Byte)) /\ Len(y) = Len(t) /\ \A k \in 1..Len(t) : y[k] = Text(t[k])
      /\ Texts(t) = FlattenSeq(y) /\ Wired(TextsSize(t), Texts(t))
  BY TextPiecesType
<1>4. /\ z \in Seq(Seq(Byte)) /\ Len(z) = Len(u) /\ \A k \in 1..Len(u) : z[k] = Text(u[k])
      /\ Texts(u) = FlattenSeq(z) /\ Wired(TextsSize(u), Texts(u))
  BY <1>1, TextPiecesType
<1> HIDE DEF x, y, z
<1>5. /\ x \o y \in Seq(Seq(Byte)) /\ Len(x \o y) = Len(x) + Len(y)
      /\ \A i \in 1..(Len(x) + Len(y)) : (x \o y)[i] = IF i <= Len(x) THEN x[i] ELSE y[i - Len(x)]
  <2>1. x \in Seq(Seq(Byte)) /\ y \in Seq(Seq(Byte))
    BY <1>2, <1>3
  <2> QED BY <2>1, ConcatProperties, Zenon
<1>6. \A i \in 1..Len(z) : z[i] = (x \o y)[i]
  <2> TAKE i \in 1..Len(z)
  <2>1. i \in 1..Len(u) /\ i \in 1..(Len(s) + Len(t)) /\ i \in 1..(Len(x) + Len(y))
    BY <1>1, <1>2, <1>3, <1>4, Zenon
  <2>2. CASE i <= Len(s)
    <3>1. i \in 1..Len(s)
      BY <1>1, <2>1, <2>2
    <3>2. z[i] = Text(s[i])
      BY <1>1, <1>4, <2>1, <2>2, Zenon
    <3>3. (x \o y)[i] = Text(s[i])
      BY <1>2, <1>5, <2>1, <2>2, <3>1, Zenon
    <3> QED BY <3>2, <3>3
  <2>3. CASE ~(i <= Len(s))
    <3>1. i - Len(s) \in 1..Len(t)
      BY <1>1, <2>1, <2>3
    <3>2. z[i] = Text(t[i - Len(s)])
      BY <1>1, <1>4, <2>1, <2>3, Zenon
    <3>3. (x \o y)[i] = Text(t[i - Len(s)])
      BY <1>2, <1>3, <1>5, <2>1, <2>3, <3>1, Zenon
    <3> QED BY <3>2, <3>3
  <2> QED BY <2>2, <2>3
<1>7. z = x \o y
  <2>1. Len(z) = Len(x \o y)
    BY <1>1, <1>2, <1>3, <1>4, <1>5
  <2> QED BY <1>4, <1>5, <1>6, <2>1, SeqEqual
<1>8. FlattenSeq(z) = FlattenSeq(x) \o FlattenSeq(y)
  BY <1>2, <1>3, <1>7, FlattenJoined
<1>9. Texts(u) = Texts(s) \o Texts(t)
  BY <1>2, <1>3, <1>4, <1>8, Zenon
<1>10. Wired(TextsSize(s) + TextsSize(t), Texts(s) \o Texts(t))
  BY <1>2, <1>3, WiredJoined
<1>11. TextsSize(u) = TextsSize(s) + TextsSize(t)
  BY <1>4, <1>9, <1>10 DEF Wired
<1> QED BY <1>1, <1>9, <1>11 DEF u

\* Topic filters with their options on the wire, one by one.
FilterPieces(p) == [k \in DOMAIN p.filters |-> Text(p.filters[k]) \o <<p.options[k]>>]
FiltersSize(p) == SumOf([k \in DOMAIN p.filters |-> 2 + Len(p.filters[k]) + 1])

\* Topic filters with their options have the length that was computed.
LEMMA FilterPiecesType ==
  ASSUME NEW p, p.filters \in Seq(Strings), p.options \in Seq(Byte), Len(p.options) = Len(p.filters)
  PROVE  /\ FilterPieces(p) \in Seq(Seq(Byte)) /\ Len(FilterPieces(p)) = Len(p.filters)
         /\ \A k \in 1..Len(p.filters) : FilterPieces(p)[k] = Text(p.filters[k]) \o <<p.options[k]>>
         /\ Wired(FiltersSize(p), FlattenSeq(FilterPieces(p)))
<1> DEFINE s == p.filters
           o == p.options
<1>1. Len(s) \in Nat /\ DOMAIN s = 1..Len(s) /\ s \in Seq(Strings) /\ o \in Seq(Byte) /\ Len(o) = Len(s)
  BY LenProperties
<1> DEFINE x == FilterPieces(p)
           n == [k \in DOMAIN s |-> 2 + Len(s[k]) + 1]
<1>4. x = [k \in 1..Len(s) |-> Text(s[k]) \o <<o[k]>>] /\ n = [k \in 1..Len(s) |-> 2 + Len(s[k]) + 1]
  BY <1>1, Zenon DEF FilterPieces
<1>13. FilterPieces(p) = x /\ FiltersSize(p) = SumOf(n)
  BY Zenon DEF FilterPieces, FiltersSize
<1> HIDE DEF s, o
<1>3. \A k \in 1..Len(s) : Wired(2 + Len(s[k]) + 1, Text(s[k]) \o <<o[k]>>)
  <2> TAKE k \in 1..Len(s)
  <2>1. s[k] \in Strings
    BY <1>1, ElementOfSeq
  <2>2. o[k] \in Byte
    BY <1>1, ElementOfSeq
  <2>3. Wired(2 + Len(s[k]), Text(s[k])) /\ Wired(1, <<o[k]>>)
    BY <2>1, <2>2, WiredText, WiredByte
  <2> QED BY <2>3, WiredJoined
<1> HIDE DEF x, n
<1>5. \A k \in 1..Len(s) : x[k] = Text(s[k]) \o <<o[k]>> /\ n[k] = 2 + Len(s[k]) + 1
  BY <1>4, Zenon
<1>6. x = [k \in 1..Len(s) |-> x[k]] /\ n = [k \in 1..Len(s) |-> n[k]]
  BY <1>4
<1>7. \A k \in 1..Len(s) : x[k] \in Seq(Byte) /\ n[k] \in Nat /\ n[k] = Len(x[k])
  BY <1>3, <1>5, Zenon DEF Wired
<1>8. x \in Seq(Seq(Byte)) /\ Len(x) = Len(s)
  BY <1>1, <1>6, <1>7, Places
<1>9. n \in Seq(Nat) /\ Len(n) = Len(s)
  BY <1>1, <1>6, <1>7, Places
<1>10. Len(n) = Len(x) /\ \A i \in 1..Len(x) : n[i] = Len(x[i])
  BY <1>7, <1>8, <1>9
<1>11. SumOf(n) = Len(FlattenSeq(x))
  BY <1>8, <1>9, <1>10, FlattenLength
<1>12. FlattenSeq(x) \in Seq(Byte) /\ Len(FlattenSeq(x)) \in Nat
  BY <1>8, FlattenType, LenProperties
<1> QED BY <1>5, <1>8, <1>11, <1>12, <1>13 DEF x, s, o, Wired

-----------------------------------------------------------------------------
\* The fixed header.

\* The types of packet that are sent.
TypeNames == {"connect", "connack", "publish", "puback", "pubrec", "pubrel", "pubcomp", "subscribe",
              "suback", "unsubscribe", "unsuback", "pingreq", "pingresp", "disconnect", "auth"}

\* The two halves of the fixed header.
LEMMA Sixteens ==
  ASSUME NEW n \in 1..15, NEW f \in 0..15
  PROVE  /\ (16 * n + f) \div 16 = n /\ (16 * n + f) % 16 = f /\ 16 * n + f \in 0..255
         /\ (16 * n + f) % 8 = f % 8 /\ (16 * n + f) % 2 = f % 2
BY SMT

\* Every type has a number.
LEMMA TypesIs ==
  ASSUME NEW type \in TypeNames
  PROVE  \E n \in DOMAIN Types : Types[n] = type /\ n \in 1..15
<1>1. DOMAIN Types = 1..15
  BY SMT DEF Types
<1>2. /\ Types[1] = "connect" /\ Types[2] = "connack" /\ Types[3] = "publish" /\ Types[4] = "puback"
      /\ Types[5] = "pubrec" /\ Types[6] = "pubrel" /\ Types[7] = "pubcomp" /\ Types[8] = "subscribe"
      /\ Types[9] = "suback" /\ Types[10] = "unsubscribe" /\ Types[11] = "unsuback"
      /\ Types[12] = "pingreq" /\ Types[13] = "pingresp" /\ Types[14] = "disconnect" /\ Types[15] = "auth"
  BY SMT DEF Types
<1>3. \A n \in 1..15 : n \in DOMAIN Types
  BY <1>1
<1>4. /\ 1 \in 1..15 /\ 2 \in 1..15 /\ 3 \in 1..15 /\ 4 \in 1..15 /\ 5 \in 1..15 /\ 6 \in 1..15
      /\ 7 \in 1..15 /\ 8 \in 1..15 /\ 9 \in 1..15 /\ 10 \in 1..15 /\ 11 \in 1..15 /\ 12 \in 1..15
      /\ 13 \in 1..15 /\ 14 \in 1..15 /\ 15 \in 1..15
  BY SMT
<1> QED BY <1>2, <1>3, <1>4, SMT DEF TypeNames

\* The type and the flags are read back from the fixed header.
LEMMA HeaderIs ==
  ASSUME NEW type \in TypeNames, NEW f \in 0..15
  PROVE  /\ FixedHeader(type, f) \in Byte /\ TypeOf(FixedHeader(type, f)) = type
         /\ FlagsOf(FixedHeader(type, f)) = f
         /\ FixedHeader(type, f) % 8 = f % 8 /\ FixedHeader(type, f) % 2 = f % 2
<1> DEFINE n == CHOOSE k \in DOMAIN Types : Types[k] = type
           h == FixedHeader(type, f)
<1>1. n \in DOMAIN Types /\ Types[n] = type
  BY TypesIs, Zenon
<1>2. DOMAIN Types = 1..15
  BY SMT DEF Types
<1>3. h = 16 * n + f
  BY Zenon DEF FixedHeader
<1> HIDE DEF n, h
<1>4. n \in 1..15
  BY <1>1, <1>2
<1>5. h \div 16 = n /\ h % 16 = f /\ h \in 0..255 /\ h % 8 = f % 8 /\ h % 2 = f % 2
  BY <1>3, <1>4, Sixteens
<1>6. n # 0
  BY <1>4, SMT
<1>7. TypeOf(h) = type /\ FlagsOf(h) = f
  BY <1>1, <1>5, <1>6, Zenon DEF TypeOf, FlagsOf
<1> QED BY <1>5, <1>7 DEF h, Byte

\* DUP, QoS and RETAIN are read back from the flags.
LEMMA OptionsIs ==
  ASSUME NEW dup \in BOOLEAN, NEW qos \in 0..2, NEW retain \in BOOLEAN, NEW f,
         f = (IF dup THEN 8 ELSE 0) + 2 * qos + (IF retain THEN 1 ELSE 0)
  PROVE  /\ f \in 0..15 /\ (f % 8) \div 2 = qos /\ (f >= 8 <=> dup) /\ (f % 2 = 1 <=> retain)
<1> DEFINE d == IF dup THEN 1 ELSE 0
           r == IF retain THEN 1 ELSE 0
<1>1. d \in 0..1 /\ r \in 0..1 /\ f = 8 * d + 2 * qos + r /\ (d = 1 <=> dup) /\ (r = 1 <=> retain)
  <2>1. CASE dup
    BY <2>1, SMT
  <2>2. CASE ~dup
    BY <2>2, SMT
  <2> QED BY <2>1, <2>2
<1> HIDE DEF d, r
<1>2. f \in 0..15 /\ f % 8 = 2 * qos + r /\ (2 * qos + r) \div 2 = qos /\ (f >= 8 <=> d = 1) /\ f % 2 = r
  BY <1>1, SMT
<1> QED BY <1>1, <1>2, Zenon

-----------------------------------------------------------------------------
\* The packets on the wire.

\* The properties, which MQTT 3.1.1 does not have.
PropBytes(v, props) == IF v = 5 THEN Properties(props) ELSE <<>>
PropSize(v, props) == IF v = 5 THEN PropertiesSize(props) ELSE 0

\* Properties behind their length have the length that was computed.
LEMMA WiredProperties ==
  ASSUME NEW props \in Seq(PropertyValues)
  PROVE  /\ Wired(PropertiesSize(props), Properties(props))
         /\ Properties(props) = VarBytes(Len(PropertyBytes(props))) \o PropertyBytes(props)
         /\ PropertyBytes(props) \in Seq(Byte) /\ Len(PropertyBytes(props)) \in Nat
         /\ Len(PropertyBytes(props)) <= Len(Properties(props))
         /\ PropertiesLength(props) = Len(PropertyBytes(props))
         /\ VarBytes(PropertiesLength(props)) \in Seq(Byte)
         /\ Len(Properties(props)) >= 1
<1> DEFINE b == PropertyBytes(props)
           n == PropertiesLength(props)
           w == VarBytes(n)
<1>1. b \in Seq(Byte) /\ n = Len(b)
  BY PiecesType
<1>2. n \in Nat
  BY <1>1, LenProperties
<1>3. w \in Seq(Byte) /\ Len(w) \in 1..4
  <2> HIDE DEF n
  <2> QED BY <1>2, LengthType
<1>4. Properties(props) = w \o b /\ PropertiesSize(props) = Len(w) + n
  BY Zenon DEF Properties, PropertiesSize
<1> HIDE DEF b, n, w
<1>5. w \o b \in Seq(Byte) /\ Len(w \o b) = Len(w) + Len(b)
  <2>1. w \in Seq(Byte) /\ b \in Seq(Byte)
    BY <1>1, <1>3
  <2> QED BY <2>1, OfJoined, Zenon
<1>6. Len(w) + Len(b) \in Nat /\ Len(b) <= Len(w) + Len(b) /\ Len(w) + Len(b) >= 1
  <2> DEFINE k == Len(w)
  <2>1. k \in 1..4 /\ Len(b) \in Nat
    BY <1>1, <1>2, <1>3
  <2> HIDE DEF k
  <2>2. k + Len(b) \in Nat /\ Len(b) <= k + Len(b) /\ k + Len(b) >= 1
    BY <2>1, SMT
  <2> QED BY <2>2 DEF k
<1>7. Wired(PropertiesSize(props), Properties(props))
  BY <1>1, <1>4, <1>5, <1>6, Zenon DEF Wired
<1>8. Len(b) <= Len(Properties(props)) /\ Len(Properties(props)) >= 1
  BY <1>4, <1>5, <1>6, Zenon
<1>9. Properties(props) = VarBytes(Len(b)) \o b
  BY <1>1, <1>4, Zenon DEF w
<1> QED BY <1>1, <1>2, <1>3, <1>7, <1>8, <1>9 DEF b, n, w

\* The same in either version.
LEMMA WiredPropBytes ==
  ASSUME NEW v \in {4, 5}, NEW props \in PropsOf(v)
  PROVE  Wired(PropSize(v, props), PropBytes(v, props))
<1>1. CASE v = 5
  BY <1>1, WiredProperties DEF PropsOf, PropSize, PropBytes
<1>2. CASE v # 5
  BY <1>2, WiredEmpty, Zenon DEF PropSize, PropBytes
<1> QED BY <1>1, <1>2

\* The parts of the packets on the wire, as the reader takes them.
IdBytes(p) == BigEndian(p.id, 2)
ReasonPart(p) ==
  IF p.reason = 0 THEN <<>>
  ELSE IF p.props = <<>> THEN <<p.reason>> ELSE <<p.reason>> \o Properties(p.props)
EndPart(p) == IF p.reason = 0 THEN <<>> ELSE <<p.reason>> \o Properties(p.props)
WillPart(v, p) ==
  IF p.will = <<>> THEN <<>>
  ELSE PropBytes(v, p.will[1].props) \o (Text(p.will[1].topic) \o Text(p.will[1].message))
ConnectStart(v, p) == ProtocolName \o <<v, ConnectFlags(p)>> \o BigEndian(p.keepAlive, 2)
ConnackStart(p) == <<IF p.sessionPresent THEN 1 ELSE 0, p.reason>>
UserPart(p) == Texts(p.user) \o Texts(p.password)

\* What follows the remaining length.
Body(v, p) ==
  CASE p.type = "connect" ->
         ConnectStart(v, p) \o (PropBytes(v, p.props) \o (Text(p.clientId) \o (WillPart(v, p) \o UserPart(p))))
    [] p.type = "connack" -> ConnackStart(p) \o PropBytes(v, p.props)
    [] p.type = "publish" -> Text(p.topic) \o (PublishId(p) \o (PropBytes(v, p.props) \o p.payload))
    [] p.type \in Acks -> IdBytes(p) \o ReasonPart(p)
    [] p.type = "subscribe" -> IdBytes(p) \o (PropBytes(v, p.props) \o FlattenSeq(FilterPieces(Kept(v, p))))
    [] p.type = "unsubscribe" -> IdBytes(p) \o (PropBytes(v, p.props) \o Texts(p.filters))
    [] p.type \in {"suback", "unsuback"} -> IdBytes(p) \o (PropBytes(v, p.props) \o p.codes)
    [] p.type \in {"pingreq", "pingresp"} -> <<>>
    [] p.type \in {"disconnect", "auth"} -> EndPart(p)
\* The first byte.
HeaderOf(p) ==
  FixedHeader(p.type, IF p.type = "publish" THEN PublishOptions(p) ELSE ReservedBits(p.type))

\* A packet on the wire: the first byte, the remaining length as computed, and a body of that length.
IsFramed(v, p) ==
  /\ Encoded(v, p) = Framed(HeaderOf(p), Len(Body(v, p)), Body(v, p))
  /\ Body(v, p) \in Seq(Byte)

\* How a body that is joined from the left is joined from the right.
LEMMA FramedBy ==
  ASSUME NEW v, NEW p, NEW l, NEW b, Encoded(v, p) = Framed(HeaderOf(p), l, b), Body(v, p) = b, Wired(l, b)
  PROVE  IsFramed(v, p)
BY Zenon DEF IsFramed, Wired

\* Joining, as a name for the provers.
Cat(x, y) == x \o y

\* Joining associates.
LEMMA CatJoins ==
  /\ \A x \in Seq(Byte), y \in Seq(Byte) : Cat(x, y) \in Seq(Byte)
  /\ \A x \in Seq(Byte), y \in Seq(Byte), z \in Seq(Byte) : Cat(Cat(x, y), z) = Cat(x, Cat(y, z))
<1>1. ASSUME NEW x \in Seq(Byte), NEW y \in Seq(Byte) PROVE Cat(x, y) \in Seq(Byte)
  BY OfJoined, Zenon DEF Cat
<1>2. ASSUME NEW x \in Seq(Byte), NEW y \in Seq(Byte), NEW z \in Seq(Byte)
      PROVE  Cat(Cat(x, y), z) = Cat(x, Cat(y, z))
  <2>1. (x \o y) \o z = x \o (y \o z)
    BY Associate, SMTT(30)
  <2> QED BY <2>1, Zenon DEF Cat
<1> QED BY <1>1, <1>2, Zenon

\* A packet id takes two bytes and is read back.
LEMMA WiredId ==
  ASSUME NEW n \in TwoBytes
  PROVE  Wired(2, BigEndian(n, 2)) /\ Number(BigEndian(n, 2)) = n
<1>1. n \in Nat /\ n < 65536
  BY InTwoBytes
<1>2. /\ BigEndian(n, 2) \in Seq(Byte) /\ Len(BigEndian(n, 2)) = 2
      /\ Number(BigEndian(n, 2)) = n
  BY <1>1, TwoBytesBack
<1>3. 2 \in Nat
  BY SMT
<1> QED BY <1>2, <1>3, Zenon DEF Wired

\* No packet id is zero.
LEMMA IdsAreTwoBytes == \A n \in Ids : n \in TwoBytes /\ n # 0
BY Zenon DEF Ids

\* Bytes have their length.
LEMMA WiredBytes ==
  ASSUME NEW b \in Seq(Byte)
  PROVE  Wired(Len(b), b)
BY LenProperties, Zenon DEF Wired

\* What each type is written as.
LEMMA EncodedOf ==
  ASSUME NEW p
  PROVE  /\ p.type = "connect" => Encoded(4, p) = Connect(p) /\ Encoded(5, p) = ConnectV5(p)
         /\ p.type = "connack" => Encoded(4, p) = Connack(p) /\ Encoded(5, p) = ConnackV5(p)
         /\ p.type = "publish" => Encoded(4, p) = Publish(p) /\ Encoded(5, p) = PublishV5(p)
         /\ p.type = "puback" => Encoded(4, p) = Puback(p) /\ Encoded(5, p) = PubackV5(p)
         /\ p.type = "pubrec" => Encoded(4, p) = Pubrec(p) /\ Encoded(5, p) = PubrecV5(p)
         /\ p.type = "pubrel" => Encoded(4, p) = Pubrel(p) /\ Encoded(5, p) = PubrelV5(p)
         /\ p.type = "pubcomp" => Encoded(4, p) = Pubcomp(p) /\ Encoded(5, p) = PubcompV5(p)
         /\ p.type = "subscribe" => Encoded(4, p) = Subscribe(p) /\ Encoded(5, p) = SubscribeV5(p)
         /\ p.type = "suback" => Encoded(4, p) = Suback(p) /\ Encoded(5, p) = SubackV5(p)
         /\ p.type = "unsubscribe" => Encoded(4, p) = Unsubscribe(p) /\ Encoded(5, p) = UnsubscribeV5(p)
         /\ p.type = "unsuback" => Encoded(4, p) = Unsuback(p) /\ Encoded(5, p) = UnsubackV5(p)
         /\ p.type = "pingreq" => Encoded(4, p) = Pingreq(p) /\ Encoded(5, p) = PingreqV5(p)
         /\ p.type = "pingresp" => Encoded(4, p) = Pingresp(p) /\ Encoded(5, p) = PingrespV5(p)
         /\ p.type = "disconnect" => Encoded(4, p) = Disconnect(p) /\ Encoded(5, p) = DisconnectV5(p)
         /\ p.type = "auth" => Encoded(5, p) = AuthV5(p)
<1> DEFINE t == p.type
<1>1. Encoded(4, p) = CASE t = "connect" -> Connect(p)
          [] t = "connack" -> Connack(p)
          [] t = "publish" -> Publish(p)
          [] t = "puback" -> Puback(p)
          [] t = "pubrec" -> Pubrec(p)
          [] t = "pubrel" -> Pubrel(p)
          [] t = "pubcomp" -> Pubcomp(p)
          [] t = "subscribe" -> Subscribe(p)
          [] t = "suback" -> Suback(p)
          [] t = "unsubscribe" -> Unsubscribe(p)
          [] t = "unsuback" -> Unsuback(p)
          [] t = "pingreq" -> Pingreq(p)
          [] t = "pingresp" -> Pingresp(p)
          [] t = "disconnect" -> Disconnect(p)
  BY SMT DEF Encoded
<1>2. Encoded(5, p) = CASE t = "connect" -> ConnectV5(p)
          [] t = "connack" -> ConnackV5(p)
          [] t = "publish" -> PublishV5(p)
          [] t = "puback" -> PubackV5(p)
          [] t = "pubrec" -> PubrecV5(p)
          [] t = "pubrel" -> PubrelV5(p)
          [] t = "pubcomp" -> PubcompV5(p)
          [] t = "subscribe" -> SubscribeV5(p)
          [] t = "suback" -> SubackV5(p)
          [] t = "unsubscribe" -> UnsubscribeV5(p)
          [] t = "unsuback" -> UnsubackV5(p)
          [] t = "pingreq" -> PingreqV5(p)
          [] t = "pingresp" -> PingrespV5(p)
          [] t = "disconnect" -> DisconnectV5(p)
          [] t = "auth" -> AuthV5(p)
  BY SMT DEF Encoded
<1> HIDE DEF t
<1> QED BY <1>1, <1>2, SMT DEF t

\* PUBLISH on the wire.
LEMMA PublishFramed ==
  ASSUME NEW v \in {4, 5}, NEW p \in Publishes(v)
  PROVE  IsFramed(v, p)
<1>1. /\ p.type = "publish" /\ p.dup \in BOOLEAN /\ p.qos \in 0..2 /\ p.retain \in BOOLEAN
      /\ p.topic \in Strings /\ p.id \in TwoBytes /\ p.payload \in Seq(Byte) /\ p.props \in PropsOf(v)
  BY DEF Publishes
<1> DEFINE a == Text(p.topic)
           i == PublishId(p)
           q == PropBytes(v, p.props)
           d == p.payload
           la == 2 + Len(p.topic)
           li == IF p.qos > 0 THEN 2 ELSE 0
           lq == PropSize(v, p.props)
           ld == Len(p.payload)
<1>2. Wired(la, a)
  BY <1>1, WiredText
<1>3. Wired(li, i)
  BY <1>1, WiredId, WiredEmpty, Zenon DEF PublishId
<1>4. Wired(lq, q)
  BY <1>1, WiredPropBytes
<1>5. Wired(ld, d)
  BY <1>1, WiredBytes
<1>6. Body(v, p) = a \o (i \o (q \o d))
  BY <1>1, Zenon DEF Body, Acks
<1>7. HeaderOf(p) = FixedHeader("publish", PublishOptions(p))
  BY <1>1, Zenon DEF HeaderOf
<1>10. a \in Seq(Byte) /\ i \in Seq(Byte) /\ q \in Seq(Byte) /\ d \in Seq(Byte)
  BY <1>2, <1>3, <1>4, <1>5, Zenon DEF Wired
<1>8. CASE v = 5
  <2>5. q = Properties(p.props) /\ lq = PropertiesSize(p.props)
    BY <1>8, Zenon DEF PropBytes, PropSize
  <2>6. Encoded(v, p) = PublishV5(p)
    BY <1>1, <1>8, EncodedOf, Zenon
  <2>1. Encoded(v, p) = Framed(HeaderOf(p), la + li + ld + lq, a \o i \o q \o d)
    BY <1>7, <2>5, <2>6, Zenon DEF PublishV5
  <2> HIDE DEF a, i, q, d, la, li, lq, ld
  <2>2. a \o i \o q \o d = a \o (i \o (q \o d))
    <3>1. Cat(Cat(Cat(a, i), q), d) = Cat(a, Cat(i, Cat(q, d)))
      BY <1>10, CatJoins, SMT
    <3> QED BY <3>1, Zenon DEF Cat
  <2>3. Wired(la + (li + (lq + ld)), a \o (i \o (q \o d)))
    BY <1>2, <1>3, <1>4, <1>5, WiredJoined
  <2>4. la + li + ld + lq = la + (li + (lq + ld))
    BY <1>2, <1>3, <1>4, <1>5, SMT DEF Wired
  <2> QED BY <1>6, <2>1, <2>2, <2>3, <2>4, FramedBy, Zenon
<1>9. CASE v = 4
  <2>5. q = <<>> /\ Encoded(v, p) = Publish(p)
    <3>1. v # 5
      BY <1>9, SMT
    <3> QED BY <1>1, <1>9, <3>1, EncodedOf, Zenon DEF PropBytes
  <2>1. Encoded(v, p) = Framed(HeaderOf(p), la + li + ld, a \o i \o d) /\ q = <<>>
    BY <1>7, <2>5, Zenon DEF Publish
  <2> HIDE DEF a, i, q, d, la, li, lq, ld
  <2>6. q \o d = d
    BY <1>10, <2>1, WiredEmpty, Zenon
  <2>2. a \o i \o d = a \o (i \o d) /\ q \o d = d
    BY <1>10, <2>6, Associate, SMTT(30)
  <2>3. Wired(la + (li + ld), a \o (i \o d))
    BY <1>2, <1>3, <1>5, WiredJoined
  <2>4. la + li + ld = la + (li + ld)
    BY <1>2, <1>3, <1>5, SMT DEF Wired
  <2> QED BY <1>6, <2>1, <2>2, <2>3, <2>4, FramedBy, Zenon
<1> QED BY <1>8, <1>9

\* The first byte of every packet but PUBLISH.
LEMMA PacketHeader ==
  ASSUME NEW p, p.type # "publish"
  PROVE  HeaderOf(p) = FixedHeader(p.type, ReservedBits(p.type))
BY Zenon DEF HeaderOf

\* The types exclude each other.
LEMMA TypesApart ==
  ASSUME NEW p
  PROVE  /\ p.type \in Acks => /\ p.type \notin {"connect", "connack", "publish"}
                               /\ p.type \in {"puback", "pubrec", "pubrel", "pubcomp"}
         /\ p.type \in {"suback", "unsuback"} =>
              p.type \notin {"connect", "connack", "publish", "subscribe", "unsubscribe"} \cup Acks
         /\ p.type \in {"pingreq", "pingresp"} =>
              p.type \notin {"connect", "connack", "publish", "subscribe", "unsubscribe", "suback",
                             "unsuback"} \cup Acks
         /\ p.type \in {"disconnect", "auth"} =>
              p.type \notin {"connect", "connack", "publish", "subscribe", "unsubscribe", "suback",
                             "unsuback", "pingreq", "pingresp"} \cup Acks
BY SMT DEF Acks

\* The body of each type.
LEMMA BodyOf ==
  ASSUME NEW v, NEW p
  PROVE  /\ p.type \in Acks => Body(v, p) = IdBytes(p) \o ReasonPart(p)
         /\ p.type = "connack" => Body(v, p) = ConnackStart(p) \o PropBytes(v, p.props)
         /\ p.type = "connect" =>
              Body(v, p) = ConnectStart(v, p)
                \o (PropBytes(v, p.props) \o (Text(p.clientId) \o (WillPart(v, p) \o UserPart(p))))
         /\ p.type = "publish" =>
              Body(v, p) = Text(p.topic) \o (PublishId(p) \o (PropBytes(v, p.props) \o p.payload))
         /\ p.type = "subscribe" =>
              Body(v, p) = IdBytes(p) \o (PropBytes(v, p.props) \o FlattenSeq(FilterPieces(Kept(v, p))))
         /\ p.type = "unsubscribe" => Body(v, p) = IdBytes(p) \o (PropBytes(v, p.props) \o Texts(p.filters))
         /\ p.type \in {"suback", "unsuback"} => Body(v, p) = IdBytes(p) \o (PropBytes(v, p.props) \o p.codes)
         /\ p.type \in {"pingreq", "pingresp"} => Body(v, p) = <<>>
         /\ p.type \in {"disconnect", "auth"} => Body(v, p) = EndPart(p)
<1> DEFINE acks == IdBytes(p) \o ReasonPart(p)
           connack == ConnackStart(p) \o PropBytes(v, p.props)
           connect == ConnectStart(v, p)
                \o (PropBytes(v, p.props) \o (Text(p.clientId) \o (WillPart(v, p) \o UserPart(p))))
           publish == Text(p.topic) \o (PublishId(p) \o (PropBytes(v, p.props) \o p.payload))
           subscribe == IdBytes(p) \o (PropBytes(v, p.props) \o FlattenSeq(FilterPieces(Kept(v, p))))
           unsubscribe == IdBytes(p) \o (PropBytes(v, p.props) \o Texts(p.filters))
           codes == IdBytes(p) \o (PropBytes(v, p.props) \o p.codes)
           end == EndPart(p)
           t == p.type
           ping == <<>>
<1>1. Body(v, p) = CASE t = "connect" -> connect
                     [] t = "connack" -> connack
                     [] t = "publish" -> publish
                     [] t \in Acks -> acks
                     [] t = "subscribe" -> subscribe
                     [] t = "unsubscribe" -> unsubscribe
                     [] t \in {"suback", "unsuback"} -> codes
                     [] t \in {"pingreq", "pingresp"} -> ping
                     [] t \in {"disconnect", "auth"} -> end
  BY Zenon DEF Body
<1> HIDE DEF acks, connack, connect, publish, subscribe, unsubscribe, codes, end, ping, t
<1>2. /\ t \in Acks => Body(v, p) = acks
      /\ t = "connack" => Body(v, p) = connack
      /\ t = "connect" => Body(v, p) = connect
      /\ t = "publish" => Body(v, p) = publish
      /\ t = "subscribe" => Body(v, p) = subscribe
      /\ t = "unsubscribe" => Body(v, p) = unsubscribe
      /\ t \in {"suback", "unsuback"} => Body(v, p) = codes
      /\ t \in {"pingreq", "pingresp"} => Body(v, p) = ping
      /\ t \in {"disconnect", "auth"} => Body(v, p) = end
  BY <1>1, SMT DEF Acks
<1> QED BY <1>2, Zenon DEF acks, connack, connect, publish, subscribe, unsubscribe, codes, end, ping, t

\* The reason code and properties at the end of an acknowledgement, of DISCONNECT and of AUTH.
LEMMA ReasonIs ==
  ASSUME NEW p, p.reason \in Byte, p.props \in Seq(PropertyValues)
  PROVE  /\ Wired(ReasonLength(p), ReasonPart(p)) /\ Reason(p) = ReasonPart(p)
         /\ Wired(IF p.reason = 0 THEN 0 ELSE 1 + PropertiesSize(p.props), EndPart(p))
<1> DEFINE e == <<p.reason>>
           q == Properties(p.props)
           lq == PropertiesSize(p.props)
<1>1. Wired(1, e) /\ Wired(lq, q)
  BY WiredByte, WiredProperties
<1> HIDE DEF e, q, lq
<1>2. Wired(1 + lq, e \o q)
  BY <1>1, WiredJoined
<1>3. e \o <<>> = e
  BY <1>1, WiredEmpty, Zenon DEF Wired
<1>4. ReasonPart(p) = IF p.reason = 0 THEN <<>> ELSE IF p.props = <<>> THEN e ELSE e \o q
  BY Zenon DEF ReasonPart, e, q
<1>5. Reason(p) = IF p.reason = 0 THEN <<>> ELSE e \o (IF p.props = <<>> THEN <<>> ELSE q)
  BY Zenon DEF Reason, e, q
<1>6. ReasonLength(p) = IF p.reason = 0 THEN 0 ELSE IF p.props = <<>> THEN 1 ELSE 1 + lq
  BY Zenon DEF ReasonLength, lq
<1>7. EndPart(p) = IF p.reason = 0 THEN <<>> ELSE e \o q
  BY Zenon DEF EndPart, e, q
<1>8. Wired(0, <<>>)
  BY WiredEmpty
<1>9. CASE p.reason = 0
  <2>1. Reason(p) = <<>> /\ ReasonPart(p) = <<>> /\ ReasonLength(p) = 0 /\ EndPart(p) = <<>>
    BY <1>4, <1>5, <1>6, <1>7, <1>9, Zenon
  <2> QED BY <1>8, <1>9, <2>1, Zenon
<1>10. CASE p.reason # 0 /\ p.props = <<>>
  <2>1. Reason(p) = e /\ ReasonPart(p) = e /\ ReasonLength(p) = 1 /\ EndPart(p) = e \o q
    BY <1>3, <1>4, <1>5, <1>6, <1>7, <1>10, Zenon
  <2> QED BY <1>1, <1>2, <1>10, <2>1, Zenon DEF lq
<1>11. CASE p.reason # 0 /\ p.props # <<>>
  <2>1. Reason(p) = e \o q /\ ReasonPart(p) = e \o q /\ ReasonLength(p) = 1 + lq /\ EndPart(p) = e \o q
    BY <1>4, <1>5, <1>6, <1>7, <1>11, Zenon
  <2> QED BY <1>2, <1>11, <2>1, Zenon DEF lq
<1> QED BY <1>9, <1>10, <1>11

\* The properties a packet may carry.
LEMMA PropsAreProperties ==
  ASSUME NEW v \in {4, 5}, NEW props \in PropsOf(v)
  PROVE  props \in Seq(PropertyValues) /\ (v = 4 => props = <<>>)
<1>1. CASE v = 5
  BY <1>1 DEF PropsOf
<1>2. CASE v = 4
  <2>1. props \in {<<>>}
    BY <1>2, SMT DEF PropsOf
  <2> QED BY <2>1
<1> QED BY <1>1, <1>2

\* The reason codes a packet may carry.
LEMMA ReasonsAreBytes ==
  ASSUME NEW v \in {4, 5}, NEW r \in ReasonsOf(v)
  PROVE  r \in Byte /\ (v = 4 => r = 0)
<1>1. 0 \in Byte
  BY SMT DEF Byte
<1>2. CASE v = 5
  BY <1>2, SMT DEF ReasonsOf
<1>3. CASE v = 4
  <2>1. r \in {0}
    BY <1>3, SMT DEF ReasonsOf
  <2> QED BY <1>1, <2>1
<1> QED BY <1>2, <1>3

\* PUBACK, PUBREC, PUBREL and PUBCOMP on the wire.
LEMMA AckFramed ==
  ASSUME NEW v \in {4, 5}, NEW p \in Acknowledgements(v)
  PROVE  IsFramed(v, p)
<1>1. /\ p.type \in {"puback", "pubrec", "pubrel", "pubcomp"} /\ p.id \in Ids
      /\ p.reason \in ReasonsOf(v) /\ p.props \in PropsOf(v)
  BY DEF Acknowledgements
<1>2. /\ p.id \in TwoBytes /\ p.reason \in Byte /\ p.props \in Seq(PropertyValues)
      /\ (v = 4 => p.reason = 0)
  BY <1>1, IdsAreTwoBytes, PropsAreProperties, ReasonsAreBytes
<1> DEFINE a == IdBytes(p)
           d == ReasonPart(p)
           ld == ReasonLength(p)
<1>3. Wired(2, a)
  BY <1>2, WiredId DEF IdBytes
<1>4. Wired(ld, d) /\ Reason(p) = d
  BY <1>2, ReasonIs
<1>5. p.type \in Acks /\ p.type # "publish"
  BY <1>1, SMT DEF Acks
<1>6. Body(v, p) = a \o d
  BY <1>5, BodyOf
<1>7. HeaderOf(p) = FixedHeader(p.type, ReservedBits(p.type))
  BY <1>5, PacketHeader
<1>8. CASE v = 5
  <2>1. Encoded(v, p) = Framed(HeaderOf(p), 2 + ld, a \o d)
    <3>1. CASE p.type = "puback"
      <4>1. ReservedBits("puback") = 0
        BY SMT DEF ReservedBits
      <4> QED BY <1>4, <1>7, <1>8, <3>1, <4>1, EncodedOf, Zenon DEF PubackV5, IdBytes
    <3>2. CASE p.type = "pubrec"
      <4>1. ReservedBits("pubrec") = 0
        BY SMT DEF ReservedBits
      <4> QED BY <1>4, <1>7, <1>8, <3>2, <4>1, EncodedOf, Zenon DEF PubrecV5, IdBytes
    <3>3. CASE p.type = "pubrel"
      <4>1. ReservedBits("pubrel") = 2
        BY SMT DEF ReservedBits
      <4> QED BY <1>4, <1>7, <1>8, <3>3, <4>1, EncodedOf, Zenon DEF PubrelV5, IdBytes
    <3>4. CASE p.type = "pubcomp"
      <4>1. ReservedBits("pubcomp") = 0
        BY SMT DEF ReservedBits
      <4> QED BY <1>4, <1>7, <1>8, <3>4, <4>1, EncodedOf, Zenon DEF PubcompV5, IdBytes
    <3> QED BY <1>1, <3>1, <3>2, <3>3, <3>4, Zenon
  <2> HIDE DEF a, d, ld
  <2>2. Wired(2 + ld, a \o d)
    BY <1>3, <1>4, WiredJoined
  <2> QED BY <1>6, <2>1, <2>2, FramedBy, Zenon
<1>9. CASE v = 4
  <2>1. Encoded(v, p) = HeaderPacketId(p.type, p)
    <3>1. CASE p.type = "puback"
      BY <1>9, <3>1, EncodedOf, Zenon DEF Puback
    <3>2. CASE p.type = "pubrec"
      BY <1>9, <3>2, EncodedOf, Zenon DEF Pubrec
    <3>3. CASE p.type = "pubrel"
      BY <1>9, <3>3, EncodedOf, Zenon DEF Pubrel
    <3>4. CASE p.type = "pubcomp"
      BY <1>9, <3>4, EncodedOf, Zenon DEF Pubcomp
    <3> QED BY <1>1, <3>1, <3>2, <3>3, <3>4, Zenon
  <2>2. Encoded(v, p) = Framed(HeaderOf(p), 2, a)
    BY <1>7, <2>1, Zenon DEF HeaderPacketId, IdBytes
  <2>3. d = <<>>
    BY <1>2, <1>9, Zenon DEF ReasonPart
  <2> HIDE DEF a, d, ld
  <2>4. a \o d = a
    BY <1>3, <2>3, WiredEmpty, Zenon DEF Wired
  <2> QED BY <1>3, <1>6, <2>2, <2>4, FramedBy, Zenon
<1> QED BY <1>8, <1>9

\* PINGREQ and PINGRESP on the wire.
LEMMA PingFramed ==
  ASSUME NEW v \in {4, 5}, NEW p \in Pings
  PROVE  IsFramed(v, p)
<1>1. p.type \in {"pingreq", "pingresp"}
  BY DEF Pings
<1>2. p.type # "publish" /\ ReservedBits("pingreq") = 0 /\ ReservedBits("pingresp") = 0
  BY <1>1, SMT DEF ReservedBits
<1>3. HeaderOf(p) = FixedHeader(p.type, ReservedBits(p.type))
  BY <1>2, PacketHeader
<1>4. Encoded(v, p) = HeaderOnly(p.type)
  <2>1. CASE p.type = "pingreq"
    <3>1. Encoded(4, p) = HeaderOnly(p.type) /\ Encoded(5, p) = HeaderOnly(p.type)
      BY <2>1, EncodedOf, Zenon DEF Pingreq, PingreqV5
    <3> QED BY <3>1
  <2>2. CASE p.type = "pingresp"
    <3>1. Encoded(4, p) = HeaderOnly(p.type) /\ Encoded(5, p) = HeaderOnly(p.type)
      BY <2>2, EncodedOf, Zenon DEF Pingresp, PingrespV5
    <3> QED BY <3>1
  <2> QED BY <1>1, <2>1, <2>2, Zenon
<1>5. Encoded(v, p) = Framed(HeaderOf(p), 0, <<>>)
  BY <1>1, <1>2, <1>3, <1>4, Zenon DEF HeaderOnly
<1>6. Body(v, p) = <<>>
  BY <1>1, BodyOf
<1>7. Wired(0, <<>>)
  BY WiredEmpty
<1> QED BY <1>5, <1>6, <1>7, FramedBy, Zenon

\* DISCONNECT and AUTH on the wire.
LEMMA EndingFramed ==
  ASSUME NEW v \in {4, 5}, NEW p \in Endings(v)
  PROVE  IsFramed(v, p)
<1>1. /\ p.type \in {"disconnect", "auth"} /\ p.reason \in ReasonsOf(v) /\ p.props \in PropsOf(v)
      /\ (v = 4 => p.type = "disconnect")
  <2>1. CASE v = 5
    BY <2>1, SMT DEF Endings
  <2>2. CASE v = 4
    BY <2>2, SMT DEF Endings
  <2> QED BY <2>1, <2>2
<1>2. /\ p.reason \in Byte /\ p.props \in Seq(PropertyValues) /\ (v = 4 => p.reason = 0)
  BY <1>1, PropsAreProperties, ReasonsAreBytes
<1> DEFINE d == EndPart(p)
           ld == IF p.reason = 0 THEN 0 ELSE 1 + PropertiesSize(p.props)
<1>3. Wired(ld, d)
  BY <1>2, ReasonIs, Zenon
<1>4. p.type # "publish" /\ ReservedBits("disconnect") = 0 /\ ReservedBits("auth") = 0
  BY <1>1, SMT DEF ReservedBits
<1>5. HeaderOf(p) = FixedHeader(p.type, ReservedBits(p.type))
  BY <1>4, PacketHeader
<1>6. Body(v, p) = d
  BY <1>1, BodyOf
<1>7. CASE v = 5
  <2>1. d = IF p.reason = 0 THEN <<>> ELSE <<p.reason>> \o Properties(p.props)
    BY Zenon DEF EndPart
  <2>2. CASE p.type = "disconnect"
    <3>1. Encoded(v, p) = Framed(HeaderOf(p), ld, d)
      BY <1>4, <1>5, <1>7, <2>1, <2>2, EncodedOf, Zenon DEF DisconnectV5
    <3> QED BY <1>3, <1>6, <3>1, FramedBy, Zenon
  <2>3. CASE p.type = "auth"
    <3>1. Encoded(v, p) = Framed(HeaderOf(p), ld, d)
      BY <1>4, <1>5, <1>7, <2>1, <2>3, EncodedOf, Zenon DEF AuthV5
    <3> QED BY <1>3, <1>6, <3>1, FramedBy, Zenon
  <2> QED BY <1>1, <2>2, <2>3, Zenon
<1>8. CASE v = 4
  <2>1. p.type = "disconnect" /\ d = <<>>
    BY <1>1, <1>2, <1>8, Zenon DEF EndPart
  <2>2. Encoded(v, p) = Framed(HeaderOf(p), 0, <<>>)
    BY <1>4, <1>5, <1>8, <2>1, EncodedOf, Zenon DEF Disconnect, HeaderOnly
  <2>3. Wired(0, <<>>)
    BY WiredEmpty
  <2> QED BY <1>6, <2>1, <2>2, <2>3, FramedBy, Zenon
<1> QED BY <1>7, <1>8

\* Three parts, joined either way.
LEMMA ThreeParts ==
  ASSUME NEW k, NEW l, NEW m, NEW x, NEW y, NEW z, Wired(k, x), Wired(l, y), Wired(m, z)
  PROVE  /\ (x \o y) \o z = x \o (y \o z) /\ Wired(k + (l + m), x \o (y \o z))
         /\ k \in Nat /\ l \in Nat /\ m \in Nat
         /\ y = <<>> => l = 0 /\ x \o (y \o z) = x \o z
<1>1. x \in Seq(Byte) /\ y \in Seq(Byte) /\ z \in Seq(Byte) /\ k \in Nat /\ l \in Nat /\ m \in Nat /\ l = Len(y)
  BY Zenon DEF Wired
<1>2. Cat(Cat(x, y), z) = Cat(x, Cat(y, z))
  BY <1>1, CatJoins, SMT
<1>3. (x \o y) \o z = x \o (y \o z)
  BY <1>2, Zenon DEF Cat
<1>4. Wired(k + (l + m), x \o (y \o z))
  BY WiredJoined
<1>5. ASSUME y = <<>> PROVE l = 0 /\ x \o (y \o z) = x \o z
  <2>1. y \o z = z
    BY <1>1, <1>5, WiredEmpty, Zenon
  <2>2. Len(y) = 0
    BY <1>5
  <2> QED BY <1>1, <2>1, <2>2, Zenon
<1> QED BY <1>1, <1>3, <1>4, <1>5

\* MQTT 3.1.1 writes no properties.
LEMMA EmptyInV4 ==
  ASSUME NEW v \in {4, 5}, NEW props
  PROVE  /\ v = 4 => PropBytes(v, props) = <<>> /\ PropSize(v, props) = 0
         /\ v = 5 => PropBytes(v, props) = Properties(props) /\ PropSize(v, props) = PropertiesSize(props)
<1>1. v = 4 => v # 5
  BY SMT
<1> QED BY <1>1, Zenon DEF PropBytes, PropSize

\* CONNACK on the wire.
LEMMA ConnackFramed ==
  ASSUME NEW v \in {4, 5}, NEW p \in Connacks(v)
  PROVE  IsFramed(v, p) /\ Wired(2, ConnackStart(p))
<1>1. p.type = "connack" /\ p.sessionPresent \in BOOLEAN /\ p.reason \in Byte /\ p.props \in PropsOf(v)
  BY DEF Connacks
<1> DEFINE f == IF p.sessionPresent THEN 1 ELSE 0
           a == ConnackStart(p)
           q == PropBytes(v, p.props)
           lq == PropSize(v, p.props)
<1>2. f \in Byte
  BY SMT DEF Byte
<1>3. a = <<f, p.reason>>
  BY Zenon DEF ConnackStart
<1> HIDE DEF f
<1>4. a \in Seq(Byte) /\ Len(a) = 2
  BY <1>1, <1>2, <1>3
<1>5. Wired(2, a)
  BY <1>4, SMT DEF Wired
<1>6. Wired(lq, q)
  BY <1>1, WiredPropBytes
<1>7. p.type # "publish" /\ ReservedBits("connack") = 0
  BY <1>1, SMT DEF ReservedBits
<1>8. HeaderOf(p) = FixedHeader("connack", 0)
  BY <1>1, <1>7, PacketHeader, Zenon
<1>9. Body(v, p) = a \o q
  BY <1>1, BodyOf
<1>10. CASE v = 5
  <2>1. q = Properties(p.props) /\ lq = PropertiesSize(p.props) /\ Encoded(v, p) = ConnackV5(p)
    BY <1>1, <1>10, EmptyInV4, EncodedOf, Zenon
  <2>2. Encoded(v, p) = Framed(HeaderOf(p), 2 + lq, a \o q)
    BY <1>8, <2>1, Zenon DEF ConnackV5, ConnackStart
  <2> HIDE DEF a, q, lq
  <2>3. Wired(2 + lq, a \o q)
    BY <1>5, <1>6, WiredJoined
  <2>4. IsFramed(v, p)
    BY <1>9, <2>2, <2>3, FramedBy, Zenon
  <2> QED BY <1>5, <2>4 DEF a
<1>11. CASE v = 4
  <2>1. q = <<>> /\ Encoded(v, p) = Connack(p)
    BY <1>1, <1>11, EmptyInV4, EncodedOf, Zenon
  <2>2. Encoded(v, p) = Framed(HeaderOf(p), 2, a)
    BY <1>8, <2>1, Zenon DEF Connack, ConnackStart
  <2> HIDE DEF a, q, lq
  <2>3. a \o q = a
    BY <1>4, <2>1, WiredEmpty, Zenon
  <2>4. IsFramed(v, p)
    BY <1>5, <1>9, <2>2, <2>3, FramedBy, Zenon
  <2> QED BY <1>5, <2>4 DEF a
<1> QED BY <1>10, <1>11

\* The packet id in front of a body.
LEMMA WiredIds ==
  ASSUME NEW p, p.id \in Ids
  PROVE  Wired(2, IdBytes(p)) /\ Number(IdBytes(p)) = p.id /\ p.id # 0
<1>1. p.id \in TwoBytes /\ p.id # 0
  BY IdsAreTwoBytes
<1> QED BY <1>1, WiredId, Zenon DEF IdBytes

\* The QoS of a byte of options.
LEMMA QosOfOptions ==
  ASSUME NEW o \in Byte
  PROVE  o % 4 \in Byte /\ (o % 4) % 4 = o % 4
BY SMT DEF Byte

\* What the constructor keeps of a SUBSCRIBE is a SUBSCRIBE, and it keeps all of that.
LEMMA KeptSubscribe ==
  ASSUME NEW v \in {4, 5}, NEW p \in Subscribes(v)
  PROVE  /\ Kept(v, p) \in Subscribes(v) /\ Kept(v, Kept(v, p)) = Kept(v, p)
         /\ Kept(v, p).type = p.type /\ Kept(v, p).id = p.id /\ Kept(v, p).filters = p.filters
         /\ Kept(v, p).props = p.props
         /\ v = 5 => Kept(v, p) = p
         /\ v = 4 => Kept(v, p).options = [k \in 1..Len(p.filters) |-> p.options[k] % 4]
<1> DEFINE f == p.filters
           o == p.options
           n == Len(f)
<1>1. /\ p = [type |-> "subscribe", id |-> p.id, filters |-> f, options |-> o, props |-> p.props]
      /\ p.type = "subscribe" /\ p.id \in Ids /\ f \in AtLeastOne(Strings) /\ o \in Seq(Byte) /\ p.props \in PropsOf(v)
      /\ Len(o) = n /\ \A k \in DOMAIN o : o[k] % 4 # 3
  BY DEF Subscribes
<1>2. CASE v = 5
  <2>1. Kept(v, p) = p
    BY <1>2 DEF Kept
  <2> QED BY <1>2, <2>1
<1>3. CASE v = 4
  <2> DEFINE g == [k \in 1..n |-> o[k] % 4]
             q == [type |-> "subscribe", id |-> p.id, filters |-> f, options |-> g, props |-> p.props]
  <2>1. DOMAIN o = 1..n /\ n \in Nat /\ \A k \in 1..n : o[k] \in Byte
    <3>1. f \in Seq(Strings)
      BY <1>1 DEF AtLeastOne
    <3> HIDE DEF f, o
    <3> QED BY <1>1, <3>1, LenProperties, ElementOfSeq
  <2>2. Kept(v, p) = q
    <3>1. Kept(v, p) = [p EXCEPT !.options = [k \in DOMAIN o |-> o[k] % 4]]
      BY <1>1, <1>3 DEF Kept
    <3>2. [k \in DOMAIN o |-> o[k] % 4] = g
      BY <2>1
    <3>3. Kept(v, p) = [p EXCEPT !.options = g]
      BY <3>1, <3>2
    <3> HIDE DEF f, o, g
    <3> QED BY <1>1, <3>3
  <2>3. \A k \in 1..n : g[k] \in Byte /\ g[k] % 4 = g[k] /\ g[k] % 4 # 3
    <3> TAKE k \in 1..n
    <3>1. g[k] = o[k] % 4 /\ o[k] \in Byte /\ o[k] % 4 # 3
      BY <1>1, <2>1
    <3>2. o[k] % 4 \in Byte /\ (o[k] % 4) % 4 = o[k] % 4
      BY <3>1, QosOfOptions
    <3> HIDE DEF g, o, n
    <3> QED BY <3>1, <3>2
  <2>4. g = [k \in 1..n |-> g[k]]
    OBVIOUS
  <2>5. g \in Seq(Byte) /\ Len(g) = n /\ DOMAIN g = 1..n
    <3> HIDE DEF g, n
    <3>1. g \in Seq(Byte) /\ Len(g) = n
      BY <2>1, <2>3, <2>4, Places
    <3> QED BY <3>1, LenProperties
  <2>6. [k \in DOMAIN g |-> g[k] % 4] = g
    <3> HIDE DEF g, n
    <3> QED BY <2>3, <2>4, <2>5
  <2> HIDE DEF g, f, o, n
  <2>7. q \in Subscribes(v)
    BY <1>1, <2>3, <2>5 DEF Subscribes, n
  <2>8. Kept(v, q) = [q EXCEPT !.options = g]
    BY <1>3, <2>6 DEF Kept
  <2>9. Kept(v, q) = q
    BY <2>8
  <2>10. q.type = p.type /\ q.id = p.id /\ q.filters = p.filters /\ q.props = p.props /\ q.options = g
    BY <1>1 DEF f
  <2> HIDE DEF q
  <2>11. g = [k \in 1..Len(p.filters) |-> p.options[k] % 4]
    BY DEF g, n, f, o
  <2> QED BY <1>3, <2>2, <2>7, <2>9, <2>10, <2>11
<1> QED BY <1>2, <1>3

\* What the constructor keeps of any packet.
LEMMA KeptOthers ==
  ASSUME NEW v, NEW p, p.type # "subscribe"
  PROVE  Kept(v, p) = p
BY DEF Kept

\* SUBSCRIBE on the wire.
LEMMA SubscribeFramed ==
  ASSUME NEW v \in {4, 5}, NEW p \in Subscribes(v)
  PROVE  IsFramed(v, p)
<1> DEFINE k == Kept(v, p)
<1>1. /\ p.type = "subscribe" /\ p.id \in Ids /\ p.filters \in AtLeastOne(Strings) /\ p.props \in PropsOf(v)
  BY DEF Subscribes
<1>2. p.filters \in Seq(Strings)
  BY <1>1 DEF AtLeastOne
<1>11. k \in Subscribes(v) /\ k.filters = p.filters
  BY KeptSubscribe
<1>12. k.options \in Seq(Byte) /\ Len(k.options) = Len(k.filters)
  BY <1>11 DEF Subscribes
<1> DEFINE a == IdBytes(p)
           q == PropBytes(v, p.props)
           lq == PropSize(v, p.props)
           d == FlattenSeq(FilterPieces(k))
           ld == FiltersSize(p)
<1>3. Wired(2, a)
  BY <1>1, WiredIds
<1>4. Wired(lq, q)
  BY <1>1, WiredPropBytes
<1>5. Wired(ld, d)
  <2>1. FiltersSize(k) = ld
    BY <1>11, Zenon DEF FiltersSize
  <2> HIDE DEF k
  <2>2. Wired(FiltersSize(k), d)
    BY <1>2, <1>11, <1>12, FilterPiecesType
  <2> QED BY <2>1, <2>2
<1>6. p.type # "publish" /\ ReservedBits("subscribe") = 2
  BY <1>1, SMT DEF ReservedBits
<1>7. HeaderOf(p) = FixedHeader("subscribe", 2)
  BY <1>1, <1>6, PacketHeader, Zenon
<1>8. Body(v, p) = a \o (q \o d)
  BY <1>1, BodyOf
<1>9. CASE v = 5
  <2>1. q = Properties(p.props) /\ lq = PropertiesSize(p.props) /\ Encoded(v, p) = SubscribeV5(p) /\ k = p
    BY <1>1, <1>9, EmptyInV4, EncodedOf, KeptSubscribe, Zenon
  <2>2. Encoded(v, p) = Framed(HeaderOf(p), 2 + lq + ld, (a \o q) \o d)
    <3> HIDE DEF k
    <3> QED BY <1>7, <2>1, Zenon DEF SubscribeV5, IdBytes, FilterPieces, FiltersSize
  <2> HIDE DEF a, q, lq, d, ld
  <2>3. /\ (a \o q) \o d = a \o (q \o d) /\ Wired(2 + (lq + ld), a \o (q \o d))
        /\ lq \in Nat /\ ld \in Nat
    BY <1>3, <1>4, <1>5, ThreeParts, SMTT(30)
  <2>4. 2 + lq + ld = 2 + (lq + ld)
    BY <2>3, SMT
  <2> QED BY <1>8, <2>2, <2>3, <2>4, FramedBy, Zenon
<1>10. CASE v = 4
  <2>1. q = <<>> /\ lq = 0 /\ Encoded(v, p) = Subscribe(p)
    BY <1>1, <1>10, EmptyInV4, EncodedOf, Zenon
  <2>5. FilterPieces(k) = [j \in DOMAIN p.filters |-> Text(p.filters[j]) \o <<p.options[j] % 4>>]
    <3>1. k.options = [j \in 1..Len(p.filters) |-> p.options[j] % 4] /\ DOMAIN p.filters = 1..Len(p.filters)
      BY <1>2, <1>10, KeptSubscribe, LenProperties
    <3>2. \A j \in DOMAIN p.filters : k.options[j] = p.options[j] % 4
      BY <3>1, Zenon
    <3>3. FilterPieces(k) = [j \in DOMAIN p.filters |-> Text(p.filters[j]) \o <<k.options[j]>>]
      BY <1>11, Zenon DEF FilterPieces
    <3> HIDE DEF k
    <3> QED BY <3>2, <3>3, Zenon
  <2>2. Encoded(v, p) = Framed(HeaderOf(p), 2 + ld, a \o d)
    <3>1. d = FlattenSeq([j \in DOMAIN p.filters |-> Text(p.filters[j]) \o <<p.options[j] % 4>>])
      BY <2>5, Zenon
    <3> HIDE DEF d, k
    <3> QED BY <1>7, <2>1, <3>1, Zenon DEF Subscribe, IdBytes, FiltersSize
  <2> HIDE DEF a, q, lq, d, ld, k
  <2>3. a \o (q \o d) = a \o d /\ Wired(2 + ld, a \o d)
    BY <1>3, <1>4, <1>5, <2>1, ThreeParts, WiredJoined
  <2> QED BY <1>8, <2>2, <2>3, FramedBy, Zenon
<1> QED BY <1>9, <1>10

\* UNSUBSCRIBE on the wire.
LEMMA UnsubscribeFramed ==
  ASSUME NEW v \in {4, 5}, NEW p \in Unsubscribes(v)
  PROVE  IsFramed(v, p)
<1>1. /\ p.type = "unsubscribe" /\ p.id \in Ids /\ p.filters \in AtLeastOne(Strings)
      /\ p.props \in PropsOf(v)
  BY DEF Unsubscribes
<1>2. p.filters \in Seq(Strings)
  BY <1>1 DEF AtLeastOne
<1> DEFINE a == IdBytes(p)
           q == PropBytes(v, p.props)
           lq == PropSize(v, p.props)
           d == Texts(p.filters)
           ld == TextsSize(p.filters)
<1>3. Wired(2, a)
  BY <1>1, WiredIds
<1>4. Wired(lq, q)
  BY <1>1, WiredPropBytes
<1>5. Wired(ld, d)
  BY <1>2, TextPiecesType
<1>6. p.type # "publish" /\ ReservedBits("unsubscribe") = 2
  BY <1>1, SMT DEF ReservedBits
<1>7. HeaderOf(p) = FixedHeader("unsubscribe", 2)
  BY <1>1, <1>6, PacketHeader, Zenon
<1>8. Body(v, p) = a \o (q \o d)
  BY <1>1, BodyOf
<1>9. CASE v = 5
  <2>1. q = Properties(p.props) /\ lq = PropertiesSize(p.props) /\ Encoded(v, p) = UnsubscribeV5(p)
    BY <1>1, <1>9, EmptyInV4, EncodedOf, Zenon
  <2>2. Encoded(v, p) = Framed(HeaderOf(p), 2 + lq + ld, (a \o q) \o d)
    BY <1>7, <2>1, Zenon DEF UnsubscribeV5, IdBytes
  <2> HIDE DEF a, q, lq, d, ld
  <2>3. /\ (a \o q) \o d = a \o (q \o d) /\ Wired(2 + (lq + ld), a \o (q \o d))
        /\ lq \in Nat /\ ld \in Nat
    BY <1>3, <1>4, <1>5, ThreeParts, SMTT(30)
  <2>4. 2 + lq + ld = 2 + (lq + ld)
    BY <2>3, SMT
  <2> QED BY <1>8, <2>2, <2>3, <2>4, FramedBy, Zenon
<1>10. CASE v = 4
  <2>1. q = <<>> /\ lq = 0 /\ Encoded(v, p) = Unsubscribe(p)
    BY <1>1, <1>10, EmptyInV4, EncodedOf, Zenon
  <2>2. Encoded(v, p) = Framed(HeaderOf(p), 2 + ld, a \o d)
    BY <1>7, <2>1, Zenon DEF Unsubscribe, IdBytes
  <2> HIDE DEF a, q, lq, d, ld
  <2>3. a \o (q \o d) = a \o d /\ Wired(2 + ld, a \o d)
    BY <1>3, <1>4, <1>5, <2>1, ThreeParts, WiredJoined
  <2> QED BY <1>8, <2>2, <2>3, FramedBy, Zenon
<1> QED BY <1>9, <1>10

\* SUBACK on the wire.
LEMMA SubackFramed ==
  ASSUME NEW v \in {4, 5}, NEW p \in Subacks(v)
  PROVE  IsFramed(v, p)
<1>1. /\ p.type = "suback" /\ p.id \in Ids /\ p.codes \in Seq(Byte) /\ p.props \in PropsOf(v)
  BY DEF Subacks
<1> DEFINE a == IdBytes(p)
           q == PropBytes(v, p.props)
           lq == PropSize(v, p.props)
           d == p.codes
           ld == Len(p.codes)
<1>3. Wired(2, a)
  BY <1>1, WiredIds
<1>4. Wired(lq, q)
  BY <1>1, WiredPropBytes
<1>5. Wired(ld, d)
  BY <1>1, WiredBytes
<1>6. p.type # "publish" /\ ReservedBits("suback") = 0 /\ p.type \in {"suback", "unsuback"}
  BY <1>1, SMT DEF ReservedBits
<1>7. HeaderOf(p) = FixedHeader("suback", 0)
  BY <1>1, <1>6, PacketHeader, Zenon
<1>8. Body(v, p) = a \o (q \o d)
  BY <1>6, BodyOf
<1>9. CASE v = 5
  <2>1. q = Properties(p.props) /\ lq = PropertiesSize(p.props) /\ Encoded(v, p) = SubackV5(p)
    BY <1>1, <1>9, EmptyInV4, EncodedOf, Zenon
  <2>2. Encoded(v, p) = Framed(HeaderOf(p), ld + 2 + lq, (a \o q) \o d)
    BY <1>7, <2>1, Zenon DEF SubackV5, IdBytes
  <2> HIDE DEF a, q, lq, d, ld
  <2>3. /\ (a \o q) \o d = a \o (q \o d) /\ Wired(2 + (lq + ld), a \o (q \o d))
        /\ lq \in Nat /\ ld \in Nat
    BY <1>3, <1>4, <1>5, ThreeParts, SMTT(30)
  <2>4. ld + 2 + lq = 2 + (lq + ld)
    BY <2>3, SMT
  <2> QED BY <1>8, <2>2, <2>3, <2>4, FramedBy, Zenon
<1>10. CASE v = 4
  <2>1. q = <<>> /\ lq = 0 /\ Encoded(v, p) = Suback(p)
    BY <1>1, <1>10, EmptyInV4, EncodedOf, Zenon
  <2>2. Encoded(v, p) = Framed(HeaderOf(p), ld + 2, a \o d)
    BY <1>7, <2>1, Zenon DEF Suback, IdBytes
  <2> HIDE DEF a, q, lq, d, ld
  <2>3. a \o (q \o d) = a \o d /\ ld \in Nat
    <3>1. q \o d = d
      BY <1>5, <2>1, WiredEmpty, Zenon DEF Wired
    <3> QED BY <1>5, <3>1, Zenon DEF Wired
  <2>5. Wired(2 + ld, a \o d)
    BY <1>3, <1>5, WiredJoined
  <2>4. ld + 2 = 2 + ld
    BY <2>3, SMT
  <2> QED BY <1>8, <2>2, <2>3, <2>4, <2>5, FramedBy, Zenon
<1> QED BY <1>9, <1>10

\* UNSUBACK on the wire, without codes in MQTT 3.1.1.
LEMMA UnsubackFramed ==
  ASSUME NEW v \in {4, 5}, NEW p \in Unsubacks(v)
  PROVE  IsFramed(v, p) /\ p.codes \in Seq(Byte) /\ (v = 4 => p.codes = <<>>)
<1>0. p.codes \in Seq(Byte) /\ (v = 4 => p.codes = <<>>)
  <2>1. CASE v = 5
    BY <2>1, SMT DEF Unsubacks
  <2>2. CASE v = 4
    <3>1. p.codes \in {<<>>}
      BY <2>2, SMT DEF Unsubacks
    <3>2. p.codes = <<>> /\ <<>> \in Seq(Byte)
      BY <3>1
    <3> QED BY <3>2
  <2> QED BY <2>1, <2>2
<1>1. /\ p.type = "unsuback" /\ p.id \in Ids /\ p.props \in PropsOf(v)
  BY DEF Unsubacks
<1> DEFINE a == IdBytes(p)
           q == PropBytes(v, p.props)
           lq == PropSize(v, p.props)
           d == p.codes
           ld == Len(p.codes)
<1>3. Wired(2, a)
  BY <1>1, WiredIds
<1>4. Wired(lq, q)
  BY <1>1, WiredPropBytes
<1>5. Wired(ld, d)
  BY <1>0, WiredBytes
<1>6. p.type # "publish" /\ ReservedBits("unsuback") = 0 /\ p.type \in {"suback", "unsuback"}
  BY <1>1, SMT DEF ReservedBits
<1>7. HeaderOf(p) = FixedHeader("unsuback", 0)
  BY <1>1, <1>6, PacketHeader, Zenon
<1>8. Body(v, p) = a \o (q \o d)
  BY <1>6, BodyOf
<1>9. CASE v = 5
  <2>1. q = Properties(p.props) /\ lq = PropertiesSize(p.props) /\ Encoded(v, p) = UnsubackV5(p)
    BY <1>1, <1>9, EmptyInV4, EncodedOf, Zenon
  <2>2. Encoded(v, p) = Framed(HeaderOf(p), ld + 2 + lq, (a \o q) \o d)
    BY <1>7, <2>1, Zenon DEF UnsubackV5, IdBytes
  <2> HIDE DEF a, q, lq, d, ld
  <2>3. /\ (a \o q) \o d = a \o (q \o d) /\ Wired(2 + (lq + ld), a \o (q \o d))
        /\ lq \in Nat /\ ld \in Nat
    BY <1>3, <1>4, <1>5, ThreeParts, SMTT(30)
  <2>4. ld + 2 + lq = 2 + (lq + ld)
    BY <2>3, SMT
  <2>5. IsFramed(v, p)
    BY <1>8, <2>2, <2>3, <2>4, FramedBy, Zenon
  <2> QED BY <1>0, <2>5
<1>10. CASE v = 4
  <2>1. q = <<>> /\ d = <<>> /\ Encoded(v, p) = Unsuback(p)
    BY <1>0, <1>1, <1>10, EmptyInV4, EncodedOf, Zenon
  <2>2. Encoded(v, p) = Framed(HeaderOf(p), 2, a)
    BY <1>6, <1>7, <2>1, Zenon DEF Unsuback, HeaderPacketId, IdBytes
  <2>3. a \o (q \o d) = a
    <3>1. <<>> \o <<>> = <<>>
      OBVIOUS
    <3> HIDE DEF a
    <3> QED BY <1>3, <2>1, <3>1, WiredEmpty, Zenon DEF Wired
  <2> HIDE DEF a, q, lq, d, ld
  <2>4. IsFramed(v, p)
    BY <1>3, <1>8, <2>2, <2>3, FramedBy, Zenon
  <2> QED BY <1>0, <2>4
<1> QED BY <1>9, <1>10

\* A sequence of at most one element.
LEMMA OneOrNone ==
  ASSUME NEW S, NEW s \in AtMostOne(S)
  PROVE  s \in Seq(S) /\ (s # <<>> => s[1] \in S /\ s = <<s[1]>>)
<1>1. s \in Seq(S) /\ Len(s) <= 1 /\ Len(s) \in Nat
  BY LenProperties DEF AtMostOne
<1>2. CASE Len(s) = 0
  <2>1. s = <<>>
    BY <1>1, <1>2, EmptySeq
  <2> QED BY <1>1, <2>1
<1>3. CASE Len(s) = 1
  <2>1. s[1] \in S
    BY <1>1, <1>3
  <2>2. <<s[1]>> \in Seq(S) /\ Len(<<s[1]>>) = 1 /\ <<s[1]>>[1] = s[1]
    BY <2>1, IsOneSeq
  <2> DEFINE t == <<s[1]>>
  <2>5. t \in Seq(S) /\ Len(t) = 1 /\ t[1] = s[1]
    BY <2>2
  <2> HIDE DEF t
  <2>3. \A i \in 1..Len(s) : s[i] = t[i]
    BY <1>3, <2>5
  <2>4. s = t
    BY <1>1, <1>3, <2>5, <2>3, SeqEqual
  <2> QED BY <1>1, <2>1, <2>4 DEF t
<1>4. Len(s) = 0 \/ Len(s) = 1
  <2> DEFINE k == Len(s)
  <2>1. k \in Nat /\ k <= 1
    BY <1>1
  <2> HIDE DEF k
  <2>2. k = 0 \/ k = 1
    BY <2>1, SMT
  <2> QED BY <2>2 DEF k
<1> QED BY <1>2, <1>3, <1>4

\* What CONNECT holds.
LEMMA ConnectIs ==
  ASSUME NEW v \in {4, 5}, NEW p \in Connects(v)
  PROVE  /\ p.type = "connect" /\ p.clean \in BOOLEAN /\ p.keepAlive \in TwoBytes
         /\ p.clientId \in Strings /\ p.props \in PropsOf(v)
         /\ p.user \in AtMostOne(Strings) /\ p.password \in AtMostOne(Strings)
         /\ p.user \in Seq(Strings) /\ p.password \in Seq(Strings)
         /\ p.user # <<>> => p.user[1] \in Strings /\ p.user = <<p.user[1]>>
         /\ p.password # <<>> => p.password[1] \in Strings /\ p.password = <<p.password[1]>>
         /\ p.will # <<>> => /\ p.will[1] \in Wills(v) /\ p.will = <<p.will[1]>>
                             /\ p.will[1].topic \in Strings /\ p.will[1].message \in Strings
                             /\ p.will[1].qos \in 0..2 /\ p.will[1].retain \in BOOLEAN
                             /\ p.will[1].props \in PropsOf(v)
<1>1. /\ p.type = "connect" /\ p.clean \in BOOLEAN /\ p.keepAlive \in TwoBytes
      /\ p.clientId \in Strings /\ p.props \in PropsOf(v)
      /\ p.user \in AtMostOne(Strings) /\ p.password \in AtMostOne(Strings)
      /\ p.will \in AtMostOne(Wills(v))
  BY DEF Connects
<1>2. /\ p.user \in Seq(Strings) /\ p.password \in Seq(Strings)
      /\ p.user # <<>> => p.user[1] \in Strings /\ p.user = <<p.user[1]>>
      /\ p.password # <<>> => p.password[1] \in Strings /\ p.password = <<p.password[1]>>
  <2> DEFINE u == p.user
             w == p.password
  <2>1. u \in AtMostOne(Strings) /\ w \in AtMostOne(Strings)
    BY <1>1
  <2> HIDE DEF u, w
  <2>2. u \in Seq(Strings) /\ (u # <<>> => u[1] \in Strings /\ u = <<u[1]>>)
    BY <2>1, OneOrNone
  <2>3. w \in Seq(Strings) /\ (w # <<>> => w[1] \in Strings /\ w = <<w[1]>>)
    BY <2>1, OneOrNone
  <2> QED BY <2>2, <2>3, Zenon DEF u, w
<1>3. p.will # <<>> => p.will[1] \in Wills(v) /\ p.will = <<p.will[1]>>
  <2> DEFINE w == p.will
             W == Wills(v)
  <2>1. w \in AtMostOne(W)
    BY <1>1
  <2> HIDE DEF w, W
  <2>2. w # <<>> => w[1] \in W /\ w = <<w[1]>>
    BY <2>1, OneOrNone
  <2> QED BY <2>2, Zenon DEF w, W
<1>4. \A w \in Wills(v) : /\ w.topic \in Strings /\ w.message \in Strings
                          /\ w.qos \in 0..2 /\ w.retain \in BOOLEAN /\ w.props \in PropsOf(v)
  BY DEF Wills
<1> QED BY <1>1, <1>2, <1>3, <1>4, Zenon

\* Every flag of CONNECT is read back from the byte they share.
LEMMA FlagsAre ==
  ASSUME NEW v \in {4, 5}, NEW p \in Connects(v)
  PROVE  /\ ConnectFlags(p) \in Byte
         /\ ((ConnectFlags(p) \div 2) % 2 = 1 <=> p.clean)
         /\ ((ConnectFlags(p) \div 4) % 2 = 1 <=> p.will # <<>>)
         /\ ((ConnectFlags(p) \div 64) % 2 = 1 <=> p.password # <<>>)
         /\ ((ConnectFlags(p) \div 128) % 2 = 1 <=> p.user # <<>>)
         /\ p.will # <<>> => /\ (ConnectFlags(p) \div 8) % 4 = p.will[1].qos
                             /\ ((ConnectFlags(p) \div 32) % 2 = 1 <=> p.will[1].retain)
<1> DEFINE clean == IF p.clean THEN 1 ELSE 0
           will == IF p.will # <<>> THEN 1 ELSE 0
           qos == IF p.will # <<>> THEN p.will[1].qos ELSE 0
           retain == IF p.will # <<>> /\ p.will[1].retain THEN 1 ELSE 0
           password == IF p.password # <<>> THEN 1 ELSE 0
           user == IF p.user # <<>> THEN 1 ELSE 0
           f == ConnectFlags(p)
           a == IF p.clean THEN 2 ELSE 0
           b == IF p.will # <<>> THEN 4 + 8 * p.will[1].qos ELSE 0
           c == IF p.will # <<>> /\ p.will[1].retain THEN 32 ELSE 0
           d == IF p.password # <<>> THEN 64 ELSE 0
           e == IF p.user # <<>> THEN 128 ELSE 0
<1>1. p.will # <<>> => p.will[1].qos \in 0..2
  BY ConnectIs
<1>2. f = a + b + c + d + e
  BY Zenon DEF ConnectFlags
<1>3. a = 2 * clean /\ clean \in 0..1 /\ (clean = 1 <=> p.clean)
  BY SMT
<1>4. b = 4 * will + 8 * qos /\ will \in 0..1 /\ qos \in 0..2 /\ (will = 1 <=> p.will # <<>>)
      /\ (p.will # <<>> => qos = p.will[1].qos)
  <2>1. CASE p.will # <<>>
    BY <1>1, <2>1, SMT
  <2>2. CASE p.will = <<>>
    BY <2>2, SMT
  <2> QED BY <2>1, <2>2
<1>5. c = 32 * retain /\ retain \in 0..1 /\ (retain = 1 <=> p.will # <<>> /\ p.will[1].retain)
  BY SMT
<1>6. d = 64 * password /\ password \in 0..1 /\ (password = 1 <=> p.password # <<>>)
  BY SMT
<1>7. e = 128 * user /\ user \in 0..1 /\ (user = 1 <=> p.user # <<>>)
  BY SMT
<1> HIDE DEF clean, will, qos, retain, password, user, a, b, c, d, e, f
<1>8. f = 2 * clean + 4 * will + 8 * qos + 32 * retain + 64 * password + 128 * user
  BY <1>2, <1>3, <1>4, <1>5, <1>6, <1>7, SMT
<1>9. /\ f \in 0..255
      /\ (f \div 2) % 2 = clean /\ (f \div 4) % 2 = will /\ (f \div 8) % 4 = qos
      /\ (f \div 32) % 2 = retain /\ (f \div 64) % 2 = password /\ (f \div 128) % 2 = user
  <2>8. /\ clean \in 0..1 /\ will \in 0..1 /\ qos \in 0..2 /\ retain \in 0..1
        /\ password \in 0..1 /\ user \in 0..1
    BY <1>3, <1>4, <1>5, <1>6, <1>7, Zenon
  <2>1. f \in 0..255
    BY <1>8, <2>8, SMT
  <2>2. (f \div 2) % 2 = clean
    <3>1. f = 2 * (clean + 2 * (will + 2 * qos + 8 * retain + 16 * password + 32 * user))
      BY <1>8, <2>8, SMT
    <3> QED BY <2>8, <3>1, SMT
  <2>3. (f \div 4) % 2 = will
    <3>1. f = 4 * (will + 2 * (qos + 4 * retain + 8 * password + 16 * user)) + 2 * clean
      BY <1>8, <2>8, SMT
    <3> QED BY <2>8, <3>1, SMT
  <2>4. (f \div 8) % 4 = qos
    <3>1. f = 8 * (qos + 4 * (retain + 2 * password + 4 * user)) + 4 * will + 2 * clean
      BY <1>8, <2>8, SMT
    <3> QED BY <2>8, <3>1, SMT
  <2>5. (f \div 32) % 2 = retain
    <3>1. f = 32 * (retain + 2 * (password + 2 * user)) + 8 * qos + 4 * will + 2 * clean
      BY <1>8, <2>8, SMT
    <3> QED BY <2>8, <3>1, SMT
  <2>6. (f \div 64) % 2 = password
    <3>1. f = 64 * (password + 2 * user) + 32 * retain + 8 * qos + 4 * will + 2 * clean
      BY <1>8, <2>8, SMT
    <3> QED BY <2>8, <3>1, SMT
  <2>7. (f \div 128) % 2 = user
    <3>1. f = 128 * user + 64 * password + 32 * retain + 8 * qos + 4 * will + 2 * clean
      BY <1>8, <2>8, SMT
    <3> QED BY <2>8, <3>1, SMT
  <2> QED BY <2>1, <2>2, <2>3, <2>4, <2>5, <2>6, <2>7
<1> QED BY <1>3, <1>4, <1>5, <1>6, <1>7, <1>9, Zenon DEF f, Byte

\* The ten bytes that CONNECT begins with.
LEMMA ConnectStartIs ==
  ASSUME NEW v \in {4, 5}, NEW p \in Connects(v)
  PROVE  /\ Wired(10, ConnectStart(v, p))
         /\ First(ConnectStart(v, p), 6) = ProtocolName
         /\ ConnectStart(v, p)[7] = v /\ ConnectStart(v, p)[8] = ConnectFlags(p)
         /\ SubSeq(ConnectStart(v, p), 9, 10) = BigEndian(p.keepAlive, 2)
<1> DEFINE n == ProtocolName
           f == <<v, ConnectFlags(p)>>
           k == BigEndian(p.keepAlive, 2)
           b == ConnectStart(v, p)
<1>1. n \in Seq(Byte) /\ Len(n) = 6
  BY SMT DEF ProtocolName, Byte
<1>2. ConnectFlags(p) \in Byte
  BY FlagsAre
<1>3. v \in Byte
  BY SMT DEF Byte
<1>4. f \in Seq(Byte) /\ Len(f) = 2 /\ f[1] = v /\ f[2] = ConnectFlags(p)
  BY <1>2, <1>3
<1>5. k \in Seq(Byte) /\ Len(k) = 2
  <2>1. p.keepAlive \in TwoBytes
    BY ConnectIs
  <2> QED BY <2>1, WiredId DEF Wired
<1>6. b = (n \o f) \o k
  BY Zenon DEF ConnectStart
<1> HIDE DEF n, f, k, b
<1> DEFINE c == n \o f
<1>7. /\ c \in Seq(Byte) /\ Len(c) = 8
      /\ \A i \in 1..8 : c[i] = IF i <= 6 THEN n[i] ELSE f[i - 6]
  <2>1. /\ c \in Seq(Byte) /\ Len(c) = Len(n) + Len(f)
        /\ \A i \in 1..(Len(n) + Len(f)) : c[i] = IF i <= Len(n) THEN n[i] ELSE f[i - Len(n)]
    BY <1>1, <1>4, ConcatProperties
  <2> QED BY <1>1, <1>4, <2>1, SMT
<1> HIDE DEF c
<1>8. /\ b \in Seq(Byte) /\ Len(b) = 10
      /\ \A i \in 1..10 : b[i] = IF i <= 8 THEN c[i] ELSE k[i - 8]
  <2>1. /\ c \o k \in Seq(Byte) /\ Len(c \o k) = Len(c) + Len(k)
        /\ \A i \in 1..(Len(c) + Len(k)) : (c \o k)[i] = IF i <= Len(c) THEN c[i] ELSE k[i - Len(c)]
    BY <1>5, <1>7, ConcatProperties
  <2>2. b = c \o k
    BY <1>6 DEF c
  <2>3. /\ b \in Seq(Byte) /\ Len(b) = Len(c) + Len(k)
        /\ \A i \in 1..(Len(c) + Len(k)) : b[i] = IF i <= Len(c) THEN c[i] ELSE k[i - Len(c)]
    BY <2>1, <2>2, Zenon
  <2>4. Len(c) + Len(k) = 10 /\ Len(c) = 8
    BY <1>5, <1>7, SMT
  <2> QED BY <2>3, <2>4, Zenon
<1>9. Wired(10, b)
  BY <1>8, SMT DEF Wired
<1>10. b[7] = v /\ b[8] = ConnectFlags(p)
  BY <1>4, <1>7, <1>8, SMT
<1>11. First(b, 6) = n
  <2> DEFINE x == First(b, 6)
  <2>1. 6 \in 0..Len(b) /\ 6 \in Nat
    BY <1>8, SMT
  <2>2. x \in Seq(Byte) /\ Len(x) = 6 /\ \A i \in 1..6 : x[i] = b[i]
    BY <1>8, <2>1, FirstBehind
  <2> HIDE DEF x
  <2>3. \A i \in 1..Len(x) : x[i] = n[i]
    BY <1>7, <1>8, <2>2, SMT
  <2>4. x = n
    BY <1>1, <2>2, <2>3, SeqEqual
  <2> QED BY <2>4 DEF x
<1>12. SubSeq(b, 9, 10) = k
  <2> DEFINE x == SubSeq(b, 9, 10)
  <2>1. x \in Seq(Byte) /\ Len(x) = 2 /\ \A i \in 1..2 : x[i] = b[8 + i]
    <3>1. \A i \in 9..10 : b[i] \in Byte
      <4>1. \A i \in 9..10 : i \in 1..Len(b)
        BY <1>8, SMT
      <4> QED BY <1>8, <4>1, ElementOfSeq
    <3>2. /\ x \in Seq(Byte) /\ Len(x) = (IF 9 <= 10 THEN 10 - 9 + 1 ELSE 0)
          /\ \A i \in 1..(10 - 9 + 1) : x[i] = b[9 + i - 1]
      BY <3>1, SubSeqProperties, 9 \in Int, 10 \in Int
    <3> HIDE DEF x
    <3>3. (IF 9 <= 10 THEN 10 - 9 + 1 ELSE 0) = 2 /\ 10 - 9 + 1 = 2
      BY SMT
    <3>4. \A i \in 1..2 : 9 + i - 1 = 8 + i
      BY SMT
    <3> QED BY <3>2, <3>3, <3>4
  <2> HIDE DEF x
  <2>2. \A i \in 1..Len(x) : x[i] = k[i]
    BY <1>8, <2>1, SMT
  <2>3. x = k
    BY <1>5, <2>1, <2>2, SeqEqual
  <2> QED BY <2>3 DEF x
<1> QED BY <1>9, <1>10, <1>11, <1>12 DEF n, k, b

\* Two elements joined.
LEMMA PairJoined ==
  ASSUME NEW t, NEW m
  PROVE  <<t>> \o <<m>> = <<t, m>>
<1> DEFINE S == {t, m}
           x == <<t>>
           y == <<m>>
           z == <<t, m>>
<1>1. x \in Seq(S) /\ Len(x) = 1 /\ x[1] = t /\ y \in Seq(S) /\ Len(y) = 1 /\ y[1] = m
      /\ z \in Seq(S) /\ Len(z) = 2 /\ z[1] = t /\ z[2] = m
  OBVIOUS
<1> HIDE DEF x, y, z, S
<1>2. /\ x \o y \in Seq(S) /\ Len(x \o y) = Len(x) + Len(y)
      /\ \A i \in 1..(Len(x) + Len(y)) : (x \o y)[i] = IF i <= Len(x) THEN x[i] ELSE y[i - Len(x)]
  BY <1>1, ConcatProperties
<1> DEFINE u == x \o y
<1>3. /\ u \in Seq(S) /\ Len(u) = Len(x) + Len(y)
      /\ \A i \in 1..(Len(x) + Len(y)) : u[i] = IF i <= Len(x) THEN x[i] ELSE y[i - Len(x)]
  BY <1>2
<1> HIDE DEF u
<1>4. Len(u) = 2 /\ u[1] = t /\ u[2] = m
  BY <1>1, <1>3, SMT
<1>5. \A i \in 1..Len(u) : u[i] = z[i]
  BY <1>1, <1>4, SMT
<1>6. u = z
  BY <1>1, <1>3, <1>4, <1>5, SeqEqual
<1> QED BY <1>6 DEF u, x, y, z

\* The will, as one version writes it and as the other.
LEMMA WillIs ==
  ASSUME NEW v \in {4, 5}, NEW p \in Connects(v)
  PROVE  /\ WillTexts(p) \in Seq(Strings) /\ Wired(TextsSize(WillTexts(p)), Texts(WillTexts(p)))
         /\ p.will # <<>> => Texts(WillTexts(p)) = Text(p.will[1].topic) \o Text(p.will[1].message)
         /\ p.will = <<>> => Texts(WillTexts(p)) = <<>> /\ TextsSize(WillTexts(p)) = 0
         /\ v = 4 => WillPart(v, p) = Texts(WillTexts(p))
         /\ v = 5 => Wired(WillLength(p), WillPart(v, p)) /\ WillBytes(p) = WillPart(v, p)
<1> DEFINE w == WillTexts(p)
           lw == TextsSize(w)
<1>1. p.will # <<>> => /\ p.will[1].topic \in Strings /\ p.will[1].message \in Strings
                       /\ p.will[1].props \in PropsOf(v)
  BY ConnectIs
<1>2. CASE p.will = <<>>
  <2>1. w = <<>>
    BY <1>2, Zenon DEF WillTexts
  <2>2. w \in Seq(Strings) /\ Texts(w) = <<>> /\ lw = 0
    <3>1. <<>> \in Seq(Strings)
      OBVIOUS
    <3> QED BY <2>1, <3>1, TextsOf, Zenon
  <2>3. WillPart(v, p) = <<>> /\ WillLength(p) = 0 /\ WillBytes(p) = <<>>
    BY <1>2, Zenon DEF WillPart, WillLength, WillBytes
  <2>4. Wired(0, <<>>)
    BY WiredEmpty
  <2> QED BY <1>2, <2>2, <2>3, <2>4, Zenon
<1>3. CASE p.will # <<>>
  <2> DEFINE t == p.will[1].topic
             m == p.will[1].message
             q == PropBytes(v, p.will[1].props)
             lq == PropSize(v, p.will[1].props)
             d == Text(t) \o Text(m)
  <2>1. w = <<t, m>>
    BY <1>3, Zenon DEF WillTexts
  <2>2. WillPart(v, p) = q \o d
    BY <1>3, Zenon DEF WillPart
  <2>3. t \in Strings /\ m \in Strings /\ Wired(lq, q)
    BY <1>1, <1>3, WiredPropBytes
  <2>9. WillLength(p) = PropertiesSize(p.will[1].props) + lw /\ WillBytes(p) = Properties(p.will[1].props) \o Texts(w)
    BY <1>3, Zenon DEF WillLength, WillBytes
  <2>10. /\ v = 4 => q = <<>>
         /\ v = 5 => q = Properties(p.will[1].props) /\ lq = PropertiesSize(p.will[1].props)
    BY EmptyInV4, Zenon
  <2> HIDE DEF t, m
  <2>4. w = <<t>> \o <<m>> /\ <<t>> \in Seq(Strings) /\ <<m>> \in Seq(Strings)
    <3>1. <<t>> \o <<m>> = <<t, m>>
      BY PairJoined
    <3>2. <<t>> \in Seq(Strings) /\ <<m>> \in Seq(Strings)
      BY <2>3, IsOneSeq
    <3> QED BY <2>1, <3>1, <3>2
  <2> HIDE DEF w, q, lq
  <2>5. w \in Seq(Strings) /\ Texts(w) = d
    <3>1. Texts(<<t>>) = Text(t) /\ Texts(<<m>>) = Text(m)
      BY <2>3, TextsOf
    <3>2. Texts(<<t>> \o <<m>>) = Texts(<<t>>) \o Texts(<<m>>) /\ <<t>> \o <<m>> \in Seq(Strings)
      BY <2>4, TextsJoined
    <3> QED BY <2>4, <3>1, <3>2, Zenon
  <2>6. Wired(lw, d)
    BY <2>5, TextPiecesType, Zenon
  <2>7. CASE v = 4
    <3>1. d \in Seq(Byte)
      BY <2>6, Zenon DEF Wired
    <3>2. q \o d = d
      BY <2>7, <2>10, <3>1, WiredEmpty, Zenon
    <3>3. v # 5
      BY <2>7, SMT
    <3> QED BY <1>3, <2>2, <2>5, <2>6, <3>2, <3>3, Zenon DEF t, m, w
  <2>8. CASE v = 5
    <3>1. Wired(lq + lw, q \o d)
      BY <2>3, <2>6, WiredJoined
    <3>2. WillLength(p) = lq + lw /\ WillBytes(p) = q \o d
      BY <2>5, <2>8, <2>9, <2>10, Zenon
    <3>3. v # 4
      BY <2>8, SMT
    <3> QED BY <1>3, <2>2, <2>5, <2>6, <3>1, <3>2, <3>3, Zenon DEF t, m, w
  <2> QED BY <2>7, <2>8
<1> QED BY <1>2, <1>3

\* User name and password, written together or one after the other.
LEMMA UserIs ==
  ASSUME NEW v \in {4, 5}, NEW p \in Connects(v)
  PROVE  /\ Wired(TextsSize(p.user \o p.password), UserPart(p))
         /\ Texts(p.user \o p.password) = UserPart(p)
         /\ p.user \o p.password \in Seq(Strings)
         /\ TextsSize(p.user) \in Nat /\ TextsSize(p.password) \in Nat
         /\ TextsSize(p.user \o p.password) = TextsSize(p.user) + TextsSize(p.password)
         /\ Texts(p.user) \in Seq(Byte) /\ Texts(p.password) \in Seq(Byte)
<1> DEFINE u == p.user
           w == p.password
<1>1. u \in Seq(Strings) /\ w \in Seq(Strings)
  BY ConnectIs
<1>2. UserPart(p) = Texts(u) \o Texts(w)
  BY Zenon DEF UserPart
<1> HIDE DEF u, w
<1>3. /\ Texts(u \o w) = Texts(u) \o Texts(w) /\ TextsSize(u \o w) = TextsSize(u) + TextsSize(w)
      /\ u \o w \in Seq(Strings)
  BY <1>1, TextsJoined
<1>4. Wired(TextsSize(u), Texts(u)) /\ Wired(TextsSize(w), Texts(w))
  BY <1>1, TextPiecesType
<1>5. Wired(TextsSize(u) + TextsSize(w), Texts(u) \o Texts(w))
  BY <1>4, WiredJoined
<1> QED BY <1>2, <1>3, <1>4, <1>5, Zenon DEF u, w, Wired

\* CONNECT on the wire.
LEMMA ConnectFramed ==
  ASSUME NEW v \in {4, 5}, NEW p \in Connects(v)
  PROVE  IsFramed(v, p)
<1>1. p.type = "connect" /\ p.clientId \in Strings /\ p.props \in PropsOf(v)
  BY ConnectIs
<1> DEFINE s == ConnectStart(v, p)
           q == PropBytes(v, p.props)
           lq == PropSize(v, p.props)
           c == Text(p.clientId)
           nc == Len(p.clientId)
           w == WillPart(v, p)
           u == UserPart(p)
           lu == TextsSize(p.user \o p.password)
<1>2. Wired(10, s)
  BY ConnectStartIs
<1>3. Wired(lq, q)
  BY <1>1, WiredPropBytes
<1>4. Wired(2 + nc, c) /\ nc \in Nat
  BY <1>1, WiredText, TextIs
<1>5. Wired(lu, u) /\ u = Texts(p.user \o p.password)
  BY UserIs
<1>6. p.type # "publish" /\ ReservedBits("connect") = 0
  BY <1>1, SMT DEF ReservedBits
<1>7. HeaderOf(p) = FixedHeader("connect", 0)
  BY <1>1, <1>6, PacketHeader, Zenon
<1>8. Body(v, p) = s \o (q \o (c \o (w \o u)))
  BY <1>1, BodyOf
<1>9. CASE v = 5
  <2> DEFINE lw == WillLength(p)
  <2>1. q = Properties(p.props) /\ lq = PropertiesSize(p.props) /\ Encoded(v, p) = ConnectV5(p)
    BY <1>1, <1>9, EmptyInV4, EncodedOf, Zenon
  <2>2. Wired(lw, w) /\ WillBytes(p) = w
    BY <1>9, WillIs
  <2>3. s = ProtocolName \o <<5, ConnectFlags(p)>> \o BigEndian(p.keepAlive, 2)
    BY <1>9, Zenon DEF ConnectStart
  <2>4. Encoded(v, p) = Framed(HeaderOf(p), 2 + 4 + 1 + 1 + 2 + 2 + nc + lq + lu + lw,
                               (((s \o q) \o c) \o w) \o u)
    BY <1>5, <1>7, <2>1, <2>2, <2>3, Zenon DEF ConnectV5
  <2> HIDE DEF s, q, lq, c, nc, w, u, lu, lw
  <2>5. s \in Seq(Byte) /\ q \in Seq(Byte) /\ c \in Seq(Byte) /\ w \in Seq(Byte) /\ u \in Seq(Byte)
    BY <1>2, <1>3, <1>4, <1>5, <2>2, Zenon DEF Wired
  <2>6. (((s \o q) \o c) \o w) \o u = s \o (q \o (c \o (w \o u)))
    <3> DEFINE e == Cat(w, u)
               f == Cat(c, e)
    <3>0. e \in Seq(Byte) /\ f \in Seq(Byte) /\ Cat(s, q) \in Seq(Byte) /\ Cat(Cat(s, q), c) \in Seq(Byte)
      BY <2>5, CatJoins, SMT
    <3>2. Cat(Cat(Cat(Cat(s, q), c), w), u) = Cat(Cat(Cat(s, q), c), e)
      BY <2>5, <3>0, CatJoins, SMT
    <3> HIDE DEF e
    <3>3. Cat(Cat(Cat(s, q), c), e) = Cat(Cat(s, q), f)
      BY <2>5, <3>0, CatJoins, SMT
    <3> HIDE DEF f
    <3>4. Cat(Cat(s, q), f) = Cat(s, Cat(q, f))
      BY <2>5, <3>0, CatJoins, SMT
    <3>1. Cat(Cat(Cat(Cat(s, q), c), w), u) = Cat(s, Cat(q, Cat(c, Cat(w, u))))
      BY <3>2, <3>3, <3>4, Zenon DEF e, f
    <3> QED BY <3>1, Zenon DEF Cat
  <2>7. Wired(10 + (lq + ((2 + nc) + (lw + lu))), s \o (q \o (c \o (w \o u))))
    BY <1>2, <1>3, <1>4, <1>5, <2>2, WiredJoined
  <2>8. 2 + 4 + 1 + 1 + 2 + 2 + nc + lq + lu + lw = 10 + (lq + ((2 + nc) + (lw + lu)))
    <3>1. lq \in Nat /\ lu \in Nat /\ lw \in Nat
      BY <1>3, <1>5, <2>2, Zenon DEF Wired
    <3> QED BY <1>4, <3>1, SMT
  <2> QED BY <1>8, <2>4, <2>6, <2>7, <2>8, FramedBy, Zenon
<1>10. CASE v = 4
  <2> DEFINE x == WillTexts(p)
             lx == TextsSize(x)
             uw == p.user \o p.password
             lp == TextsSize(p.user)
             lr == TextsSize(p.password)
  <2>1. q = <<>> /\ lq = 0 /\ Encoded(v, p) = Connect(p)
    BY <1>1, <1>10, EmptyInV4, EncodedOf, Zenon
  <2>2. w = Texts(x) /\ Wired(lx, w) /\ x \in Seq(Strings)
    BY <1>10, WillIs, Zenon
  <2>3. s = ProtocolName \o <<4, ConnectFlags(p)>> \o BigEndian(p.keepAlive, 2)
    BY <1>10, Zenon DEF ConnectStart
  <2>4. p.user \in Seq(Strings) /\ p.password \in Seq(Strings)
    BY ConnectIs
  <2>5. uw \in Seq(Strings) /\ lu = lp + lr /\ lp \in Nat /\ lr \in Nat
    BY UserIs
  <2>6. TextsSize(uw \o x) = lu + lx
    <3> HIDE DEF uw, x
    <3>1. TextsSize(uw \o x) = TextsSize(uw) + TextsSize(x)
      BY <2>2, <2>5, TextsJoined
    <3> QED BY <3>1, Zenon DEF uw, x
  <2>7. Texts((x \o p.user) \o p.password) = w \o u
    <3> DEFINE y == p.user
               z == p.password
    <3>1. y \in Seq(Strings) /\ z \in Seq(Strings)
      BY <2>4
    <3>2. u = Texts(y) \o Texts(z) /\ Texts(y) \in Seq(Byte) /\ Texts(z) \in Seq(Byte)
      BY UserIs, Zenon DEF UserPart
    <3> HIDE DEF y, z, x, w, u
    <3>3. Texts(x \o y) = Texts(x) \o Texts(y) /\ x \o y \in Seq(Strings)
      BY <2>2, <3>1, TextsJoined
    <3>4. Texts((x \o y) \o z) = Texts(x \o y) \o Texts(z)
      BY <3>1, <3>3, TextsJoined
    <3>5. w \in Seq(Byte)
      BY <2>2, Zenon DEF Wired
    <3>6. Cat(Cat(w, Texts(y)), Texts(z)) = Cat(w, Cat(Texts(y), Texts(z)))
      BY <3>2, <3>5, CatJoins, SMT
    <3>7. (w \o Texts(y)) \o Texts(z) = w \o (Texts(y) \o Texts(z))
      BY <3>6, Zenon DEF Cat
    <3>8. Texts((x \o y) \o z) = w \o u
      BY <2>2, <3>2, <3>3, <3>4, <3>7, Zenon
    <3> QED BY <3>8, Zenon DEF y, z
  <2>8. Encoded(v, p) = Framed(HeaderOf(p), 2 + 4 + 1 + 1 + 2 + 2 + nc + (lu + lx), (s \o c) \o (w \o u))
    BY <1>7, <2>1, <2>3, <2>6, <2>7, Zenon DEF Connect
  <2> HIDE DEF s, q, lq, c, nc, w, u, lu, x, lx, uw, lp, lr
  <2>9. s \in Seq(Byte) /\ q \in Seq(Byte) /\ c \in Seq(Byte) /\ w \in Seq(Byte) /\ u \in Seq(Byte)
    BY <1>2, <1>3, <1>4, <1>5, <2>2, Zenon DEF Wired
  <2>10. (s \o c) \o (w \o u) = s \o (c \o (w \o u)) /\ c \o (w \o u) \in Seq(Byte)
    <3>1. Cat(Cat(s, c), Cat(w, u)) = Cat(s, Cat(c, Cat(w, u))) /\ Cat(c, Cat(w, u)) \in Seq(Byte)
      BY <2>9, CatJoins, SMT
    <3> QED BY <3>1, Zenon DEF Cat
  <2>11. q \o (c \o (w \o u)) = c \o (w \o u)
    BY <2>1, <2>10, WiredEmpty, Zenon
  <2>12. Wired(10 + ((2 + nc) + (lx + lu)), s \o (c \o (w \o u)))
    BY <1>2, <1>4, <1>5, <2>2, WiredJoined
  <2>13. 2 + 4 + 1 + 1 + 2 + 2 + nc + (lu + lx) = 10 + ((2 + nc) + (lx + lu))
    <3>1. lu \in Nat /\ lx \in Nat
      BY <1>5, <2>2, Zenon DEF Wired
    <3> QED BY <1>4, <3>1, SMT
  <2> QED BY <1>8, <2>8, <2>10, <2>11, <2>12, <2>13, FramedBy, Zenon
<1> QED BY <1>9, <1>10

\* Every packet on the wire.
LEMMA PacketFramed ==
  ASSUME NEW v \in {4, 5}, NEW p \in Packets(v)
  PROVE  IsFramed(v, p)
BY ConnectFramed, ConnackFramed, PublishFramed, AckFramed, SubscribeFramed, UnsubscribeFramed,
   SubackFramed, UnsubackFramed, PingFramed, EndingFramed, Zenon DEF Packets

-----------------------------------------------------------------------------
\* A packet from its first byte on.

\* Lengths of four bytes exist.
LEMMA LimitIs == 128 * 128 * 128 <= LengthLimit /\ LengthLimit \in Nat
BY SMT DEF LengthLimit

\* A packet of the allowed size has a length that can be written.
LEMMA BelowTheLimit ==
  ASSUME NEW n \in Nat, NEW k \in Nat, 128 * 128 * 128 <= k, NEW s \in 1..4,
         n >= 128 * 128 * 128 => s = 4, 1 + s + n <= k + 4
  PROVE  n < k
BY SMT

\* What a packet is on the wire, and that its length is one that can be written.
LEMMA WireForm ==
  ASSUME NEW v \in {4, 5}, NEW p \in Packets(v)
  PROVE  /\ Encoded(v, p) = <<HeaderOf(p)>> \o (VarBytes(Len(Body(v, p))) \o Body(v, p))
         /\ Body(v, p) \in Seq(Byte) /\ Len(Body(v, p)) \in Nat /\ Len(Body(v, p)) < LengthLimit
         /\ VarBytes(Len(Body(v, p))) \in Seq(Byte)
         /\ p.type \in TypeNames
         /\ HeaderOf(p) \in Byte /\ TypeOf(HeaderOf(p)) = p.type
         /\ p.type # "publish" => FlagsOf(HeaderOf(p)) = ReservedBits(p.type)
         /\ <<HeaderOf(p)>> \in Seq(Byte) /\ Encoded(v, p) \in Seq(Byte)
<1> DEFINE h == HeaderOf(p)
           b == Body(v, p)
           n == Len(b)
           w == VarBytes(n)
           e == Encoded(v, p)
<1>1. e = (<<h>> \o w) \o b /\ b \in Seq(Byte)
  BY PacketFramed, Zenon DEF IsFramed, Framed
<1>2. n \in Nat
  BY <1>1, LenProperties
<1>3. w \in Seq(Byte) /\ Len(w) = VarSize(n) /\ VarSize(n) \in 1..4
  <2> HIDE DEF n
  <2> QED BY <1>2, LengthType
<1>4. n >= 128 * 128 * 128 => VarSize(n) = 4
  <2> HIDE DEF n
  <2> QED BY <1>2, VarSizeIs
<1>5. p.type \in TypeNames /\ (p.type = "publish" => p \in Publishes(v))
  <2>1. p \in Connects(v) => p.type = "connect"
    BY DEF Connects
  <2>2. p \in Connacks(v) => p.type = "connack"
    BY DEF Connacks
  <2>3. p \in Publishes(v) => p.type = "publish"
    BY DEF Publishes
  <2>4. p \in Acknowledgements(v) => p.type \in {"puback", "pubrec", "pubrel", "pubcomp"}
    BY DEF Acknowledgements
  <2>5. p \in Subscribes(v) => p.type = "subscribe"
    BY DEF Subscribes
  <2>6. p \in Unsubscribes(v) => p.type = "unsubscribe"
    BY DEF Unsubscribes
  <2>7. p \in Subacks(v) => p.type = "suback"
    BY DEF Subacks
  <2>8. p \in Unsubacks(v) => p.type = "unsuback"
    BY DEF Unsubacks
  <2>9. p \in Pings => p.type \in {"pingreq", "pingresp"}
    BY DEF Pings
  <2>10. p \in Endings(v) => p.type \in {"disconnect", "auth"}
    <3>1. CASE v = 5
      BY <3>1, SMT DEF Endings
    <3>2. CASE v = 4
      BY <3>2, SMT DEF Endings
    <3> QED BY <3>1, <3>2
  <2>11. \/ p \in Connects(v) \/ p \in Connacks(v) \/ p \in Publishes(v) \/ p \in Acknowledgements(v)
         \/ p \in Subscribes(v) \/ p \in Unsubscribes(v) \/ p \in Subacks(v) \/ p \in Unsubacks(v)
         \/ p \in Pings \/ p \in Endings(v)
    BY Zenon DEF Packets
  <2> QED BY <2>1, <2>2, <2>3, <2>4, <2>5, <2>6, <2>7, <2>8, <2>9, <2>10, <2>11, SMT DEF TypeNames
<1>6. h \in Byte /\ TypeOf(h) = p.type /\ (p.type # "publish" => FlagsOf(h) = ReservedBits(p.type))
  <2>1. CASE p.type = "publish"
    <3>1. p.dup \in BOOLEAN /\ p.qos \in 0..2 /\ p.retain \in BOOLEAN
      BY <1>5, <2>1 DEF Publishes
    <3>2. PublishOptions(p) \in 0..15
      <4> DEFINE dup == p.dup
                 qos == p.qos
                 retain == p.retain
      <4>1. PublishOptions(p) = (IF dup THEN 8 ELSE 0) + 2 * qos + (IF retain THEN 1 ELSE 0)
        BY Zenon DEF PublishOptions
      <4> HIDE DEF dup, qos, retain
      <4>2. dup \in BOOLEAN /\ qos \in 0..2 /\ retain \in BOOLEAN
        BY <3>1 DEF dup, qos, retain
      <4>3. (IF dup THEN 8 ELSE 0) + 2 * qos + (IF retain THEN 1 ELSE 0) \in 0..15
        BY <4>2, SMT
      <4> QED BY <4>1, <4>3
    <3>3. h = FixedHeader(p.type, PublishOptions(p))
      BY <2>1, Zenon DEF HeaderOf
    <3> QED BY <1>5, <2>1, <3>2, <3>3, HeaderIs, Zenon
  <2>2. CASE p.type # "publish"
    <3>1. ReservedBits(p.type) \in 0..15
      BY SMT DEF ReservedBits
    <3>2. h = FixedHeader(p.type, ReservedBits(p.type))
      BY <2>2, PacketHeader
    <3> QED BY <1>5, <3>1, <3>2, HeaderIs, Zenon
  <2> QED BY <2>1, <2>2
<1>7. <<h>> \in Seq(Byte) /\ Len(<<h>>) = 1
  BY <1>6, IsOneSeq
<1>8. Len(e) <= LengthLimit + 4
  BY Zenon DEF Packets
<1> HIDE DEF h, b, n, w, e
<1> DEFINE x == <<h>>
<1>9. x \in Seq(Byte) /\ Len(x) = 1
  BY <1>7
<1> HIDE DEF x
<1>10. e = x \o (w \o b) /\ w \o b \in Seq(Byte)
  BY <1>1, <1>3, <1>9, Associate, OfJoined DEF x
<1>11. Len(w \o b) = Len(w) + Len(b)
  BY <1>1, <1>3, OfJoined
<1>12. e \in Seq(Byte) /\ Len(e) = Len(x) + Len(w \o b)
  <2> DEFINE y == w \o b
  <2> HIDE DEF y
  <2>1. e = x \o y /\ y \in Seq(Byte)
    BY <1>10 DEF y
  <2>2. x \o y \in Seq(Byte) /\ Len(x \o y) = Len(x) + Len(y)
    BY <2>1, <1>9, OfJoined, Zenon
  <2> QED BY <2>1, <2>2 DEF y
<1>13. 1 + VarSize(n) + n <= LengthLimit + 4
  <2> DEFINE k == VarSize(n)
  <2>1. Len(e) = 1 + (k + n) /\ k \in 1..4
    BY <1>3, <1>9, <1>11, <1>12, Zenon DEF n
  <2> HIDE DEF k
  <2>2. 1 + (k + n) = 1 + k + n
    BY <1>2, <2>1, SMT
  <2> QED BY <1>8, <2>1, <2>2, Zenon DEF k
<1>14. n < LengthLimit
  <2> DEFINE k == LengthLimit
  <2>1. k \in Nat /\ 128 * 128 * 128 <= k
    BY LimitIs
  <2> HIDE DEF k
  <2> QED BY <1>2, <1>3, <1>4, <1>13, <2>1, BelowTheLimit DEF k
<1> QED BY <1>1, <1>2, <1>3, <1>5, <1>6, <1>9, <1>10, <1>12, <1>14, Zenon DEF h, b, n, w, e, x

\* A length at the front of what follows it.
LEMMA VariableBack ==
  ASSUME NEW n \in Nat, n < LengthLimit, NEW r \in Seq(Byte)
  PROVE  /\ VariableLength(VarBytes(n) \o r).value = n
         /\ VariableLength(VarBytes(n) \o r).used = Len(VarBytes(n))
         /\ Len(VarBytes(n)) # 0 /\ VarBytes(n) \in Seq(Byte) /\ Len(VarBytes(n)) \in Nat
<1> DEFINE b == VarBytes(n) \o r
           k == Len(VarBytes(n))
<1>1. LengthEnd(b) = k /\ LengthValue(b, k) = n /\ k \in 1..4 /\ VarBytes(n) \in Seq(Byte)
  BY LengthBack
<1> HIDE DEF b, k
<1>2. k # 0 /\ ~(k > 4) /\ k \in Nat
  BY <1>1, SMT
<1>3. VariableLength(b) = [value |-> n, used |-> k]
  BY <1>1, <1>2, Zenon DEF VariableLength
<1>4. VariableLength(b).value = n /\ VariableLength(b).used = k
  BY <1>3
<1> QED BY <1>1, <1>2, <1>4 DEF b, k

\* What a sender finds behind the fixed header of what it wrote.
LEMMA HeaderBack ==
  ASSUME NEW v \in {4, 5}, NEW p \in Packets(v)
  PROVE  /\ Encoded(v, p)[1] = HeaderOf(p)
         /\ Behind(Encoded(v, p), HeaderUsed(Encoded(v, p))) = Body(v, p)
         /\ First(Encoded(v, p), HeaderUsed(Encoded(v, p))) \o Body(v, p) = Encoded(v, p)
         /\ First(Encoded(v, p), HeaderUsed(Encoded(v, p))) \in Seq(Byte)
<1> DEFINE h == HeaderOf(p)
           b == Body(v, p)
           w == VarBytes(Len(b))
           e == Encoded(v, p)
           x == <<h>>
<1>1. /\ e = x \o (w \o b) /\ b \in Seq(Byte) /\ Len(b) \in Nat /\ Len(b) < LengthLimit
      /\ w \in Seq(Byte) /\ h \in Byte /\ x \in Seq(Byte)
  BY WireForm, Zenon
<1>2. /\ VariableLength(w \o b).used = Len(w)
  BY <1>1, VariableBack, Zenon
<1> HIDE DEF h, b, w, e
<1>3. w \o b \in Seq(Byte)
  BY <1>1, OfJoined
<1>4. e[1] = h /\ Tail(e) = w \o b
  BY <1>1, <1>3, IdBack
<1>5. HeaderUsed(e) = 1 + Len(w)
  BY <1>2, <1>4, Zenon DEF HeaderUsed
<1> DEFINE y == x \o w
<1>6. Len(x) = 1
  OBVIOUS
<1> HIDE DEF x
<1>7. y \in Seq(Byte) /\ Len(y) = Len(x) + Len(w)
  BY <1>1, OfJoined
<1>8. e = y \o b
  <2>1. (x \o w) \o b = x \o (w \o b)
    BY <1>1, Associate, SMTT(30)
  <2> QED BY <1>1, <2>1, Zenon
<1> HIDE DEF y
<1>9. HeaderUsed(e) = Len(y)
  BY <1>5, <1>6, <1>7, Zenon
<1>10. First(y \o b, Len(y)) = y /\ Behind(y \o b, Len(y)) = b
  BY <1>1, <1>7, OfJoined
<1> QED BY <1>4, <1>7, <1>8, <1>9, <1>10, Zenon DEF e, b, h

-----------------------------------------------------------------------------
\* The reader's cursor: a block read ahead, and the stream behind it.

\* What is left of a packet, R, and what comes behind it, T: the block first.
Placed(c, R, T) ==
  /\ c = [stream |-> c.stream, buf |-> c.buf, rem |-> c.rem, left |-> c.left]
  /\ c.stream \in Seq(Byte) /\ c.buf \in Seq(Byte) /\ c.rem \in Nat /\ c.left \in Nat
  /\ c.buf \o c.stream = R \o T /\ Len(c.buf) <= Len(R) /\ Len(R) <= c.rem
  /\ Len(R) < LengthLimit
\* The block is used up, or holds the next n bytes.
Fits(c, n) == c.buf = <<>> \/ n <= Len(c.buf)
Advanced(c, d, n) ==
  /\ d.rem = c.rem - n /\ d.left = c.left
  /\ Len(d.buf) = IF n <= Len(c.buf) THEN Len(c.buf) - n ELSE 0

\* What is read off the front, when it lies in the block, behind it, or across its end.
LEMMA PrefixOf ==
  ASSUME NEW S, NEW x \in Seq(S), NEW y \in Seq(S), NEW X \in Seq(S), NEW Y \in Seq(S),
         x \o y = X \o Y
  PROVE  /\ Len(X) <= Len(x) => First(x, Len(X)) = X /\ Behind(x, Len(X)) \o y = Y
         /\ Len(x) < Len(X) => /\ Behind(y, Len(X) - Len(x)) = Y /\ Behind(x, Len(X)) = <<>>
                               /\ Len(X) - Len(x) <= Len(y)
         /\ x = <<>> => First(y, Len(X)) = X /\ Len(X) <= Len(y)
<1> DEFINE n == Len(X)
<1>1. /\ n \in Nat /\ First(X \o Y, n) = X /\ Behind(X \o Y, n) = Y /\ Len(X \o Y) = n + Len(Y)
      /\ X \o Y \in Seq(S) /\ Len(Y) \in Nat
  BY OfJoined
<1>2. Len(x \o y) = Len(x) + Len(y) /\ Len(x) \in Nat /\ Len(y) \in Nat /\ Behind(x \o y, Len(x)) = y
      /\ x \o y \in Seq(S)
  BY OfJoined
<1>3. ASSUME n <= Len(x) PROVE First(x, n) = X /\ Behind(x, n) \o y = Y
  <2> DEFINE a == First(x, n)
             b == Behind(x, n)
  <2>1. n \in 0..Len(x)
    BY <1>1, <1>2, <1>3
  <2>2. a \in Seq(S) /\ b \in Seq(S) /\ Len(a) = n /\ a \o b = x
    BY <2>1, FirstBehind
  <2> HIDE DEF a, b, n
  <2>7. a \in Seq(S) /\ b \in Seq(S) /\ y \in Seq(S)
    BY <2>2
  <2>3. (a \o b) \o y = a \o (b \o y)
    BY ONLY <2>7, Associate, SMTT(30)
  <2>4. b \o y \in Seq(S)
    BY <2>2, OfJoined
  <2> DEFINE z == b \o y
  <2>5. a \o z = X \o Y /\ z \in Seq(S)
    BY <2>2, <2>3, <2>4
  <2> HIDE DEF z
  <2>6. First(a \o z, Len(a)) = a /\ Behind(a \o z, Len(a)) = z
    BY <2>2, <2>5, OfJoined
  <2> QED BY <1>1, <2>2, <2>5, <2>6, Zenon DEF a, b, z
<1>4. ASSUME Len(x) < n PROVE Behind(y, n - Len(x)) = Y /\ Behind(x, n) = <<>> /\ n - Len(x) <= Len(y)
  <2> DEFINE k == Len(x)
             l == n - k
             z == x \o y
  <2>1. k \in Nat /\ l \in Nat /\ k + l = n /\ n <= Len(z) /\ z \in Seq(S) /\ l <= Len(y)
    BY <1>1, <1>2, <1>4, SMT
  <2> HIDE DEF k, l, z
  <2>2. Behind(Behind(z, k), l) = Behind(z, k + l)
    BY <2>1, BehindTwice
  <2>3. Behind(z, k) = y /\ Behind(z, n) = Y
    BY <1>1, <1>2, Zenon DEF k, z
  <2>4. Behind(x, n) = <<>>
    <3> HIDE DEF n
    <3> QED BY <1>1, <1>4, SMT DEF Behind
  <2> QED BY <2>1, <2>2, <2>3, <2>4, Zenon DEF l, k
<1>5. ASSUME x = <<>> PROVE First(y, n) = X /\ n <= Len(y)
  <2>1. x \o y = y
    BY <1>5, WiredEmpty, Zenon
  <2>2. Len(y) = n + Len(Y)
    BY <1>1, <2>1, Zenon
  <2> QED BY <1>1, <2>1, <2>2, SMT
<1> QED BY <1>3, <1>4, <1>5

\* The cursor behind the first part of what is left.
LEMMA PastIs ==
  ASSUME NEW c, NEW X \in Seq(Byte), NEW R \in Seq(Byte), NEW T \in Seq(Byte), Placed(c, X \o R, T)
  PROVE  /\ Placed(Past(c, Len(X)), R, T) /\ Advanced(c, Past(c, Len(X)), Len(X))
         /\ Len(X) \in Nat /\ Len(R) \in Nat /\ Len(X) + Len(R) <= c.rem /\ c.rem \in Nat
         /\ Len(X) + Len(R) < LengthLimit
         /\ Len(X) <= Len(c.buf) => First(c.buf, Len(X)) = X
         /\ c.buf = <<>> => First(c.stream, Len(X)) = X /\ Len(X) <= Len(c.stream)
         /\ c.buf \o c.stream = X \o (R \o T) /\ R \o T \in Seq(Byte)
         /\ c.stream \in Seq(Byte) /\ c.buf \in Seq(Byte)
<1> DEFINE x == c.buf
           y == c.stream
           r == c.rem
           f == c.left
           n == Len(X)
           Y == R \o T
           d == Past(c, n)
<1>1. /\ c = [stream |-> y, buf |-> x, rem |-> r, left |-> f] /\ y \in Seq(Byte) /\ x \in Seq(Byte)
      /\ r \in Nat /\ f \in Nat /\ x \o y = (X \o R) \o T
      /\ Len(x) <= Len(X \o R) /\ Len(X \o R) <= r /\ Len(X \o R) < LengthLimit
  BY Zenon DEF Placed
<1>2. (X \o R) \o T = X \o Y /\ Y \in Seq(Byte)
  BY Associate, OfJoined, SMTT(30)
<1>3. Len(X \o R) = n + Len(R) /\ n \in Nat /\ Len(R) \in Nat
  BY OfJoined
<1> HIDE DEF x, y, r, f, Y
<1>4. x \o y = X \o Y
  BY <1>1, <1>2
<1>5. Len(x) \in Nat /\ Len(y) \in Nat
  BY <1>1, LenProperties
<1>6. /\ n <= Len(x) => First(x, n) = X /\ Behind(x, n) \o y = Y
      /\ Len(x) < n => Behind(y, n - Len(x)) = Y /\ Behind(x, n) = <<>> /\ n - Len(x) <= Len(y)
      /\ x = <<>> => First(y, n) = X /\ n <= Len(y)
  BY <1>1, <1>2, <1>4, PrefixOf
<1> DEFINE s == IF n <= Len(x) THEN y ELSE Behind(y, n - Len(x))
           b == Behind(x, n)
<1>7. d = [stream |-> s, buf |-> b, rem |-> r - n, left |-> f]
  BY Zenon DEF Past, x, y, r, f
<1>8. /\ b \in Seq(Byte) /\ Len(b) = IF n <= Len(x) THEN Len(x) - n ELSE 0
  BY <1>1, <1>3, BehindType
<1>9. s \in Seq(Byte) /\ b \o s = Y
  <2>1. CASE n <= Len(x)
    BY <1>1, <1>6, <2>1
  <2>2. CASE Len(x) < n
    <3>1. s = Behind(y, n - Len(x))
      BY <1>3, <1>5, <2>2, SMT
    <3>2. n - Len(x) \in Nat
      BY <1>3, <1>5, <2>2, SMT
    <3> DEFINE k == n - Len(x)
    <3> HIDE DEF k
    <3>3. Behind(y, k) \in Seq(Byte)
      BY <1>1, <3>2, BehindType DEF k
    <3>4. s = Y /\ b = <<>>
      BY <1>6, <2>2, <3>1, Zenon
    <3> QED BY <1>2, <3>4, WiredEmpty, Zenon
  <2> QED BY <1>3, <1>5, <2>1, <2>2, SMT
<1>10. Len(x) <= n + Len(R) /\ n + Len(R) <= r /\ n + Len(R) < LengthLimit
  BY <1>1, <1>3
<1> HIDE DEF s, b, d, n
<1>11. d.stream = s /\ d.buf = b /\ d.rem = r - n /\ d.left = f
  BY <1>7
<1>12. r - n \in Nat /\ Len(R) <= r - n /\ Len(R) < LengthLimit
  BY <1>1, <1>3, <1>10, LimitIs, SMT
<1>13. Len(b) <= Len(R)
  BY <1>3, <1>5, <1>8, <1>10, SMT
<1>14. Placed(d, R, T)
  BY <1>1, <1>7, <1>8, <1>9, <1>11, <1>12, <1>13, Zenon DEF Placed, Y
<1>15. Advanced(c, d, n)
  BY <1>8, <1>11, Zenon DEF Advanced, x, r, f
<1> QED BY <1>1, <1>2, <1>3, <1>4, <1>6, <1>10, <1>14, <1>15, Zenon DEF d, n, x, y, r, Y

\* Empty is of length zero.
LEMMA EmptyIs ==
  ASSUME NEW S, NEW x \in Seq(S)
  PROVE  x = <<>> <=> Len(x) = 0
BY SMT

\* A cursor with one of its parts changed.
LEMMA RemIs ==
  ASSUME NEW s, NEW b, NEW r, NEW f, NEW m, NEW c, c = [stream |-> s, buf |-> b, rem |-> r, left |-> f]
  PROVE  [c EXCEPT !.rem = m] = [stream |-> s, buf |-> b, rem |-> m, left |-> f]
OBVIOUS
\* The stream.
LEMMA StreamIs ==
  ASSUME NEW s, NEW b, NEW r, NEW f, NEW m, NEW c, c = [stream |-> s, buf |-> b, rem |-> r, left |-> f]
  PROVE  [c EXCEPT !.stream = m] = [stream |-> m, buf |-> b, rem |-> r, left |-> f]
OBVIOUS
\* The block.
LEMMA BufIs ==
  ASSUME NEW s, NEW b, NEW r, NEW f, NEW m, NEW c, c = [stream |-> s, buf |-> b, rem |-> r, left |-> f]
  PROVE  [c EXCEPT !.buf = m] = [stream |-> s, buf |-> m, rem |-> r, left |-> f]
OBVIOUS
\* What is left of the properties.
LEMMA LeftIs ==
  ASSUME NEW s, NEW b, NEW r, NEW f, NEW m, NEW c, c = [stream |-> s, buf |-> b, rem |-> r, left |-> f]
  PROVE  [c EXCEPT !.left = m] = [stream |-> s, buf |-> b, rem |-> r, left |-> m]
OBVIOUS

\* Both ways of taking n bytes.
LEMMA TakeEither ==
  ASSUME NEW c, NEW X \in Seq(Byte), NEW R \in Seq(Byte), NEW T \in Seq(Byte), Placed(c, X \o R, T),
         Fits(c, Len(X)), NEW k, k = [c EXCEPT !.rem = @ - Len(X)]
  PROVE  /\ (IF c.buf = <<>> THEN FromStream(k, Len(X)) ELSE FromBlock(k, Len(X)))
              = Took(Past(c, Len(X)), X)
         /\ c.buf # <<>> => ~(Len(c.buf) < Len(X))
         /\ ~(c.rem < Len(X))
<1> DEFINE x == c.buf
           y == c.stream
           r == c.rem
           f == c.left
           n == Len(X)
           d == Past(c, n)
<1>1. /\ c = [stream |-> y, buf |-> x, rem |-> r, left |-> f] /\ y \in Seq(Byte) /\ x \in Seq(Byte)
  BY Zenon DEF Placed
<1>2. /\ n \in Nat /\ n + Len(R) <= r /\ Len(R) \in Nat /\ r \in Nat
      /\ n <= Len(x) => First(x, n) = X
      /\ x = <<>> => First(y, n) = X /\ n <= Len(y)
  BY PastIs, Zenon
<1>3. Len(x) \in Nat /\ Len(y) \in Nat
  BY <1>1, LenProperties
<1>4. ~(r < n)
  BY <1>2, SMT
<1>5. x = <<>> \/ n <= Len(x)
  BY Zenon DEF Fits
<1>6. x # <<>> => ~(Len(x) < n)
  BY <1>2, <1>3, <1>5, SMT
<1> DEFINE s == IF n <= Len(x) THEN y ELSE Behind(y, n - Len(x))
           b == Behind(x, n)
<1>9. d = [stream |-> s, buf |-> b, rem |-> r - n, left |-> f]
  BY Zenon DEF Past
<1>7. k = [c EXCEPT !.rem = r - n]
  OBVIOUS
<1> HIDE DEF x, y, r, f, n, d, s, b
<1> DEFINE m == r - n
<1>15. k = [c EXCEPT !.rem = m]
  BY <1>7
<1> HIDE DEF m
<1>16. k = [stream |-> y, buf |-> x, rem |-> m, left |-> f]
  BY <1>1, <1>15, RemIs, Zenon
<1>8. k = [stream |-> y, buf |-> x, rem |-> r - n, left |-> f]
  BY <1>16 DEF m
<1>10. k.stream = y /\ k.buf = x
  BY <1>8
<1>11. CASE x = <<>>
  <2>1. FromStream(k, n) = Took([k EXCEPT !.stream = Behind(y, n)], X)
    <3>1. ~(Len(k.stream) < n)
      BY <1>2, <1>3, <1>10, <1>11, SMT
    <3> QED BY <1>2, <1>10, <1>11, <3>1, Zenon DEF FromStream
  <2>2. s = Behind(y, n) /\ b = <<>>
    <3>1. b = <<>>
      BY <1>2, <1>11, BehindEnds, Zenon DEF b
    <3>2. Len(x) = 0
      BY <1>11
    <3>3. CASE n = 0
      <4>1. s = y /\ Behind(y, 0) = y
        BY <1>1, <3>2, <3>3, BehindEnds DEF s
      <4> QED BY <3>1, <3>3, <4>1, Zenon
    <3>4. CASE n # 0
      <4>1. ~(n <= Len(x)) /\ n - Len(x) = n
        BY <1>2, <3>2, <3>4, SMT
      <4> QED BY <3>1, <4>1, Zenon DEF s
    <3> QED BY <3>1, <3>3, <3>4
  <2>3. [k EXCEPT !.stream = Behind(y, n)] = d
    <3> DEFINE e == Behind(y, n)
    <3> HIDE DEF e
    <3>1. [k EXCEPT !.stream = e] = [stream |-> e, buf |-> x, rem |-> m, left |-> f]
      BY ONLY <1>16, StreamIs
    <3>2. d = [stream |-> e, buf |-> x, rem |-> m, left |-> f]
      BY <1>9, <1>11, <2>2 DEF m, e
    <3> QED BY <3>1, <3>2 DEF e
  <2> QED BY <1>4, <1>6, <1>11, <2>1, <2>3, Zenon DEF x, r, n, d
<1>12. CASE x # <<>>
  <2>1. n <= Len(x)
    BY <1>5, <1>12
  <2>3. FromBlock(k, n) = Took([k EXCEPT !.buf = b], X)
    BY <1>2, <1>10, <2>1, Zenon DEF FromBlock, b
  <2>4. s = y
    BY <2>1, Zenon DEF s
  <2>5. [k EXCEPT !.buf = b] = d
    <3>1. [k EXCEPT !.buf = b] = [stream |-> y, buf |-> b, rem |-> m, left |-> f]
      BY ONLY <1>16, BufIs
    <3> QED BY <1>9, <2>4, <3>1 DEF m
  <2> QED BY <1>4, <1>6, <1>12, <2>3, <2>5, Zenon DEF x, r, n, d
<1> QED BY <1>11, <1>12

-----------------------------------------------------------------------------
\* What is taken off the cursor.

\* The one element of a set.
LEMMA OnlyOne ==
  ASSUME NEW x
  PROVE  Only({x}) = x
BY Zenon DEF Only

\* Bytes that the block holds, or that come next, are taken.
LEMMA TakesBytes ==
  ASSUME NEW c, NEW X \in Seq(Byte), NEW R \in Seq(Byte), NEW T \in Seq(Byte), Placed(c, X \o R, T),
         Fits(c, Len(X))
  PROVE  TakeBytes(c, Len(X)) = Took(Past(c, Len(X)), X)
<1> DEFINE k == [c EXCEPT !.rem = @ - Len(X)]
<1>1. /\ (IF c.buf = <<>> THEN FromStream(k, Len(X)) ELSE FromBlock(k, Len(X)))
              = Took(Past(c, Len(X)), X)
      /\ c.buf # <<>> => ~(Len(c.buf) < Len(X))
      /\ ~(c.rem < Len(X))
  <2> HIDE DEF k
  <2>1. k = [c EXCEPT !.rem = @ - Len(X)]
    BY DEF k
  <2> QED BY <2>1, TakeEither
<1> QED BY <1>1, Zenon DEF TakeBytes

\* A number is taken.
LEMMA TakesFixed ==
  ASSUME NEW c, NEW X \in Seq(Byte), NEW R \in Seq(Byte), NEW T \in Seq(Byte), Placed(c, X \o R, T),
         Fits(c, Len(X))
  PROVE  TakeFixed(c, Len(X)) = Took(Past(c, Len(X)), Number(X))
<1> DEFINE k == [c EXCEPT !.rem = @ - Len(X)]
           t == IF c.buf = <<>> THEN FromStream(k, Len(X)) ELSE FromBlock(k, Len(X))
           d == Past(c, Len(X))
<1>1. t = Took(d, X) /\ ~(c.rem < Len(X))
  <2> HIDE DEF k
  <2>1. k = [c EXCEPT !.rem = @ - Len(X)]
    BY DEF k
  <2> QED BY <2>1, TakeEither
<1>2. TakeFixed(c, Len(X)) = Then(t, LAMBDA e, bytes : Took(e, Number(bytes)))
  BY <1>1, Zenon DEF TakeFixed
<1> HIDE DEF k, t, d
<1>3. TakeFixed(c, Len(X)) = Then(Took(d, X), LAMBDA e, bytes : Took(e, Number(bytes)))
  BY <1>1, <1>2
<1>4. Took(d, X).status = "ok" /\ Took(d, X).cursor = d /\ Took(d, X).value = X
  BY DEF Took
<1> QED BY <1>3, <1>4, Zenon DEF Then, Only, d

\* Two parts are taken one after the other.
LEMMA OneAfterAnother ==
  ASSUME NEW c, NEW d, NEW e, NEW m \in Nat, NEW n \in Nat, Advanced(c, d, m), Advanced(d, e, n),
         c.rem \in Nat, c.buf \in Seq(Byte), d.buf \in Seq(Byte), Fits(c, m + n)
  PROVE  Advanced(c, e, m + n) /\ Fits(d, n) /\ Fits(c, m)
<1> DEFINE cr == c.rem
           dr == d.rem
           er == e.rem
           cb == Len(c.buf)
           db == Len(d.buf)
           eb == Len(e.buf)
           f == c.left
<1>1. /\ dr = cr - m /\ d.left = f /\ db = IF m <= cb THEN cb - m ELSE 0
      /\ er = dr - n /\ e.left = d.left /\ eb = IF n <= db THEN db - n ELSE 0
      /\ cr \in Nat /\ cb \in Nat
  BY LenProperties, Zenon DEF Advanced
<1>2. (c.buf = <<>> <=> cb = 0) /\ (d.buf = <<>> <=> db = 0)
  BY EmptyIs, Zenon
<1>3. cb = 0 \/ m + n <= cb
  BY <1>2, Zenon DEF Fits
<1> HIDE DEF cr, dr, er, cb, db, eb, f
<1>4. /\ er = cr - (m + n) /\ eb = IF m + n <= cb THEN cb - (m + n) ELSE 0
      /\ db = 0 \/ n <= db
      /\ cb = 0 \/ m <= cb
  BY ONLY <1>1, <1>3, m \in Nat, n \in Nat
<1> QED BY <1>1, <1>2, <1>4, Zenon DEF Advanced, Fits, cr, dr, er, cb, db, eb, f

\* A text is taken.
LEMMA TakesText ==
  ASSUME NEW c, NEW s \in Strings, NEW R \in Seq(Byte), NEW T \in Seq(Byte),
         Placed(c, Text(s) \o R, T), Fits(c, Len(Text(s)))
  PROVE  \E e : /\ TakeText(c) = Took(e, s) /\ Placed(e, R, T) /\ Advanced(c, e, Len(Text(s)))
<1> DEFINE w == BigEndian(Len(s), 2)
           A == s \o R
           d == Past(c, 2)
           e == Past(d, Len(s))
<1>1. /\ s \in Seq(Byte) /\ Len(s) \in Nat /\ w \in Seq(Byte) /\ Len(w) = 2 /\ Number(w) = Len(s)
      /\ Text(s) = w \o s /\ Len(Text(s)) = 2 + Len(s)
  BY TextIs
<1> HIDE DEF w
<1>2. Text(s) \o R = w \o A /\ A \in Seq(Byte)
  <2>2. w \in Seq(Byte) /\ s \in Seq(Byte) /\ R \in Seq(Byte)
    BY <1>1
  <2>1. (w \o s) \o R = w \o (s \o R)
    BY ONLY <2>2, Associate, SMTT(30)
  <2> QED BY <1>1, <2>1, OfJoined, Zenon
<1>3. Placed(c, w \o A, T) /\ Fits(c, 2 + Len(s))
  BY <1>1, <1>2
<1> HIDE DEF A
<1>4. Placed(d, A, T) /\ Advanced(c, d, 2) /\ c.rem \in Nat /\ c.buf \in Seq(Byte)
  <2>1. /\ Placed(Past(c, Len(w)), A, T) /\ Advanced(c, Past(c, Len(w)), Len(w))
        /\ c.rem \in Nat /\ c.buf \in Seq(Byte)
    BY <1>1, <1>2, <1>3, PastIs, Zenon
  <2> QED BY <1>1, <2>1
<1>5. Placed(d, s \o R, T)
  BY <1>4 DEF A
<1> HIDE DEF d
<1>6. /\ Placed(e, R, T) /\ Advanced(d, e, Len(s)) /\ Len(s) + Len(R) <= d.rem /\ d.buf \in Seq(Byte)
      /\ d.rem \in Nat /\ Len(R) \in Nat
  BY <1>1, <1>5, PastIs
<1>7. Advanced(c, e, 2 + Len(s)) /\ Fits(d, Len(s)) /\ Fits(c, 2)
  <2> HIDE DEF e
  <2>1. 2 \in Nat
    OBVIOUS
  <2> QED BY <1>1, <1>3, <1>4, <1>6, <2>1, OneAfterAnother
<1>8. TakeBytes(d, Len(s)) = Took(e, s)
  BY <1>1, <1>5, <1>7, TakesBytes
<1>9. TakeFixed(c, 2) = Took(d, Len(s))
  BY <1>1, <1>2, <1>3, <1>7, TakesFixed DEF d
<1>10. ~(d.rem < Len(s))
  BY <1>1, <1>6, SMT
<1>11. Took(d, Len(s)).status = "ok" /\ Took(d, Len(s)).cursor = d /\ Took(d, Len(s)).value = Len(s)
  BY DEF Took
<1>12. TakeText(c) = Took(e, s)
  BY <1>8, <1>9, <1>10, <1>11, OnlyOne, Zenon DEF TakeText, Then
<1> QED BY <1>1, <1>6, <1>7, <1>12, Zenon

\* A packet id is taken.
LEMMA TakesPacketId ==
  ASSUME NEW c, NEW n \in Ids, NEW R \in Seq(Byte), NEW T \in Seq(Byte),
         Placed(c, BigEndian(n, 2) \o R, T), Fits(c, 2)
  PROVE  /\ TakePacketId(c) = Took(Past(c, 2), n) /\ Placed(Past(c, 2), R, T)
         /\ Advanced(c, Past(c, 2), 2)
<1> DEFINE w == BigEndian(n, 2)
           d == Past(c, 2)
<1>1. w \in Seq(Byte) /\ Len(w) = 2 /\ Number(w) = n /\ n # 0
  BY IdsAreTwoBytes, WiredId, Zenon DEF Wired
<1> HIDE DEF w
<1>2. Placed(c, w \o R, T)
  BY DEF w
<1>3. Placed(d, R, T) /\ Advanced(c, d, 2)
  BY <1>1, <1>2, PastIs, ZenonT(60)
<1>4. TakeFixed(c, 2) = Took(d, n)
  BY <1>1, <1>2, TakesFixed
<1> HIDE DEF d
<1>5. Took(d, n).status = "ok" /\ Took(d, n).cursor = d /\ Took(d, n).value = n
  BY DEF Took
<1>6. TakePacketId(c) = Took(d, n)
  BY <1>1, <1>4, <1>5, OnlyOne, ZenonT(30) DEF TakePacketId, Then
<1> QED BY <1>3, <1>6 DEF d

\* A byte is taken.
LEMMA TakesByte ==
  ASSUME NEW c, NEW b \in Byte, NEW R \in Seq(Byte), NEW T \in Seq(Byte),
         Placed(c, <<b>> \o R, T), Fits(c, 1)
  PROVE  /\ TakeByte(c) = Took(Past(c, 1), b) /\ Placed(Past(c, 1), R, T)
         /\ Advanced(c, Past(c, 1), 1)
<1> DEFINE w == <<b>>
           d == Past(c, 1)
<1>1. w \in Seq(Byte) /\ Len(w) = 1 /\ w[1] = b
  BY IsOneSeq
<1> HIDE DEF w
<1>2. Placed(c, w \o R, T)
  BY DEF w
<1>3. Placed(d, R, T) /\ Advanced(c, d, 1)
  <2>1. Placed(Past(c, Len(w)), R, T) /\ Advanced(c, Past(c, Len(w)), Len(w))
    BY <1>1, <1>2, PastIs, Zenon
  <2> QED BY <1>1, <2>1
<1>4. TakeBytes(c, 1) = Took(d, w)
  BY <1>1, <1>2, TakesBytes
<1> HIDE DEF d
<1>5. Took(d, w).status = "ok" /\ Took(d, w).cursor = d /\ Took(d, w).value = w
  BY DEF Took
<1>6. TakeByte(c) = Took(d, b)
  BY <1>1, <1>4, <1>5, OnlyOne, Zenon DEF TakeByte, Then
<1> QED BY <1>3, <1>6 DEF d

\* The options of a topic filter are taken like any byte, unless they ask for a QoS of 3.
LEMMA TakesOptions ==
  ASSUME NEW c, NEW b \in Byte, NEW R \in Seq(Byte), NEW T \in Seq(Byte),
         Placed(c, <<b>> \o R, T), Fits(c, 1), b % 4 # 3
  PROVE  TakeOptions(c) = TakeByte(c)
<1> DEFINE d == Past(c, 1)
<1>1. TakeByte(c) = Took(d, b)
  BY TakesByte
<1> HIDE DEF d
<1>2. Took(d, b).status = "ok" /\ Took(d, b).cursor = d /\ Took(d, b).value = b
  BY DEF Took
<1>3. TakeOptions(c) = Took(d, b)
  BY <1>1, <1>2, OnlyOne, ZenonT(30) DEF TakeOptions, Then
<1> QED BY <1>1, <1>3

\* All that remains is taken.
LEMMA TakesRest ==
  ASSUME NEW c, NEW R \in Seq(Byte), NEW T \in Seq(Byte), Placed(c, R, T), Fits(c, Len(R)), c.rem = Len(R)
  PROVE  /\ TakeRest(c) = Took(Past(c, Len(R)), R) /\ Placed(Past(c, Len(R)), <<>>, T)
         /\ Advanced(c, Past(c, Len(R)), Len(R))
<1> DEFINE A == <<>>
<1>1. R \o A = R /\ A \in Seq(Byte)
  BY WiredEmpty, Zenon DEF Wired
<1> HIDE DEF A
<1>2. Placed(c, R \o A, T)
  BY <1>1
<1>3. Placed(Past(c, Len(R)), A, T) /\ Advanced(c, Past(c, Len(R)), Len(R))
  BY <1>1, <1>2, PastIs
<1>4. TakeBytes(c, Len(R)) = Took(Past(c, Len(R)), R)
  BY <1>1, <1>2, TakesBytes
<1> QED BY <1>3, <1>4, Zenon DEF TakeRest, A

\* A length may end the block, and go on behind it.
LEMMA TakesVariable ==
  ASSUME NEW c, NEW n \in Nat, n < LengthLimit, NEW R \in Seq(Byte), NEW T \in Seq(Byte),
         Placed(c, VarBytes(n) \o R, T)
  PROVE  \E d : /\ TakeVariable(c) = Took(d, n) /\ Placed(d, R, T) /\ Advanced(c, d, Len(VarBytes(n)))
<1> DEFINE w == VarBytes(n)
           k == Len(w)
           r == R \o T
           b == c.buf \o c.stream
<1>1. r \in Seq(Byte)
  BY OfJoined
<1>2. /\ LengthEnd(w \o r) = k /\ LengthValue(w \o r, k) = n /\ k \in 1..4 /\ w \in Seq(Byte)
  <2> HIDE DEF r
  <2> QED BY <1>1, LengthBack
<1> HIDE DEF w
<1>3. Placed(c, w \o R, T)
  BY DEF w
<1>4. /\ Placed(Past(c, k), R, T) /\ Advanced(c, Past(c, k), k) /\ k \in Nat /\ Len(R) \in Nat
      /\ k + Len(R) <= c.rem /\ c.rem \in Nat /\ b = w \o r
  <2>1. w \in Seq(Byte)
    BY <1>2
  <2>2. /\ Placed(Past(c, Len(w)), R, T) /\ Advanced(c, Past(c, Len(w)), Len(w))
        /\ Len(w) \in Nat /\ Len(R) \in Nat
        /\ Len(w) + Len(R) <= c.rem /\ c.rem \in Nat
        /\ c.buf \o c.stream = w \o (R \o T)
    <3>1. R \in Seq(Byte) /\ T \in Seq(Byte)
      OBVIOUS
    <3> HIDE DEF k, r, b
    <3>2. Placed(Past(c, Len(w)), R, T) /\ Advanced(c, Past(c, Len(w)), Len(w))
      BY ONLY <2>1, <1>3, <3>1, PastIs, Zenon
    <3>3. Len(w) \in Nat /\ Len(R) \in Nat /\ Len(w) + Len(R) <= c.rem /\ c.rem \in Nat
      BY ONLY <2>1, <1>3, <3>1, PastIs
    <3>4. c.buf \o c.stream = w \o (R \o T)
      <4>1. c.buf \o c.stream = (w \o R) \o T
        BY <1>3, Zenon DEF Placed
      <4>2. (w \o R) \o T = w \o (R \o T)
        BY ONLY <2>1, <3>1, Associate, SMTT(30)
      <4> QED BY ONLY <4>1, <4>2, Zenon
    <3> QED BY <3>2, <3>3, <3>4
  <2> QED BY <2>2
<1> HIDE DEF k, b, r
<1>5. LengthEnd(b) = k /\ LengthValue(b, k) = n
  BY <1>2, <1>4
<1>6. k # 0 /\ k <= c.rem
  BY <1>2, <1>4, SMT
<1>7. TakeVariable(c) = Took(Past(c, k), n)
  BY <1>5, <1>6, Zenon DEF TakeVariable, b
<1> QED BY <1>4, <1>7, Zenon DEF k, w

\* What a read took.
LEMMA TookIs ==
  ASSUME NEW d, NEW v
  PROVE  Took(d, v).status = "ok" /\ Took(d, v).cursor = d /\ Took(d, v).value = v
BY DEF Took

\* A pair of texts is taken.
LEMMA PairBody ==
  ASSUME NEW c, NEW s \in Strings, NEW t \in Strings, NEW R \in Seq(Byte), NEW T \in Seq(Byte),
         Placed(c, (Text(s) \o Text(t)) \o R, T), Fits(c, Len(Text(s) \o Text(t)))
  PROVE  \E e : /\ Then(TakeText(c), TakePairValue) = Took(e, <<s, t>>)
                /\ Placed(e, R, T) /\ Advanced(c, e, Len(Text(s) \o Text(t)))
<1> DEFINE x == Text(s)
           y == Text(t)
           A == y \o R
<1>1. x \in Seq(Byte) /\ y \in Seq(Byte)
  BY TextIs
<1>2. Len(x \o y) = Len(x) + Len(y) /\ Len(x) \in Nat /\ Len(y) \in Nat /\ A \in Seq(Byte)
  BY <1>1, OfJoined
<1>3. (x \o y) \o R = x \o A
  <2>1. R \in Seq(Byte)
    OBVIOUS
  <2> HIDE DEF x, y
  <2> QED BY ONLY <1>1, <2>1, Associate, SMTT(30)
<1>4. Placed(c, x \o A, T) /\ Fits(c, Len(x) + Len(y))
  BY <1>2, <1>3
<1> HIDE DEF A
<1>5. c.rem \in Nat /\ c.buf \in Seq(Byte)
  BY Zenon DEF Placed
<1>6. Fits(c, Len(x))
  <2> DEFINE k == Len(x)
             l == Len(y)
             b == Len(c.buf)
  <2>1. b \in Nat /\ k \in Nat /\ l \in Nat
    BY <1>2, <1>5, LenProperties
  <2>2. c.buf = <<>> \/ k + l <= b
    BY <1>4, Zenon DEF Fits
  <2> HIDE DEF k, l, b
  <2>3. c.buf = <<>> \/ k <= b
    BY <2>1, <2>2, SMT
  <2> QED BY <2>3 DEF Fits, k, b
<1>7. PICK d : TakeText(c) = Took(d, s) /\ Placed(d, A, T) /\ Advanced(c, d, Len(x))
  BY <1>2, <1>4, <1>6, TakesText, Zenon
<1>8. Placed(d, y \o R, T) /\ d.buf \in Seq(Byte) /\ d.rem \in Nat
  BY <1>7, Zenon DEF A, Placed
<1>9. Fits(d, Len(y))
  <2> DEFINE k == Len(x)
             l == Len(y)
             b == Len(c.buf)
             e == Len(d.buf)
  <2>1. b \in Nat /\ k \in Nat /\ l \in Nat
    BY <1>2, <1>5, LenProperties
  <2>2. b = 0 \/ k + l <= b
    BY <1>4, <1>5, EmptyIs, Zenon DEF Fits
  <2>3. e = IF k <= b THEN b - k ELSE 0
    BY <1>7, Zenon DEF Advanced
  <2>4. e = 0 => d.buf = <<>>
    BY <1>8, EmptyIs, Zenon
  <2> HIDE DEF k, l, b, e
  <2>5. e = 0 \/ l <= e
    BY <2>1, <2>2, <2>3, SMT
  <2> QED BY <2>4, <2>5 DEF Fits, l, e
<1>10. PICK e : TakeText(d) = Took(e, t) /\ Placed(e, R, T) /\ Advanced(d, e, Len(y))
  BY <1>8, <1>9, TakesText, Zenon
<1>11. Advanced(c, e, Len(x) + Len(y))
  <2> HIDE DEF x, y
  <2> QED BY <1>2, <1>4, <1>5, <1>7, <1>8, <1>10, OneAfterAnother
<1>14. Took(e, t).status = "ok" /\ Took(e, t).cursor = e /\ Took(e, t).value = t
  BY TookIs
<1>15. Took(d, s).status = "ok" /\ Took(d, s).cursor = d /\ Took(d, s).value = s
  BY TookIs
<1>12. TakePairValue(d, s) = Took(e, <<s, t>>)
  BY <1>10, <1>14, OnlyOne, Zenon DEF Then, TakePairValue
<1>13. Then(TakeText(c), TakePairValue) = Took(e, <<s, t>>)
  BY <1>7, <1>12, <1>15, OnlyOne, Zenon DEF Then
<1> QED BY <1>2, <1>10, <1>11, <1>13, Zenon

\* The value of a property.
LEMMA TakesPropertyBody ==
  ASSUME NEW c, NEW q \in PropertyValues, NEW R \in Seq(Byte), NEW T \in Seq(Byte),
         Placed(c, ValueBytes(q) \o R, T), Fits(c, Len(ValueBytes(q))),
         NEW rest \in Nat, Len(ValueBytes(q)) <= rest
  PROVE  \E e : /\ TakePropertyBody(c, q.id, rest) = Took(e, q.val)
                /\ Placed(e, R, T) /\ Advanced(c, e, Len(ValueBytes(q)))
<1> DEFINE b == ValueBytes(q)
           i == q.id
           size == NumberSize(i)
<1>1. b \in Seq(Byte) /\ Len(b) \in Nat /\ Len(b) >= 1
  BY PropertyIs
<1>2. rest # 0
  <2> HIDE DEF b
  <2> QED BY <1>1, SMT DEF b
<1>3. IsText(q) \/ IsVariable(q) \/ IsPair(q) \/ IsNumber(q)
  BY PropertySorts
<1>4. CASE IsText(q)
  <2>1. i \in TextIds /\ q.val \in Strings
    BY <1>4, Zenon DEF IsText
  <2>2. b = Text(q.val)
    BY <2>1, Zenon DEF ValueBytes
  <2>3. TakePropertyBody(c, i, rest) = TakeText(c)
    BY <1>2, <2>1, IdsApart, Zenon DEF TakePropertyBody
  <2> DEFINE s == q.val
  <2> HIDE DEF s
  <2>4. s \in Strings /\ Placed(c, Text(s) \o R, T) /\ Fits(c, Len(Text(s))) /\ b = Text(s)
    BY <2>1, <2>2 DEF s
  <2>5. \E e : TakeText(c) = Took(e, s) /\ Placed(e, R, T) /\ Advanced(c, e, Len(Text(s)))
    BY <2>4, TakesText, Zenon
  <2> QED BY <2>3, <2>4, <2>5, Zenon DEF s
<1>5. CASE IsVariable(q)
  <2>1. i \notin TextIds /\ i \in VariableIds /\ q.val \in Nat /\ q.val < LengthLimit
    BY <1>5, Zenon DEF IsVariable
  <2>2. b = VarBytes(q.val)
    BY <2>1, Zenon DEF ValueBytes
  <2>3. TakePropertyBody(c, i, rest) = TakeVariable(c)
    BY <1>2, <2>1, IdsApart, Zenon DEF TakePropertyBody
  <2> DEFINE s == q.val
  <2> HIDE DEF s
  <2>4. s \in Nat /\ s < LengthLimit /\ Placed(c, VarBytes(s) \o R, T) /\ b = VarBytes(s)
    BY <2>1, <2>2 DEF s
  <2>5. \E e : TakeVariable(c) = Took(e, s) /\ Placed(e, R, T) /\ Advanced(c, e, Len(VarBytes(s)))
    BY <2>4, TakesVariable, Zenon
  <2> QED BY <2>3, <2>4, <2>5, Zenon DEF s
<1>6. CASE IsPair(q)
  <2>1. /\ i \notin TextIds /\ i \notin VariableIds /\ i \in PairIds
        /\ q.val[1] \in Strings /\ q.val[2] \in Strings /\ q.val = <<q.val[1], q.val[2]>>
    BY <1>6, Zenon DEF IsPair
  <2>2. b = Text(q.val[1]) \o Text(q.val[2])
    BY <2>1, Zenon DEF ValueBytes
  <2> DEFINE body == Then(TakeText(c), TakePairValue)
  <2>3. TakePropertyBody(c, i, rest) = body
    BY <1>2, <2>1, IdsApart, Zenon DEF TakePropertyBody
  <2> DEFINE s == q.val[1]
             t == q.val[2]
  <2> HIDE DEF s, t
  <2>4. /\ s \in Strings /\ t \in Strings /\ Placed(c, (Text(s) \o Text(t)) \o R, T)
        /\ Fits(c, Len(Text(s) \o Text(t))) /\ b = Text(s) \o Text(t) /\ q.val = <<s, t>>
    BY <2>1, <2>2 DEF s, t
  <2>5. \E e : /\ body = Took(e, <<s, t>>) /\ Placed(e, R, T)
               /\ Advanced(c, e, Len(Text(s) \o Text(t)))
    BY <2>4, PairBody, Zenon
  <2> HIDE DEF body
  <2> QED BY <2>3, <2>4, <2>5, Zenon
<1>7. CASE IsNumber(q)
  <2>1. /\ i \notin TextIds /\ i \notin VariableIds /\ i \notin PairIds
        /\ BigEndian(q.val, size) \in Seq(Byte) /\ Len(BigEndian(q.val, size)) = size
        /\ Number(BigEndian(q.val, size)) = q.val
    BY <1>7, Zenon DEF IsNumber
  <2>2. b = BigEndian(q.val, size)
    BY <2>1, Zenon DEF ValueBytes
  <2> HIDE DEF size, b
  <2>3. ~(rest < size)
    <3>1. size = Len(b) /\ Len(b) <= rest
      BY <2>1, <2>2 DEF b
    <3> QED BY <1>1, <3>1, SMT
  <2>4. Placed(c, b \o R, T) /\ Fits(c, Len(b))
    BY DEF b
  <2>5. TakeBytes(c, Len(b)) = Took(Past(c, Len(b)), b)
    BY <1>1, <2>4, TakesBytes, Zenon
  <2>6. Placed(Past(c, Len(b)), R, T) /\ Advanced(c, Past(c, Len(b)), Len(b))
    BY <1>1, <2>4, PastIs, Zenon
  <2> DEFINE d == Past(c, Len(b))
  <2> HIDE DEF d
  <2>7. TakeBytes(c, size) = Took(d, b) /\ Number(b) = q.val
    BY <2>1, <2>2, <2>5 DEF d
  <2>9. Took(d, b).status = "ok" /\ Took(d, b).cursor = d /\ Took(d, b).value = b
    BY TookIs
  <2>10. TakePropertyBody(c, i, rest) = Then(TakeBytes(c, size), LAMBDA f, bytes : Took(f, Number(bytes)))
    BY <1>2, <2>1, <2>3, Zenon DEF TakePropertyBody, size
  <2>8. TakePropertyBody(c, i, rest) = Took(d, q.val)
    BY <2>7, <2>9, <2>10, OnlyOne, Zenon DEF Then
  <2> QED BY <2>6, <2>8, Zenon DEF d, b
<1> QED BY <1>3, <1>4, <1>5, <1>6, <1>7

\* Only what is left of the properties changes.
LEMMA LeftChanges ==
  ASSUME NEW c, NEW R, NEW T, Placed(c, R, T), NEW m \in Nat
  PROVE  /\ Placed([c EXCEPT !.left = m], R, T)
         /\ [c EXCEPT !.left = m].left = m /\ [c EXCEPT !.left = m].rem = c.rem
         /\ [c EXCEPT !.left = m].buf = c.buf /\ [c EXCEPT !.left = m].stream = c.stream
<1> DEFINE s == c.stream
           b == c.buf
           r == c.rem
           l == c.left
           d == [c EXCEPT !.left = m]
<1>1. c = [stream |-> s, buf |-> b, rem |-> r, left |-> l]
  BY Zenon DEF Placed
<1>2. /\ s \in Seq(Byte) /\ b \in Seq(Byte) /\ r \in Nat /\ b \o s = R \o T
      /\ Len(b) <= Len(R) /\ Len(R) <= r /\ Len(R) < LengthLimit
  BY Zenon DEF Placed
<1> HIDE DEF s, b, r, l
<1>3. d = [stream |-> s, buf |-> b, rem |-> r, left |-> m]
  BY ONLY <1>1, LeftIs
<1> HIDE DEF d
<1>4. d.stream = s /\ d.buf = b /\ d.rem = r /\ d.left = m
  BY <1>3
<1>5. Placed(d, R, T)
  BY <1>2, <1>3, <1>4, Zenon DEF Placed
<1> QED BY <1>4, <1>5 DEF d, s, b, r

\* The next block of n bytes.
Opened(c, n) == [[c EXCEPT !.stream = Behind(@, n)] EXCEPT !.buf = First(c.stream, n)]

\* Reading a block ahead leaves what is to be read the same.
LEMMA BlockOpened ==
  ASSUME NEW c, NEW Q \in Seq(Byte), NEW R \in Seq(Byte), NEW T \in Seq(Byte), Placed(c, Q \o R, T),
         c.buf = <<>>, NEW n \in 1..Len(Q)
  PROVE  /\ Placed(Opened(c, n), Q \o R, T) /\ Opened(c, n).rem = c.rem /\ Opened(c, n).left = c.left
         /\ Len(Opened(c, n).buf) = n /\ ~(Len(c.stream) < n)
<1> DEFINE s == c.stream
           b == c.buf
           r == c.rem
           l == c.left
           A == Q \o R
           x == First(s, n)
           y == Behind(s, n)
           d == [c EXCEPT !.stream = y]
           e == Opened(c, n)
<1>1. /\ c = [stream |-> s, buf |-> b, rem |-> r, left |-> l]
      /\ s \in Seq(Byte) /\ b \in Seq(Byte) /\ r \in Nat /\ l \in Nat /\ b \o s = A \o T
      /\ Len(A) <= r /\ Len(A) < LengthLimit
  BY Zenon DEF Placed
<1>2. e = [d EXCEPT !.buf = x] /\ b = <<>>
  BY DEF Opened
<1>11. d = [c EXCEPT !.stream = y]
  OBVIOUS
<1>3. Len(A) = Len(Q) + Len(R) /\ Len(Q) \in Nat /\ Len(R) \in Nat /\ A \in Seq(Byte)
  BY OfJoined
<1>4. n \in 0..Len(s) /\ ~(Len(s) < n) /\ n <= Len(A) /\ s = A \o T
  <2> HIDE DEF A, s, b
  <2>1. s = A \o T
    BY <1>1, <1>2, WiredEmpty, Zenon
  <2>2. Len(A \o T) = Len(A) + Len(T) /\ Len(T) \in Nat
    BY <1>3, OfJoined
  <2>3. Len(s) = Len(A) + Len(T)
    BY <2>1, <2>2, Zenon
  <2> QED BY <1>3, <2>1, <2>2, <2>3, SMT
<1>5. x \in Seq(Byte) /\ y \in Seq(Byte) /\ x \o y = s /\ Len(x) = n
  <2> HIDE DEF s
  <2> QED BY <1>1, <1>4, FirstBehind, ZenonT(60)
<1> HIDE DEF s, b, r, l, x, y, A, d, e
<1>6. d = [stream |-> y, buf |-> b, rem |-> r, left |-> l]
  BY <1>1, <1>11, StreamIs, Zenon
<1>10. e = [d EXCEPT !.buf = x]
  BY <1>2
<1>7. e = [stream |-> y, buf |-> x, rem |-> r, left |-> l]
  BY ONLY <1>6, <1>10, BufIs
<1>8. e.stream = y /\ e.buf = x /\ e.rem = r /\ e.left = l
  BY ONLY <1>7
<1>9. Placed(e, A, T)
  BY <1>1, <1>4, <1>5, <1>7, <1>8, Zenon DEF Placed
<1> QED BY <1>4, <1>5, <1>8, <1>9 DEF A, s, r, l, e

\* The cursor e behind the length of the properties, of which there is a block.
BlockTaken(c, e, props, R, T) ==
  /\ TakePropertiesLength(c) = Took(e, Len(PropertyBytes(props)))
  /\ Placed(e, PropertyBytes(props) \o R, T)
  /\ e.rem = c.rem - Len(VarBytes(Len(PropertyBytes(props)))) /\ e.left = Len(PropertyBytes(props))
  /\ \/ /\ Len(e.buf) # 0
        /\ Len(VarBytes(Len(PropertyBytes(props)))) <= Len(c.buf)
        /\ Len(e.buf) = Len(c.buf) - Len(VarBytes(Len(PropertyBytes(props))))
     \/ Len(PropertyBytes(props)) # 0 /\ Len(e.buf) \in {1, Len(PropertyBytes(props))}
     \/ Len(PropertyBytes(props)) = 0 /\ Len(e.buf) = 0

\* The length of the properties, and the block that is read ahead of them.
LEMMA TakesPropertiesLength ==
  ASSUME NEW c, NEW props \in Seq(PropertyValues), NEW R \in Seq(Byte), NEW T \in Seq(Byte),
         Placed(c, Properties(props) \o R, T), propsLimit \in Nat
  PROVE  \E e : BlockTaken(c, e, props, R, T)
<1> DEFINE Q == PropertyBytes(props)
           n == Len(Q)
           w == VarBytes(n)
           A == Q \o R
           k == Len(w)
<1>1. Properties(props) = w \o Q /\ Q \in Seq(Byte) /\ n \in Nat
  BY WiredProperties
<1> HIDE DEF Q
<1>2. w \in Seq(Byte) /\ k \in Nat
  <2> HIDE DEF n
  <2> QED BY <1>1, LengthType, LenProperties
<1>3. Properties(props) \o R = w \o A /\ A \in Seq(Byte) /\ Len(A) = n + Len(R) /\ Len(R) \in Nat
  <2>1. w \in Seq(Byte) /\ Q \in Seq(Byte) /\ R \in Seq(Byte)
    BY <1>1, <1>2
  <2> HIDE DEF w
  <2>2. (w \o Q) \o R = w \o (Q \o R)
    BY ONLY <2>1, AssociateBytes, SMTT(30)
  <2> QED BY <1>1, <2>1, <2>2, OfJoined, Zenon
<1>4. Placed(c, w \o A, T)
  BY <1>3
<1>5. n < LengthLimit
  <2>1. k + Len(A) < LengthLimit /\ Len(A) \in Nat
    <3> HIDE DEF w, A
    <3> QED BY <1>2, <1>3, <1>4, PastIs
  <2> HIDE DEF n, k, A, w
  <2> QED BY <1>1, <1>2, <1>3, <2>1, LimitIs, SMT
<1>6. PICK d : TakeVariable(c) = Took(d, n) /\ Placed(d, A, T) /\ Advanced(c, d, k)
  <2> HIDE DEF n, A
  <2> QED BY <1>1, <1>3, <1>4, <1>5, TakesVariable, Zenon
<1>7. Took(d, n).status = "ok" /\ Took(d, n).cursor = d /\ Took(d, n).value = n
  BY TookIs
<1>8. TakePropertiesLength(c) = OpenProperties(d, n)
  BY <1>6, <1>7, OnlyOne, Zenon DEF TakePropertiesLength, Then
<1>9. c.buf \in Seq(Byte) /\ d.buf \in Seq(Byte) /\ d.rem \in Nat /\ Len(A) <= d.rem
  BY <1>4, <1>6, Zenon DEF Placed
<1>10. d.rem = c.rem - k /\ Len(d.buf) = IF k <= Len(c.buf) THEN Len(c.buf) - k ELSE 0
  BY <1>6, Zenon DEF Advanced
<1> DEFINE o == [d EXCEPT !.left = n]
<1>11. /\ Placed(o, A, T) /\ o.left = n /\ o.rem = d.rem /\ o.buf = d.buf /\ o.stream = d.stream
  <2> HIDE DEF A, n
  <2> QED BY <1>1, <1>6, LeftChanges
<1>12. ~(n > d.rem)
  <2> HIDE DEF n, A
  <2> QED BY <1>1, <1>3, <1>9, SMT
<1>13. Len(c.buf) \in Nat /\ Len(d.buf) \in Nat
  BY <1>9, LenProperties
<1> HIDE DEF n, w, k, A, o
<1>14. CASE n = 0 \/ d.buf # <<>>
  <2>1. OpenProperties(d, n) = Took(o, n)
    BY <1>12, <1>14, Zenon DEF OpenProperties, o
  <2>2. d.buf # <<>> => Len(d.buf) # 0
    BY <1>9, EmptyIs, Zenon
  <2>3. d.buf = <<>> => Len(d.buf) = 0
    BY <1>9, EmptyIs, Zenon
  <2>4. Len(d.buf) # 0 => k <= Len(c.buf) /\ Len(d.buf) = Len(c.buf) - k
    BY <1>10, Zenon
  <2>5. \/ Len(o.buf) # 0 /\ k <= Len(c.buf) /\ Len(o.buf) = Len(c.buf) - k
        \/ n # 0 /\ Len(o.buf) \in {1, n}
        \/ n = 0 /\ Len(o.buf) = 0
    BY <1>11, <1>14, <2>2, <2>3, <2>4, Zenon
  <2>6. TakePropertiesLength(c) = Took(o, n) /\ Placed(o, A, T) /\ o.rem = c.rem - k /\ o.left = n
    BY <1>8, <1>10, <1>11, <2>1, Zenon
  <2>7. BlockTaken(c, o, props, R, T)
    BY <2>5, <2>6, Zenon DEF BlockTaken, k, w, n, A, Q
  <2> QED BY <2>7
<1>15. CASE n # 0 /\ d.buf = <<>>
  <2> DEFINE size == IF n < propsLimit THEN n ELSE 1
             f == [o EXCEPT !.stream = Behind(@, size)]
             x == First(o.stream, size)
             e == [f EXCEPT !.buf = x]
  <2>1. OpenProperties(d, n) = Then(FromStream(o, size), LAMBDA g, block : Took([g EXCEPT !.buf = block], n))
    BY <1>12, <1>15, Zenon DEF OpenProperties, o
  <2>2. size \in 1..n
    BY <1>1, <1>15, SMT DEF n
  <2>3. size \in {1, n}
    BY Zenon
  <2> HIDE DEF size
  <2>4. /\ Placed(e, A, T) /\ e.rem = o.rem /\ e.left = o.left /\ Len(e.buf) = size
        /\ ~(Len(o.stream) < size)
    <3>1. e = Opened(o, size)
      BY DEF Opened
    <3>2. Placed(o, Q \o R, T) /\ o.buf = <<>> /\ size \in 1..Len(Q) /\ Q \in Seq(Byte)
      BY <1>1, <1>11, <1>15, <2>2 DEF A, n
    <3>3. R \in Seq(Byte) /\ T \in Seq(Byte)
      OBVIOUS
    <3> HIDE DEF f, e, x
    <3>4. /\ Placed(e, Q \o R, T) /\ e.rem = o.rem /\ e.left = o.left /\ Len(e.buf) = size
          /\ ~(Len(o.stream) < size)
      <4>1. /\ Placed(Opened(o, size), Q \o R, T) /\ Opened(o, size).rem = o.rem
            /\ Opened(o, size).left = o.left /\ Len(Opened(o, size).buf) = size
            /\ ~(Len(o.stream) < size)
        BY ONLY <3>2, <3>3, BlockOpened, SMTT(30)
      <4> QED BY <3>1, <4>1
    <3> QED BY <3>4 DEF A
  <2> HIDE DEF x
  <2>5. FromStream(o, size) = Took(f, x)
    BY <2>4, Zenon DEF FromStream, x
  <2> HIDE DEF f
  <2>6. Took(f, x).status = "ok" /\ Took(f, x).cursor = f /\ Took(f, x).value = x
    BY TookIs
  <2>7. OpenProperties(d, n) = Took(e, n)
    BY <2>1, <2>5, <2>6, OnlyOne, Zenon DEF Then
  <2> HIDE DEF e
  <2>8. e.rem = c.rem - k /\ e.left = n /\ n # 0 /\ Len(e.buf) \in {1, n}
    BY <1>10, <1>11, <1>15, <2>3, <2>4
  <2>9. TakePropertiesLength(c) = Took(e, n) /\ Placed(e, A, T)
    BY <1>8, <2>4, <2>7, Zenon
  <2>10. BlockTaken(c, e, props, R, T)
    BY <2>8, <2>9, Zenon DEF BlockTaken, k, w, n, A, Q
  <2> QED BY <2>10
<1> QED BY <1>14, <1>15

\* When the block holds n bytes.
LEMMA FitsIs ==
  ASSUME NEW c, NEW n, c.buf \in Seq(Byte)
  PROVE  Fits(c, n) <=> (Len(c.buf) = 0 \/ n <= Len(c.buf))
<1>1. c.buf = <<>> <=> Len(c.buf) = 0
  BY EmptyIs, Zenon
<1> QED BY <1>1, Zenon DEF Fits

\* The cursor e behind the property q.
PropertyTaken(c, e, q, R, T) ==
  /\ TakeProperty(c) = Took(e, q) /\ Placed(e, R, T)
  /\ e.rem = c.rem - Len(Property(q).bytes) /\ e.left = c.left - Len(Property(q).bytes)
  /\ Len(e.buf) = IF Len(Property(q).bytes) <= Len(c.buf)
                  THEN Len(c.buf) - Len(Property(q).bytes) ELSE 0

\* The next property is taken: a fixed part from the block, a length across its end.
LEMMA TakesProperty ==
  ASSUME NEW c, NEW q \in PropertyValues, NEW R \in Seq(Byte), NEW T \in Seq(Byte),
         Placed(c, Property(q).bytes \o R, T), Len(Property(q).bytes) <= c.left,
         Len(c.buf) \in {0, 1} \/ Len(Property(q).bytes) <= Len(c.buf)
  PROVE  \E e : PropertyTaken(c, e, q, R, T)
<1> DEFINE B == Property(q).bytes
           b == ValueBytes(q)
           l == Len(b)
           i == q.id
           X == <<i>>
           A == b \o R
           k == [c EXCEPT !.rem = @ - 1]
           d == Past(c, 1)
<1>1. /\ B = X \o b /\ b \in Seq(Byte) /\ l \in Nat /\ l >= 1 /\ Len(B) = 1 + l
  BY PropertyIs
<1>2. i \in Byte /\ q = [id |-> i, val |-> q.val]
  BY PropertySorts
<1>3. X \in Seq(Byte) /\ Len(X) = 1 /\ X[1] = i
  <2> HIDE DEF i
  <2> QED BY <1>2, IsOneSeq
<1> HIDE DEF B, b, i, X
<1>4. B \o R = X \o A /\ A \in Seq(Byte)
  <2>1. X \in Seq(Byte) /\ b \in Seq(Byte) /\ R \in Seq(Byte)
    BY <1>1, <1>3
  <2>2. (X \o b) \o R = X \o (b \o R)
    BY ONLY <2>1, Associate, SMTT(30)
  <2> QED BY <1>1, <2>1, <2>2, OfJoined, Zenon
<1>5. Placed(c, X \o A, T) /\ c.rem \in Nat /\ c.left \in Nat /\ c.buf \in Seq(Byte)
  BY <1>4, Zenon DEF B, Placed
<1> HIDE DEF A
<1>6. /\ Placed(d, A, T) /\ Advanced(c, d, 1)
  <2>1. Placed(Past(c, Len(X)), A, T) /\ Advanced(c, Past(c, Len(X)), Len(X))
    BY <1>3, <1>4, <1>5, PastIs, Zenon
  <2> QED BY <1>3, <2>1
<1>7. Len(c.buf) \in {0, 1} \/ 1 + l <= Len(c.buf)
  BY <1>1 DEF B
<1>8. Len(c.buf) \in Nat
  BY <1>5, LenProperties
<1>9. Fits(c, Len(X))
  <2>1. Len(c.buf) = 0 \/ Len(X) <= Len(c.buf)
    <3> DEFINE u == Len(c.buf)
    <3> HIDE DEF u, l
    <3>1. u = 0 \/ 1 <= u
      BY <1>1, <1>7, <1>8, SMT DEF u
    <3> QED BY <1>3, <3>1 DEF u
  <2> QED BY <1>5, <2>1, FitsIs, Zenon
<1>10. (IF c.buf = <<>> THEN FromStream(k, 1) ELSE FromBlock(k, 1)) = Took(d, X)
  <2> DEFINE m == [c EXCEPT !.rem = @ - Len(X)]
  <2>1. m = k
    BY <1>3
  <2> HIDE DEF m
  <2>2. m = [c EXCEPT !.rem = @ - Len(X)]
    BY DEF m
  <2>3. (IF c.buf = <<>> THEN FromStream(m, Len(X)) ELSE FromBlock(m, Len(X))) = Took(Past(c, Len(X)), X)
    BY <1>3, <1>4, <1>5, <1>9, <2>2, TakeEither
  <2> QED BY <1>3, <2>1, <2>3
<1>11. d.buf \in Seq(Byte) /\ d.rem \in Nat
  BY <1>6, Zenon DEF Placed
<1>12. /\ d.rem = c.rem - 1 /\ d.left = c.left
       /\ Len(d.buf) = IF 1 <= Len(c.buf) THEN Len(c.buf) - 1 ELSE 0
  BY <1>6, Zenon DEF Advanced
<1> DEFINE rest == c.left - 1
<1>13. rest \in Nat /\ l <= rest
  <2>1. 1 + l <= c.left
    BY <1>1 DEF B
  <2> HIDE DEF l
  <2> QED BY <1>1, <1>5, <2>1, SMT
<1>14. Fits(d, l)
  <2>1. Len(d.buf) = 0 \/ l <= Len(d.buf)
    <3> DEFINE u == Len(c.buf)
               x == Len(d.buf)
    <3>1. /\ u \in {0, 1} \/ 1 + l <= u
          /\ u \in Nat /\ l \in Nat /\ l >= 1 /\ x = IF 1 <= u THEN u - 1 ELSE 0
      BY <1>1, <1>7, <1>8, <1>12
    <3> HIDE DEF u, l, x
    <3>2. x = 0 \/ l <= x
      BY ONLY <3>1
    <3> QED BY <3>2 DEF x
  <2> QED BY <1>11, <2>1, FitsIs, Zenon
<1> HIDE DEF d, k, rest
<1>15. PICK e : TakePropertyBody(d, i, rest) = Took(e, q.val) /\ Placed(e, R, T) /\ Advanced(d, e, l)
  <2>1. Placed(d, ValueBytes(q) \o R, T) /\ Fits(d, Len(ValueBytes(q))) /\ Len(ValueBytes(q)) <= rest
    BY <1>6, <1>13, <1>14 DEF A, b
  <2> QED BY <1>13, <2>1, TakesPropertyBody, Zenon DEF i, b
<1> DEFINE v == c.left - (c.rem - e.rem)
           f == [e EXCEPT !.left = v]
<1>16. /\ e.rem = d.rem - l
       /\ Len(e.buf) = IF l <= Len(d.buf) THEN Len(d.buf) - l ELSE 0
  BY <1>15, Zenon DEF Advanced
<1>17. e.rem = c.rem - (1 + l) /\ v = c.left - (1 + l) /\ v \in Nat
  <2>1. 1 + l <= c.left
    BY <1>1 DEF B
  <2> DEFINE cl == c.left
             cr == c.rem
             dr == d.rem
             er == e.rem
  <2>2. /\ 1 + l <= cl /\ cl \in Nat /\ cr \in Nat /\ dr \in Nat /\ l \in Nat
        /\ dr = cr - 1 /\ er = dr - l
    BY <1>1, <1>5, <1>11, <1>12, <1>16, <2>1
  <2> HIDE DEF l, cl, cr, dr, er
  <2>3. er = cr - (1 + l) /\ cl - (cr - er) = cl - (1 + l) /\ cl - (cr - er) \in Nat
    BY ONLY <2>2
  <2> QED BY <2>3 DEF cl, cr, er
<1>18. Len(e.buf) = IF 1 + l <= Len(c.buf) THEN Len(c.buf) - (1 + l) ELSE 0
  <2> DEFINE u == Len(c.buf)
             x == Len(d.buf)
             y == Len(e.buf)
  <2>1. /\ u \in {0, 1} \/ 1 + l <= u
        /\ u \in Nat /\ l \in Nat /\ l >= 1 /\ x = IF 1 <= u THEN u - 1 ELSE 0
        /\ y = IF l <= x THEN x - l ELSE 0
    BY <1>1, <1>7, <1>8, <1>12, <1>16
  <2> HIDE DEF u, l, x, y
  <2>2. y = IF 1 + l <= u THEN u - (1 + l) ELSE 0
    BY ONLY <2>1
  <2> QED BY <2>2 DEF u, y
<1>19. Placed(f, R, T) /\ f.left = v /\ f.rem = e.rem /\ f.buf = e.buf
  <2> HIDE DEF v
  <2> QED BY <1>15, <1>17, LeftChanges
<1>20. Took(d, X).status = "ok" /\ Took(d, X).cursor = d /\ Took(d, X).value = X
  BY TookIs
<1>21. Took(e, q.val).status = "ok" /\ Took(e, q.val).cursor = e /\ Took(e, q.val).value = q.val
  BY TookIs
<1>22. TakePropertyOf(c, d, i) = Took(f, q)
  <2> HIDE DEF f
  <2> DEFINE t == TakePropertyBody(d, i, rest)
  <2>1. t.status = "ok" /\ t.cursor = e /\ t.value = q.val
    BY <1>15, <1>21, Zenon
  <2>2. TakePropertyOf(c, d, i)
          = Then(t, LAMBDA g, val : Took([g EXCEPT !.left = c.left - (c.rem - g.rem)], [id |-> i, val |-> val]))
    BY Zenon DEF TakePropertyOf, rest
  <2> HIDE DEF t
  <2> QED BY <1>2, <2>1, <2>2, OnlyOne, Zenon DEF Then, f
<1>23. TakeProperty(c) = Took(f, q)
  <2> DEFINE t == IF c.buf = <<>> THEN FromStream(k, 1) ELSE FromBlock(k, 1)
  <2>1. t.status = "ok" /\ t.cursor = d /\ t.value = X
    BY <1>10, <1>20, Zenon
  <2>2. TakeProperty(c) = Then(t, LAMBDA g, id : TakePropertyOf(c, g, id[1]))
    BY Zenon DEF TakeProperty, k
  <2> HIDE DEF t, f
  <2> QED BY <1>3, <1>22, <2>1, <2>2, OnlyOne, Zenon DEF Then
<1> HIDE DEF f
<1> QED BY <1>1, <1>17, <1>18, <1>19, <1>23, Zenon DEF B, PropertyTaken
=============================================================================
