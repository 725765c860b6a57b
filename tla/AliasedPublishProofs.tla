------------------------ MODULE AliasedPublishProofs ------------------------
(* Topic aliases, for any topics, any announced maxima and any connections:   *)
(* what the sender leaves out the receiver knows.                             *)
EXTENDS AliasedPublish, CollectionLemmas, SequenceTheorems

TableEntries == [alias : Nat \ {0}, topic : Topics]
Publishes == [topic : Topics \cup {None}, alias : Nat, id : Nat, about : Topics, early : BOOLEAN]

\* No alias and no topic twice.
Distinct(entries) ==
  \A m, n \in 1..Len(entries) :
    entries[m].alias = entries[n].alias \/ entries[m].topic = entries[n].topic => m = n

TableOk(t) ==
  /\ t \in [entries : Seq(TableEntries), vacant : SUBSET Nat, max : Nat]
  /\ t.vacant \subseteq 1..t.max
  /\ Distinct(t.entries)
  /\ \A n \in 1..Len(t.entries) : t.entries[n].alias \in (1..t.max) \ t.vacant
  /\ t.max > 0 => t.vacant # {} \/ t.entries # <<>>

-----------------------------------------------------------------------------
(* The table.                                                                *)
LEMMA Removed ==
  ASSUME NEW S, NEW s \in Seq(S), NEW i \in 1..Len(s)
  PROVE  /\ RemoveAt(s, i) \in Seq(S) /\ Len(RemoveAt(s, i)) = Len(s) - 1
         /\ \A n \in 1..(Len(s) - 1) :
              RemoveAt(s, i)[n] = (IF n < i THEN s[n] ELSE s[n + 1])
<1>1. /\ SubSeq(s, 1, i - 1) \in Seq(S) /\ Len(SubSeq(s, 1, i - 1)) = i - 1
      /\ \A n \in 1..(i - 1) : SubSeq(s, 1, i - 1)[n] = s[n]
  OBVIOUS
<1>2. /\ SubSeq(s, i + 1, Len(s)) \in Seq(S) /\ Len(SubSeq(s, i + 1, Len(s))) = Len(s) - i
      /\ \A n \in 1..(Len(s) - i) : SubSeq(s, i + 1, Len(s))[n] = s[n + i]
  OBVIOUS
<1> DEFINE front == SubSeq(s, 1, i - 1)
           back == SubSeq(s, i + 1, Len(s))
<1>3. RemoveAt(s, i) = front \o back /\ Len(s) \in Nat /\ i \in Nat
  BY DEF RemoveAt
<1>4. \A n \in 1..(i - 1) : front[n] = s[n]
  BY <1>1
<1>5. \A n \in 1..(Len(s) - i) : back[n] = s[n + i]
  BY <1>2
<1>6. front \in Seq(S) /\ back \in Seq(S) /\ Len(front) = i - 1 /\ Len(back) = Len(s) - i
  BY <1>1, <1>2
<1> HIDE DEF front, back
<1>7. /\ front \o back \in Seq(S) /\ Len(front \o back) = Len(s) - 1
      /\ \A n \in 1..(Len(s) - 1) :
           (front \o back)[n] = IF n <= i - 1 THEN front[n] ELSE back[n - (i - 1)]
  <2>1. Len(front) + Len(back) = Len(s) - 1
    BY <1>3, <1>6
  <2>2. /\ front \o back \in Seq(S)
        /\ Len(front \o back) = Len(front) + Len(back)
        /\ \A n \in 1..(Len(front) + Len(back)) :
             (front \o back)[n] = IF n <= Len(front) THEN front[n] ELSE back[n - Len(front)]
    BY <1>6, ConcatProperties, Zenon
  <2>3. Len(front) = i - 1
    BY <1>6
  <2> QED BY ONLY <2>1, <2>2, <2>3
<1>8. ASSUME NEW n \in 1..(Len(s) - 1)
      PROVE  (front \o back)[n] = (IF n < i THEN s[n] ELSE s[n + 1])
  <2>1. CASE n < i
    BY <1>3, <1>4, <1>7, <2>1
  <2>2. CASE ~(n < i)
    <3>1. n - (i - 1) \in 1..(Len(s) - i) /\ (n - (i - 1)) + i = n + 1
      BY <1>3, <2>2
    <3>2. back[n - (i - 1)] = s[n + 1]
      BY <1>5, <3>1
    <3> QED BY <1>3, <1>7, <2>2, <3>2
  <2> QED BY <2>1, <2>2
<1> HIDE DEF front, back
<1>9. /\ RemoveAt(s, i) \in Seq(S) /\ Len(RemoveAt(s, i)) = Len(s) - 1
  BY <1>3, <1>7
<1>10. \A n \in 1..(Len(s) - 1) : RemoveAt(s, i)[n] = (IF n < i THEN s[n] ELSE s[n + 1])
  BY ONLY <1>3, <1>8
<1> QED BY <1>9, <1>10

\* Entries of the table, of other aliases.
OthersOf(t, alias, s) ==
  /\ s \in Seq(TableEntries) /\ Distinct(s)
  /\ \A n \in 1..Len(s) : /\ s[n].alias # alias
                          /\ \E k \in 1..Len(t.entries) : s[n] = t.entries[k]

LEMMA WithoutAlias ==
  ASSUME NEW t, TableOk(t), NEW alias
  PROVE  OthersOf(t, alias, Without(t, alias))
<1> DEFINE entries == t.entries
<1>1. entries \in Seq(TableEntries) /\ Distinct(entries) /\ DOMAIN entries = 1..Len(entries)
      /\ Len(entries) \in Nat
  BY DEF TableOk
<1>2. CASE Named(t, alias) = {}
  <2>1. \A n \in 1..Len(entries) : entries[n].alias # alias
    BY <1>1, <1>2 DEF Named
  <2>2. Without(t, alias) = entries
    BY <1>2 DEF Without
  <2> HIDE DEF entries
  <2>3. OthersOf(t, alias, entries)
    BY <1>1, <2>1 DEF OthersOf, entries
  <2> QED BY <2>2, <2>3
<1>3. CASE Named(t, alias) # {}
  <2> DEFINE i == CHOOSE n \in Named(t, alias) : TRUE
  <2>1. i \in 1..Len(entries) /\ entries[i].alias = alias /\ Without(t, alias) = RemoveAt(entries, i)
    BY <1>1, <1>3 DEF Named, Without
  <2> HIDE DEF i, entries
  <2>2. /\ RemoveAt(entries, i) \in Seq(TableEntries) /\ Len(RemoveAt(entries, i)) = Len(entries) - 1
        /\ \A n \in 1..(Len(entries) - 1) :
              RemoveAt(entries, i)[n] = (IF n < i THEN entries[n] ELSE entries[n + 1])
    BY <1>1, <2>1, Removed
  <2>3. \A n \in 1..(Len(entries) - 1) : \E k \in 1..Len(entries) :
          k = (IF n < i THEN n ELSE n + 1) /\ k # i /\ RemoveAt(entries, i)[n] = entries[k]
    BY <1>1, <2>1, <2>2
  <2>4. Distinct(RemoveAt(entries, i))
    <3> SUFFICES ASSUME NEW m \in 1..(Len(entries) - 1), NEW n \in 1..(Len(entries) - 1),
                        LET e == RemoveAt(entries, i)[m] o == RemoveAt(entries, i)[n]
                        IN  e.alias = o.alias \/ e.topic = o.topic
                 PROVE  m = n
      BY <2>2 DEF Distinct
    <3>1. PICK k \in 1..Len(entries) : k = (IF m < i THEN m ELSE m + 1) /\ RemoveAt(entries, i)[m] = entries[k]
      BY <2>3
    <3>2. PICK l \in 1..Len(entries) : l = (IF n < i THEN n ELSE n + 1) /\ RemoveAt(entries, i)[n] = entries[l]
      BY <2>3
    <3>3. k = l
      BY <1>1, <3>1, <3>2 DEF Distinct
    <3> QED BY <1>1, <2>1, <3>1, <3>2, <3>3
  <2>5. \A n \in 1..(Len(entries) - 1) : RemoveAt(entries, i)[n].alias # alias
    BY <1>1, <2>1, <2>3 DEF Distinct
  <2> QED BY <2>1, <2>2, <2>3, <2>4, <2>5 DEF entries, OthersOf
<1> QED BY <1>2, <1>3

\* An entry behind the others.
LEMMA AppendedEntry ==
  ASSUME NEW s \in Seq(TableEntries), Distinct(s), NEW e \in TableEntries,
         \A n \in 1..Len(s) : s[n].alias # e.alias /\ s[n].topic # e.topic
  PROVE  /\ Append(s, e) \in Seq(TableEntries) /\ Distinct(Append(s, e)) /\ Append(s, e) # <<>>
         /\ \A n \in 1..Len(Append(s, e)) :
              (n \in 1..Len(s) /\ Append(s, e)[n] = s[n]) \/ Append(s, e)[n] = e
<1>1. /\ Append(s, e) \in Seq(TableEntries) /\ Len(Append(s, e)) = Len(s) + 1 /\ Len(s) \in Nat
      /\ Append(s, e)[Len(s) + 1] = e
      /\ \A n \in 1..(Len(s) + 1) : n \in 1..Len(s) \/ n = Len(s) + 1
      /\ \A n \in 1..Len(s) : Append(s, e)[n] = s[n]
  OBVIOUS
<1>2. Distinct(Append(s, e))
  BY <1>1 DEF Distinct
<1>3. Append(s, e) # <<>>
  BY <1>1
<1> QED BY <1>1, <1>2, <1>3

\* The table after an alias was given a topic: the entries of other aliases, and this one.
LEMMA Inserted ==
  ASSUME NEW t, TableOk(t), NEW topic \in Topics, NEW alias \in 1..t.max
  PROVE  /\ TableOk(InsertOrUpdate(t, topic, alias)) /\ InsertOrUpdate(t, topic, alias).max = t.max
         /\ \A n \in 1..Len(InsertOrUpdate(t, topic, alias).entries) :
              LET e == InsertOrUpdate(t, topic, alias).entries[n] IN
                \/ e = AliasEntry(alias, topic)
                \/ e.alias # alias /\ \E k \in 1..Len(t.entries) : e = t.entries[k]
<1>0. OthersOf(t, alias, Without(t, alias))
  BY WithoutAlias
<1> DEFINE others == Without(t, alias)
           elsewhere == \E n \in DOMAIN others : others[n].topic = topic
           new == AliasEntry(alias, topic)
           entries == IF elsewhere THEN others ELSE Append(others, new)
<1>1. others \in Seq(TableEntries) /\ Distinct(others) /\ DOMAIN others = 1..Len(others)
      /\ \A n \in 1..Len(others) : /\ others[n].alias # alias
                                   /\ \E k \in 1..Len(t.entries) : others[n] = t.entries[k]
  BY <1>0 DEF OthersOf
<1>2. t.max \in Nat /\ new \in TableEntries /\ new.alias = alias /\ new.topic = topic
  BY DEF TableOk, AliasEntry, TableEntries
<1>3. InsertOrUpdate(t, topic, alias) = [t EXCEPT !.vacant = t.vacant \ {alias}, !.entries = entries]
  BY DEF InsertOrUpdate
<1> HIDE DEF others, new
<1>4. /\ entries \in Seq(TableEntries) /\ Distinct(entries) /\ entries # <<>>
      /\ \A n \in 1..Len(entries) :
           entries[n] = new \/ (n \in 1..Len(others) /\ entries[n] = others[n])
  <2>1. CASE elsewhere
    BY <1>1, <2>1
  <2>2. CASE ~elsewhere
    BY <1>1, <1>2, <2>2, AppendedEntry
  <2> QED BY <2>1, <2>2
<1> HIDE DEF entries
<1> DEFINE u == InsertOrUpdate(t, topic, alias)
<1>a. /\ u \in [entries : Seq(TableEntries), vacant : SUBSET Nat, max : Nat]
      /\ u.entries = entries /\ u.vacant = t.vacant \ {alias} /\ u.max = t.max
  BY <1>3, <1>4 DEF TableOk
<1>5. \A n \in 1..Len(entries) :
        \/ entries[n] = new
        \/ entries[n].alias # alias /\ \E k \in 1..Len(t.entries) : entries[n] = t.entries[k]
  BY <1>1, <1>4
<1>6. \A n \in 1..Len(entries) : entries[n].alias \in (1..t.max) \ (t.vacant \ {alias})
  BY <1>2, <1>5 DEF TableOk
<1> HIDE DEF u
<1>7. TableOk(u)
  BY <1>2, <1>a, <1>4, <1>6 DEF TableOk
<1> QED BY <1>a, <1>5, <1>7 DEF u, new

LEMMA TouchedTable ==
  ASSUME NEW t, TableOk(t), NEW alias, Named(t, alias) # {}
  PROVE  /\ TableOk(Touched(t, alias)) /\ Touched(t, alias).max = t.max
         /\ \A n \in 1..Len(Touched(t, alias).entries) :
              \E k \in 1..Len(t.entries) : Touched(t, alias).entries[n] = t.entries[k]
<1>0. OthersOf(t, alias, Without(t, alias))
  BY WithoutAlias
<1> DEFINE others == Without(t, alias)
           i == CHOOSE n \in Named(t, alias) : TRUE
           e == t.entries[i]
           entries == Append(others, e)
<1>1. others \in Seq(TableEntries) /\ Distinct(others)
      /\ \A n \in 1..Len(others) : /\ others[n].alias # alias
                                   /\ \E k \in 1..Len(t.entries) : others[n] = t.entries[k]
  BY <1>0 DEF OthersOf
<1>2. t.entries \in Seq(TableEntries) /\ DOMAIN t.entries = 1..Len(t.entries) /\ Distinct(t.entries)
  BY DEF TableOk
<1>3. i \in 1..Len(t.entries) /\ e.alias = alias /\ e \in TableEntries
  BY <1>2 DEF Named
<1>4. Touched(t, alias) = [t EXCEPT !.entries = entries]
  BY DEF Touched
<1> HIDE DEF others, i
<1>5. \A n \in 1..Len(others) : others[n].alias # e.alias /\ others[n].topic # e.topic
  BY <1>1, <1>2, <1>3 DEF Distinct
<1> HIDE DEF e
<1>6. /\ entries \in Seq(TableEntries) /\ Distinct(entries) /\ entries # <<>>
      /\ \A n \in 1..Len(entries) :
           entries[n] = e \/ (n \in 1..Len(others) /\ entries[n] = others[n])
  BY <1>1, <1>3, <1>5, AppendedEntry
<1> HIDE DEF entries
<1>7. \A n \in 1..Len(entries) : \E k \in 1..Len(t.entries) : entries[n] = t.entries[k]
  BY <1>1, <1>3, <1>6 DEF e
<1> DEFINE u == Touched(t, alias)
<1>8. /\ u \in [entries : Seq(TableEntries), vacant : SUBSET Nat, max : Nat]
      /\ u.entries = entries /\ u.vacant = t.vacant /\ u.max = t.max
  BY <1>4, <1>6 DEF TableOk
<1> HIDE DEF u
<1>9. TableOk(u)
  BY <1>6, <1>7, <1>8 DEF TableOk
<1> QED BY <1>7, <1>8, <1>9 DEF u

LEMMA EmptyTableOk == ASSUME NEW max \in Nat PROVE TableOk(EmptyTable(max))
<1>1. max > 0 => 1 \in 1..max
  OBVIOUS
<1> QED BY <1>1 DEF TableOk, EmptyTable, Distinct

LEMMA LruAliasInUse ==
  ASSUME NEW t, TableOk(t), t.max > 0
  PROVE  LruAlias(t) \in 1..t.max
<1>1. CASE t.vacant # {}
  <2>1. t.vacant \in SUBSET (0..t.max) /\ t.max \in Nat
    BY DEF TableOk
  <2>2. \E a \in t.vacant : \A other \in t.vacant : a <= other
    BY <1>1, <2>1, LeastNumber
  <2> QED BY <1>1, <2>2 DEF LruAlias, TableOk
<1>2. CASE t.vacant = {}
  <2>1. t.entries \in Seq(TableEntries) /\ t.entries # <<>>
    BY <1>2 DEF TableOk
  <2>2. 1 \in 1..Len(t.entries) /\ Head(t.entries) = t.entries[1]
    BY <2>1
  <2> QED BY <1>2, <2>2 DEF LruAlias, TableOk
<1> QED BY <1>1, <1>2

-----------------------------------------------------------------------------
(* What an alias will mean, without a greatest number: the receiver has read *)
(* map m and the first k packets of w are still to come.                     *)
NamesTopic(w, n, a) == w[n].alias = a /\ w[n].topic # None

Means(w, m, k, a, t) ==
  \/ (\A n \in 1..k : ~NamesTopic(w, n, a)) /\ a \in DOMAIN m /\ m[a] = t
  \/ \E n \in 1..k : /\ NamesTopic(w, n, a) /\ w[n].topic = t
                     /\ \A j \in 1..k : NamesTopic(w, j, a) => j <= n

LEMMA AppendedPacket ==
  ASSUME NEW w \in Seq(Publishes), NEW p \in Publishes
  PROVE  /\ Append(w, p) \in Seq(Publishes) /\ Len(Append(w, p)) = Len(w) + 1 /\ Len(w) \in Nat
         /\ Append(w, p)[Len(w) + 1] = p
         /\ \A n \in 1..Len(w) : Append(w, p)[n] = w[n]
OBVIOUS

LEMMA MeansBefore ==
  ASSUME NEW w \in Seq(Publishes), NEW p \in Publishes, NEW m, NEW k \in 0..Len(w), NEW a, NEW t,
         Means(w, m, k, a, t)
  PROVE  Means(Append(w, p), m, k, a, t)
<1>1. \A n \in 1..k : n \in 1..Len(w)
  OBVIOUS
<1>2. \A n \in 1..k : Append(w, p)[n] = w[n]
  BY <1>1, AppendedPacket
<1> QED BY <1>2 DEF Means, NamesTopic

LEMMA MeansNamed ==
  ASSUME NEW w \in Seq(Publishes), NEW p \in Publishes, NEW m, p.topic # None
  PROVE  Means(Append(w, p), m, Len(w) + 1, p.alias, p.topic)
<1> DEFINE v == Append(w, p)
           k == Len(w) + 1
<1>1. k \in Nat /\ k \in 1..k /\ v[k] = p
  BY AppendedPacket
<1> HIDE DEF v, k
<1>2. NamesTopic(v, k, p.alias) /\ v[k].topic = p.topic /\ \A j \in 1..k : j <= k
  BY <1>1 DEF NamesTopic
<1>3. Means(v, m, k, p.alias, p.topic)
  BY <1>1, <1>2 DEF Means
<1> QED BY <1>3 DEF v, k

LEMMA MeansStill ==
  ASSUME NEW w \in Seq(Publishes), NEW p \in Publishes, NEW m, NEW a, NEW t,
         Means(w, m, Len(w), a, t), p.topic = None \/ p.alias # a
  PROVE  Means(Append(w, p), m, Len(w) + 1, a, t)
<1> DEFINE v == Append(w, p)
           k == Len(w) + 1
<1>1. /\ Len(w) \in Nat /\ k = Len(w) + 1 /\ v[k] = p
      /\ \A n \in 1..Len(w) : v[n] = w[n]
  BY AppendedPacket
<1> HIDE DEF v, k
<1>2. \A n \in 1..k : NamesTopic(v, n, a) => n \in 1..Len(w) /\ NamesTopic(w, n, a)
  <2> SUFFICES ASSUME NEW n \in 1..k, NamesTopic(v, n, a)
               PROVE  n \in 1..Len(w) /\ NamesTopic(w, n, a)
    OBVIOUS
  <2>1. n # k
    BY <1>1 DEF NamesTopic
  <2>2. n \in 1..Len(w)
    BY <1>1, <2>1
  <2> QED BY <1>1, <2>2 DEF NamesTopic
<1>3. \A n \in 1..Len(w) : NamesTopic(w, n, a) => n \in 1..k /\ NamesTopic(v, n, a) /\ v[n] = w[n]
  BY <1>1 DEF NamesTopic
<1>4. Means(v, m, k, a, t)
  BY <1>2, <1>3 DEF Means
<1> QED BY <1>4 DEF v, k

\* The receiver reads the first packet.
AfterHead(w, m) ==
  IF w[1].topic # None /\ w[1].alias # 0 THEN Learned(m, w[1].topic, w[1].alias) ELSE m

LEMMA MeansRead ==
  ASSUME NEW w \in Seq(Publishes), w # <<>>, NEW m, NEW k \in 1..Len(w), NEW a, a # 0, NEW t,
         Means(w, m, k, a, t)
  PROVE  Means(Tail(w), AfterHead(w, m), k - 1, a, t)
<1> DEFINE v == Tail(w)
           r == AfterHead(w, m)
<1>1. k \in Nat /\ Len(w) \in Nat /\ 1 \in 1..k /\ \A n \in 1..(k - 1) : v[n] = w[n + 1]
  OBVIOUS
<1>2. \A n \in 1..(k - 1) : n + 1 \in 1..k /\ (NamesTopic(v, n, a) <=> NamesTopic(w, n + 1, a))
  BY <1>1 DEF NamesTopic
<1>3. CASE (\A n \in 1..k : ~NamesTopic(w, n, a)) /\ a \in DOMAIN m /\ m[a] = t
  <2>1. \A n \in 1..(k - 1) : ~NamesTopic(v, n, a)
    BY <1>2, <1>3
  <2>2. ~NamesTopic(w, 1, a)
    BY <1>1, <1>3
  <2>3. a \in DOMAIN r /\ r[a] = t
    BY <1>3, <2>2 DEF AfterHead, Learned, NamesTopic
  <2> QED BY <2>1, <2>3 DEF Means
<1>4. ASSUME NEW n \in 1..k, NamesTopic(w, n, a), w[n].topic = t,
             \A j \in 1..k : NamesTopic(w, j, a) => j <= n
      PROVE  Means(v, r, k - 1, a, t)
  <2>1. CASE n = 1
    <3>1. \A j \in 1..(k - 1) : ~NamesTopic(v, j, a)
      BY <1>1, <1>2, <1>4, <2>1
    <3>2. a \in DOMAIN r /\ r[a] = t
      BY <1>4, <2>1 DEF AfterHead, Learned, NamesTopic
    <3> QED BY <3>1, <3>2 DEF Means
  <2>2. CASE n # 1
    <3>1. n - 1 \in 1..(k - 1) /\ (n - 1) + 1 = n
      BY <1>1, <2>2
    <3>2. NamesTopic(v, n - 1, a) /\ v[n - 1].topic = t
      BY <1>1, <1>2, <1>4, <3>1
    <3>3. \A j \in 1..(k - 1) : NamesTopic(v, j, a) => j <= n - 1
      BY <1>1, <1>2, <1>4
    <3> QED BY <3>1, <3>2, <3>3 DEF Means
  <2> QED BY <2>1, <2>2
<1> QED BY <1>3, <1>4 DEF Means

\* Before CONNACK: it will mean this, or nothing.
Unknown(w, m, k, a) == (\A n \in 1..k : ~NamesTopic(w, n, a)) /\ a \notin DOMAIN m
MayMean(w, m, k, a, t) == Means(w, m, k, a, t) \/ Unknown(w, m, k, a)

LEMMA MayMeanBefore ==
  ASSUME NEW w \in Seq(Publishes), NEW p \in Publishes, NEW m, NEW k \in 0..Len(w), NEW a, NEW t,
         MayMean(w, m, k, a, t)
  PROVE  MayMean(Append(w, p), m, k, a, t)
<1>1. CASE Means(w, m, k, a, t)
  BY <1>1, MeansBefore DEF MayMean
<1>2. CASE Unknown(w, m, k, a)
  <2>1. \A n \in 1..k : n \in 1..Len(w)
    OBVIOUS
  <2>2. \A n \in 1..k : Append(w, p)[n] = w[n]
    BY <2>1, AppendedPacket
  <2> QED BY <1>2, <2>2 DEF MayMean, Unknown, NamesTopic
<1> QED BY <1>1, <1>2 DEF MayMean

LEMMA MayMeanStill ==
  ASSUME NEW w \in Seq(Publishes), NEW p \in Publishes, NEW m, NEW a, NEW t,
         MayMean(w, m, Len(w), a, t), p.topic = None \/ p.alias # a
  PROVE  MayMean(Append(w, p), m, Len(w) + 1, a, t)
<1>1. CASE Means(w, m, Len(w), a, t)
  BY <1>1, MeansStill DEF MayMean
<1>2. CASE Unknown(w, m, Len(w), a)
  <2> DEFINE v == Append(w, p)
  <2>1. /\ Len(w) \in Nat /\ v[Len(w) + 1] = p
        /\ \A n \in 1..Len(w) : v[n] = w[n]
        /\ \A n \in 1..(Len(w) + 1) : n \in 1..Len(w) \/ n = Len(w) + 1
    BY AppendedPacket
  <2> HIDE DEF v
  <2>2. \A n \in 1..(Len(w) + 1) : ~NamesTopic(v, n, a)
    BY <1>2, <2>1 DEF Unknown, NamesTopic
  <2> QED BY <1>2, <2>2 DEF MayMean, Unknown, v
<1> QED BY <1>1, <1>2 DEF MayMean

\* The receiver reads the first packet, and learns from it or, without a table, does not.
LEMMA MayMeanRead ==
  ASSUME NEW w \in Seq(Publishes), w # <<>>, NEW m, NEW r, NEW k \in 1..Len(w), NEW a, a # 0, NEW t,
         MayMean(w, m, k, a, t),
         r = AfterHead(w, m) \/ (r = m /\ DOMAIN m = {})
  PROVE  MayMean(Tail(w), r, k - 1, a, t)
<1> DEFINE v == Tail(w)
<1>1. k \in Nat /\ Len(w) \in Nat /\ 1 \in 1..k /\ \A n \in 1..(k - 1) : v[n] = w[n + 1]
  OBVIOUS
<1>2. \A n \in 1..(k - 1) : n + 1 \in 1..k /\ (NamesTopic(v, n, a) <=> NamesTopic(w, n + 1, a))
  BY <1>1 DEF NamesTopic
<1>3. CASE Means(w, m, k, a, t) /\ r = AfterHead(w, m)
  BY <1>3, MeansRead DEF MayMean
<1>4. CASE Unknown(w, m, k, a)
  <2>1. \A n \in 1..(k - 1) : ~NamesTopic(v, n, a)
    BY <1>2, <1>4 DEF Unknown
  <2>2. ~NamesTopic(w, 1, a)
    BY <1>1, <1>4 DEF Unknown
  <2>3. a \notin DOMAIN r
    BY <1>4, <2>2 DEF AfterHead, Learned, NamesTopic, Unknown
  <2> QED BY <2>1, <2>3 DEF MayMean, Unknown
<1>5. ASSUME Means(w, m, k, a, t), r = m, DOMAIN m = {}
      PROVE  MayMean(v, r, k - 1, a, t)
  <2>1. PICK n \in 1..k : /\ NamesTopic(w, n, a) /\ w[n].topic = t
                          /\ \A j \in 1..k : NamesTopic(w, j, a) => j <= n
    BY <1>5 DEF Means
  <2>2. CASE n = 1
    <3>1. \A j \in 1..(k - 1) : ~NamesTopic(v, j, a)
      BY <1>1, <1>2, <2>1, <2>2
    <3> QED BY <1>5, <3>1 DEF MayMean, Unknown
  <2>3. CASE n # 1
    <3>1. n - 1 \in 1..(k - 1) /\ (n - 1) + 1 = n
      BY <1>1, <2>3
    <3>2. NamesTopic(v, n - 1, a) /\ v[n - 1].topic = t
      BY <1>1, <1>2, <2>1, <3>1
    <3>3. \A j \in 1..(k - 1) : NamesTopic(v, j, a) => j <= n - 1
      BY <1>1, <1>2, <2>1
    <3> QED BY <3>1, <3>2, <3>3 DEF MayMean, Means
  <2> QED BY <2>2, <2>3
<1> QED BY <1>3, <1>4, <1>5 DEF MayMean

\* It is what WillBe says.
LEMMA MeansWillBe ==
  ASSUME wire \in Seq(Publishes), NEW a, NEW t \in Topics, Means(wire, map, Len(wire), a, t)
  PROVE  WillBe(a) = t
<1> DEFINE named == {n \in DOMAIN wire : wire[n].alias = a /\ wire[n].topic # None}
<1>1. named = {n \in 1..Len(wire) : NamesTopic(wire, n, a)} /\ named \subseteq Nat
  BY DEF NamesTopic
<1>2. WillBe(a) = IF named = {} THEN Known(map, a) ELSE wire[Max(named)].topic
  BY DEF WillBe
<1> HIDE DEF named
<1>3. CASE (\A n \in 1..Len(wire) : ~NamesTopic(wire, n, a)) /\ a \in DOMAIN map /\ map[a] = t
  BY <1>1, <1>2, <1>3 DEF Known
<1>4. ASSUME NEW n \in 1..Len(wire), NamesTopic(wire, n, a), wire[n].topic = t,
             \A j \in 1..Len(wire) : NamesTopic(wire, j, a) => j <= n
      PROVE  WillBe(a) = t
  <2>1. n \in named /\ \A j \in named : n >= j
    BY <1>1, <1>4
  <2>2. Max(named) = CHOOSE x \in named : \A y \in named : x >= y
    BY DEF Max
  <2>3. Max(named) \in named /\ \A y \in named : Max(named) >= y
    BY <2>1, <2>2
  <2>4. Max(named) = n
    BY <1>1, <2>1, <2>3
  <2> QED BY <1>2, <1>4, <2>1, <2>4
<1> QED BY <1>3, <1>4 DEF Means

-----------------------------------------------------------------------------
(* The invariant.                                                            *)
PacketOk(w, n) ==
  \/ w[n].topic = w[n].about
  \/ /\ w[n].topic = None /\ w[n].alias # 0
     /\ \/ recvMax # 0 /\ Means(w, map, n - 1, w[n].alias, w[n].about)
        \/ w[n].early /\ MayMean(w, map, n - 1, w[n].alias, w[n].about)

StateOk ==
  /\ TableOk(table) /\ published \in Nat /\ recvMax \in Nat
  /\ store \in Seq(Publishes) /\ wire \in Seq(Publishes) /\ answers \in Seq(Nat)
  /\ recvMax = 0 => DOMAIN map = {}
StoreOk == \A n \in 1..Len(store) : store[n].topic = store[n].about
TableKnown ==
  \A n \in 1..Len(table.entries) :
    Means(wire, map, Len(wire), table.entries[n].alias, table.entries[n].topic)
TableMayBeKnown ==
  \A n \in 1..Len(table.entries) :
    MayMean(wire, map, Len(wire), table.entries[n].alias, table.entries[n].topic)
\* The receiver has a table from CONNACK on, and none only for a sender without one.
AnswersOk ==
  IF \E n \in 1..Len(answers) : answers[n] = Connack THEN recvMax = 0 => table.max = 0
  ELSE recvMax = 0
LinkOk ==
  /\ link = "up" => recvMax = table.max /\ TableKnown
  /\ link = "connecting" => AnswersOk /\ TableMayBeKnown
  /\ link \notin {"connecting", "up"} => wire = <<>> /\ answers = <<>> /\ recvMax = 0
  /\ \A n \in 1..Len(wire) : PacketOk(wire, n)
HandedOk == AliasResolves

AliasInv == StateOk /\ StoreOk /\ LinkOk /\ HandedOk

LEMMA AliasInvInit == Init => AliasInv
<1> SUFFICES ASSUME Init PROVE AliasInv
  OBVIOUS
<1>1. TableOk(table)
  BY EmptyTableOk DEF Init
<1> QED BY <1>1 DEF Init, AliasInv, StateOk, StoreOk, LinkOk, HandedOk, AliasResolves, Idle

\* What a published message may be written as: with its topic, or with an
\* alias of the table; and the table afterwards has what it had under other
\* aliases, and under this one what is written.
Written(written, about) ==
  /\ TableOk(written.table) /\ written.table.max = table.max
  /\ written.alias \in Nat
  /\ \/ written.topic = about
     \/ /\ written.topic = None /\ written.alias # 0 /\ table.max # 0
        /\ \E k \in 1..Len(table.entries) : table.entries[k] = AliasEntry(written.alias, about)
  /\ \A n \in 1..Len(written.table.entries) :
       LET e == written.table.entries[n] IN
         \/ written.topic = about /\ e = AliasEntry(written.alias, about)
         \/ /\ written.topic = None \/ e.alias # written.alias
            /\ \E k \in 1..Len(table.entries) : e = table.entries[k]

LEMMA EntryOf ==
  ASSUME TableOk(table), NEW k \in 1..Len(table.entries)
  PROVE  /\ table.entries[k] \in TableEntries
         /\ table.entries[k] = AliasEntry(table.entries[k].alias, table.entries[k].topic)
         /\ table.entries[k].alias \in 1..table.max /\ table.entries[k].topic \in Topics
<1>1. table.entries \in Seq(TableEntries) /\ table.entries[k].alias \in 1..table.max
  BY DEF TableOk
<1>2. table.entries[k] \in TableEntries
  BY <1>1
<1> QED BY <1>1, <1>2 DEF TableEntries, AliasEntry

LEMMA AppliedWritten ==
  ASSUME AliasAssumption, TableOk(table), NEW topic \in Topics, NEW alias \in 0..table.max
  PROVE  Written(Applied(topic, alias), topic)
<1> DEFINE known == AliasOf(table, topic)
<1>1. table.max \in Nat /\ table.entries \in Seq(TableEntries) /\ topic # None
      /\ DOMAIN table.entries = 1..Len(table.entries)
  BY DEF TableOk, AliasAssumption
<1>2. ASSUME NEW a \in 1..table.max
      PROVE  Written([topic |-> topic, alias |-> a, table |-> InsertOrUpdate(table, topic, a)], topic)
  <2>1. a \in Nat
    BY <1>1
  <2> QED BY <1>2, <2>1, Inserted DEF Written
<1>3. Written([topic |-> topic, alias |-> 0, table |-> table], topic)
  <2>1. \A n \in 1..Len(table.entries) : table.entries[n].alias # 0
    BY <1>1, EntryOf
  <2> QED BY <2>1 DEF Written
<1>4. CASE table.max = 0
  <2>1. alias = 0 /\ Applied(topic, alias) = [topic |-> topic, alias |-> 0, table |-> table]
    BY <1>1, <1>4 DEF Applied
  <2> QED BY <1>3, <2>1
<1>5. CASE table.max # 0 /\ alias # 0
  <2>1. alias \in 1..table.max
    BY <1>1, <1>5
  <2>2. Applied(topic, alias) = [topic |-> topic, alias |-> alias, table |-> InsertOrUpdate(table, topic, alias)]
    BY <1>5 DEF Applied
  <2> QED BY <1>2, <2>1, <2>2
<1>6. CASE table.max # 0 /\ alias = 0 /\ known # 0 /\ mode # "plain"
  <2> DEFINE u == InsertOrUpdate(table, topic, known)
  <2>1. Applied(topic, alias) = [topic |-> None, alias |-> known, table |-> u]
    BY <1>6 DEF Applied
  <2>2. PICK k \in 1..Len(table.entries) : table.entries[k].topic = topic /\ known = table.entries[k].alias
    BY <1>1, <1>6 DEF AliasOf, About
  <2>3. table.entries[k] = AliasEntry(known, topic) /\ known \in 1..table.max
    BY <2>2, EntryOf
  <2> HIDE DEF known
  <2>4. /\ TableOk(u) /\ u.max = table.max
        /\ \A n \in 1..Len(u.entries) :
             \/ u.entries[n] = AliasEntry(known, topic)
             \/ u.entries[n].alias # known /\ \E l \in 1..Len(table.entries) : u.entries[n] = table.entries[l]
    BY <2>3, Inserted
  <2>5. known \in Nat /\ known # 0
    BY <1>1, <2>3
  <2> HIDE DEF u
  <2>6. \A n \in 1..Len(u.entries) : \E l \in 1..Len(table.entries) : u.entries[n] = table.entries[l]
    BY <2>3, <2>4
  <2> DEFINE r == [topic |-> None, alias |-> known, table |-> u]
  <2>7. r.topic = None /\ r.alias = known /\ r.table = u
    OBVIOUS
  <2> HIDE DEF r
  <2>8. Written(r, topic)
    BY <1>6, <2>3, <2>4, <2>5, <2>6, <2>7 DEF Written
  <2> QED BY <2>1, <2>8 DEF r
<1>7. CASE table.max # 0 /\ alias = 0 /\ ~(known # 0 /\ mode # "plain") /\ mode = "map"
  <2>1. LruAlias(table) \in 1..table.max
    BY <1>1, <1>7, LruAliasInUse
  <2>2. Applied(topic, alias) = [topic |-> topic, alias |-> LruAlias(table),
                                 table |-> InsertOrUpdate(table, topic, LruAlias(table))]
    BY <1>7 DEF Applied
  <2> QED BY <1>2, <2>1, <2>2
<1>8. CASE table.max # 0 /\ alias = 0 /\ ~(known # 0 /\ mode # "plain") /\ mode # "map"
  <2>1. Applied(topic, alias) = [topic |-> topic, alias |-> 0, table |-> table]
    BY <1>8 DEF Applied
  <2> QED BY <1>3, <2>1
<1> QED BY <1>4, <1>5, <1>6, <1>7, <1>8

LEMMA TouchedWritten ==
  ASSUME AliasAssumption, TableOk(table), NEW alias \in 1..table.max, TopicOf(table, alias) # None
  PROVE  /\ TopicOf(table, alias) \in Topics
         /\ Written([topic |-> None, alias |-> alias, table |-> Touched(table, alias)],
                    TopicOf(table, alias))
<1>1. table.max \in Nat /\ table.entries \in Seq(TableEntries)
      /\ DOMAIN table.entries = 1..Len(table.entries)
  BY DEF TableOk
<1>2. Named(table, alias) # {}
  BY DEF TopicOf
<1>3. PICK k \in 1..Len(table.entries) :
        table.entries[k].alias = alias /\ TopicOf(table, alias) = table.entries[k].topic
  BY <1>1, <1>2 DEF TopicOf, Named
<1> DEFINE t == TopicOf(table, alias)
           u == Touched(table, alias)
           r == [topic |-> None, alias |-> alias, table |-> u]
<1>4. table.entries[k] = AliasEntry(alias, t) /\ t \in Topics
  BY <1>3, EntryOf
<1>5. /\ TableOk(u) /\ u.max = table.max
      /\ \A n \in 1..Len(u.entries) : \E l \in 1..Len(table.entries) : u.entries[n] = table.entries[l]
  BY <1>2, TouchedTable
<1>6. r.topic = None /\ r.alias = alias /\ r.table = u /\ alias \in Nat /\ alias # 0 /\ table.max # 0
  BY <1>1
<1> HIDE DEF r, u, t
<1>7. Written(r, t)
  BY <1>4, <1>5, <1>6 DEF Written
<1> QED BY <1>4, <1>7 DEF r, u, t

\* Storing a message keeps its topic, and what is written is understood.
LEMMA SendsKeeps ==
  ASSUME AliasAssumption, AliasInv, NEW topic, NEW alias \in Nat, NEW about \in Topics,
         NEW qos, NEW written, Written(written, about),
         Sends(topic, alias, about, qos, written)
  PROVE  AliasInv'
<1> DEFINE id == IF qos = 0 THEN 0 ELSE published + 1
           kept == Stored(topic, alias, id, about)
           p == PublishPacket(written.topic, written.alias, id, about, link = "connecting")
<1>1. /\ StateOk /\ StoreOk /\ LinkOk /\ HandedOk /\ TableOk(table)
      /\ store \in Seq(Publishes) /\ wire \in Seq(Publishes) /\ published \in Nat
      /\ answers \in Seq(Nat) /\ (recvMax = 0 => DOMAIN map = {})
  BY DEF AliasInv, StateOk
<1>2. id \in Nat /\ published' \in Nat /\ None \notin Topics
  BY <1>1 DEF Sends, AliasAssumption
<1>3. /\ store' = IF qos = 0 THEN store ELSE Append(store, kept)
      /\ wire' = IF link \in {"connecting", "up"} THEN Append(wire, p) ELSE wire
      /\ table' = written.table /\ last' = Idle /\ link' = link /\ recvMax' = recvMax /\ map' = map
      /\ answers' = answers
  BY DEF Sends, receiver
<1> HIDE DEF id
<1>4. kept \in Publishes /\ kept.topic = kept.about
  BY <1>2 DEF Stored, PublishPacket, Publishes
<1>5. /\ p \in Publishes /\ p.topic = written.topic /\ p.alias = written.alias /\ p.about = about
      /\ (p.topic = about \/ p.topic = None) /\ p.early = (link = "connecting")
  BY <1>2 DEF PublishPacket, Publishes, Written
<1> HIDE DEF kept, p
<1>6. store' \in Seq(Publishes) /\ StoreOk'
  <2>1. CASE qos = 0
    BY <1>1, <1>3, <2>1 DEF StoreOk
  <2>2. CASE qos # 0
    <3>1. /\ Append(store, kept) \in Seq(Publishes) /\ Len(Append(store, kept)) = Len(store) + 1
          /\ Len(store) \in Nat /\ Append(store, kept)[Len(store) + 1] = kept
          /\ \A n \in 1..Len(store) : Append(store, kept)[n] = store[n]
      BY <1>1, <1>4, AppendedPacket
    <3>2. store' = Append(store, kept)
      BY <1>3, <2>2
    <3>3. ASSUME NEW n \in 1..(Len(store) + 1) PROVE store'[n].topic = store'[n].about
      <4>1. n \in 1..Len(store) \/ n = Len(store) + 1
        BY <3>1
      <4> QED BY <1>1, <1>4, <3>1, <3>2, <4>1 DEF StoreOk
    <3> QED BY <3>1, <3>2, <3>3 DEF StoreOk
  <2> QED BY <2>1, <2>2
<1>7. wire' \in Seq(Publishes)
  BY <1>1, <1>3, <1>5
<1>8. StateOk'
  <2>1. TableOk(table')
    BY <1>3 DEF Written
  <2>2. recvMax' \in Nat /\ answers' \in Seq(Nat) /\ (recvMax' = 0 => DOMAIN map' = {})
    BY <1>1, <1>3 DEF StateOk
  <2> QED BY <1>2, <1>6, <1>7, <2>1, <2>2 DEF StateOk, TableOk, Distinct
<1>9. ASSUME link \in {"connecting", "up"}
      PROVE  /\ link = "up" => TableKnown'
             /\ link = "connecting" => TableMayBeKnown'
             /\ \A n \in 1..Len(wire') : PacketOk(wire, n)'
  <2>1. /\ link = "up" => recvMax = table.max /\ TableKnown
        /\ link = "connecting" => TableMayBeKnown
        /\ \A n \in 1..Len(wire) : PacketOk(wire, n)
    BY <1>1 DEF LinkOk
  <2>2. /\ wire' = Append(wire, p) /\ Len(wire') = Len(wire) + 1 /\ Len(wire) \in Nat
        /\ wire'[Len(wire) + 1] = p /\ \A n \in 1..Len(wire) : wire'[n] = wire[n]
    BY <1>1, <1>3, <1>5, <1>9, AppendedPacket
  <2>3. ASSUME NEW n \in 1..Len(table'.entries)
        PROVE  \/ Means(wire', map', Len(wire'), table'.entries[n].alias, table'.entries[n].topic)
               \/ /\ link = "connecting"
                  /\ MayMean(wire', map', Len(wire'), table'.entries[n].alias, table'.entries[n].topic)
    <3> DEFINE e == table'.entries[n]
    <3>1. \/ written.topic = about /\ e = AliasEntry(written.alias, about)
          \/ /\ written.topic = None \/ e.alias # written.alias
             /\ \E k \in 1..Len(table.entries) : e = table.entries[k]
      BY <1>3 DEF Written
    <3>2. CASE written.topic = about /\ e = AliasEntry(written.alias, about)
      <4>1. e.alias = p.alias /\ e.topic = p.topic /\ p.topic # None
        BY <1>2, <1>5, <3>2 DEF AliasEntry
      <4>2. Means(Append(wire, p), map, Len(wire) + 1, p.alias, p.topic)
        BY <1>1, <1>5, <4>1, MeansNamed
      <4> QED BY <1>3, <2>2, <4>1, <4>2
    <3>3. ASSUME written.topic = None \/ e.alias # written.alias,
                 NEW k \in 1..Len(table.entries), e = table.entries[k]
          PROVE  \/ Means(wire', map', Len(wire'), e.alias, e.topic)
                 \/ link = "connecting" /\ MayMean(wire', map', Len(wire'), e.alias, e.topic)
      <4>1. /\ link = "up" => Means(wire, map, Len(wire), e.alias, e.topic)
            /\ link = "connecting" => MayMean(wire, map, Len(wire), e.alias, e.topic)
        BY <2>1, <3>3 DEF TableKnown, TableMayBeKnown
      <4>2. p.topic = None \/ p.alias # e.alias
        BY <1>5, <3>3
      <4> HIDE DEF e
      <4>3. CASE link = "up"
        <5>1. Means(Append(wire, p), map, Len(wire) + 1, e.alias, e.topic)
          BY <1>1, <1>5, <4>1, <4>2, <4>3, MeansStill
        <5> QED BY <1>3, <2>2, <5>1
      <4>4. CASE link = "connecting"
        <5>1. MayMean(Append(wire, p), map, Len(wire) + 1, e.alias, e.topic)
          BY <1>1, <1>5, <4>1, <4>2, <4>4, MayMeanStill
        <5> QED BY <1>3, <2>2, <4>4, <5>1
      <4> QED BY <1>9, <4>3, <4>4
    <3> QED BY <3>1, <3>2, <3>3
  <2>4. (link = "up" => TableKnown') /\ (link = "connecting" => TableMayBeKnown')
    BY <2>3 DEF TableKnown, TableMayBeKnown, MayMean
  <2>5. ASSUME NEW n \in 1..Len(wire') PROVE PacketOk(wire, n)'
    <3>1. CASE n \in 1..Len(wire)
      <4>1. PacketOk(wire, n) /\ wire'[n] = wire[n] /\ n - 1 \in 0..Len(wire)
        BY <2>1, <2>2, <3>1
      <4>2. /\ \A a, t : Means(wire, map, n - 1, a, t) => Means(wire', map, n - 1, a, t)
            /\ \A a, t : MayMean(wire, map, n - 1, a, t) => MayMean(wire', map, n - 1, a, t)
        BY <1>1, <1>5, <2>2, <4>1, MeansBefore, MayMeanBefore
      <4> QED BY <1>3, <4>1, <4>2 DEF PacketOk
    <3>2. CASE n = Len(wire) + 1
      <4>1. wire'[n] = p /\ n - 1 = Len(wire)
        BY <2>2, <3>2
      <4>2. CASE p.topic = about
        BY <1>5, <4>1, <4>2 DEF PacketOk
      <4>3. CASE p.topic # about
        <5>1. written.topic = None /\ written.alias # 0 /\ table.max # 0
          BY <1>5, <4>3 DEF Written
        <5>2. PICK k \in 1..Len(table.entries) : table.entries[k] = AliasEntry(written.alias, about)
          BY <1>5, <4>3 DEF Written
        <5>3. table.entries[k].alias = p.alias /\ table.entries[k].topic = p.about
          BY <1>5, <5>2 DEF AliasEntry
        <5>4. Len(wire) \in 0..Len(wire)
          BY <2>2
        <5>5. CASE link = "up"
          <6>1. Means(wire, map, Len(wire), p.alias, p.about)
            BY <2>1, <5>3, <5>5 DEF TableKnown
          <6>2. Means(Append(wire, p), map, Len(wire), p.alias, p.about)
            BY <1>1, <1>5, <5>4, <6>1, MeansBefore
          <6> QED BY <1>3, <1>5, <2>1, <2>2, <4>1, <5>1, <5>5, <6>2 DEF PacketOk
        <5>6. CASE link = "connecting"
          <6>1. MayMean(wire, map, Len(wire), p.alias, p.about)
            BY <2>1, <5>3, <5>6 DEF TableMayBeKnown
          <6>2. MayMean(Append(wire, p), map, Len(wire), p.alias, p.about)
            BY <1>1, <1>5, <5>4, <6>1, MayMeanBefore
          <6> QED BY <1>3, <1>5, <2>2, <4>1, <5>1, <5>6, <6>2 DEF PacketOk
        <5> QED BY <1>9, <5>5, <5>6
      <4> QED BY <4>2, <4>3
    <3> QED BY <2>2, <3>1, <3>2
  <2> QED BY <2>4, <2>5
<1>10. HandedOk'
  BY <1>3 DEF HandedOk, AliasResolves, Idle
<1>11. LinkOk'
  <2>1. table'.max = table.max
    BY <1>3 DEF Written
  <2>2. /\ link = "up" => recvMax = table.max
        /\ link = "connecting" => AnswersOk
        /\ link \notin {"connecting", "up"} => wire = <<>> /\ answers = <<>> /\ recvMax = 0
    BY <1>1 DEF LinkOk
  <2>3. link = "connecting" => AnswersOk'
    BY <1>3, <2>1, <2>2 DEF AnswersOk
  <2>4. CASE link \in {"connecting", "up"}
    BY <1>3, <1>9, <2>1, <2>2, <2>3, <2>4 DEF LinkOk
  <2>5. CASE link \notin {"connecting", "up"}
    BY <1>3, <2>2, <2>5 DEF LinkOk
  <2> QED BY <2>4, <2>5
<1> QED BY <1>6, <1>8, <1>10, <1>11 DEF AliasInv

LEMMA ReceiveKeeps ==
  ASSUME AliasAssumption, AliasInv, Receive
  PROVE  AliasInv'
<1> DEFINE p == Head(wire)
           topic == IF p.topic # None THEN p.topic ELSE IF recvMax = 0 THEN None ELSE Known(map, p.alias)
<1>1. /\ StateOk /\ StoreOk /\ LinkOk /\ wire \in Seq(Publishes) /\ wire # <<>>
      /\ link \in {"connecting", "up"} /\ TableOk(table) /\ recvMax \in Nat /\ answers \in Seq(Nat)
      /\ (recvMax = 0 => DOMAIN map = {})
  BY DEF AliasInv, StateOk, Receive
<1>2. /\ link = "up" => recvMax = table.max /\ TableKnown
      /\ link = "connecting" => AnswersOk /\ TableMayBeKnown
      /\ \A n \in 1..Len(wire) : PacketOk(wire, n)
  BY <1>1 DEF LinkOk
<1>3. /\ p = wire[1] /\ Len(wire) \in Nat /\ 1 \in 1..Len(wire) /\ p \in Publishes
      /\ Tail(wire) \in Seq(Publishes) /\ Len(Tail(wire)) = Len(wire) - 1
      /\ \A n \in 1..(Len(wire) - 1) : Tail(wire)[n] = wire[n + 1]
  BY <1>1
<1>4. /\ map' = (IF p.topic # None /\ p.alias # 0 /\ recvMax # 0 THEN Learned(map, p.topic, p.alias) ELSE map)
      /\ last' = [topic |-> IF topic = None THEN "refused" ELSE topic, about |-> p.about, early |-> p.early]
      /\ answers' = (IF p.id # 0 /\ topic # None THEN Append(answers, p.id) ELSE answers)
      /\ wire' = Tail(wire)
      /\ UNCHANGED <<link, table, recvMax, store, published>>
  BY DEF Receive
<1>5. p.about \in Topics /\ p.about # None /\ p.id \in Nat
  BY <1>3 DEF Publishes, AliasAssumption
<1>6. HandedOk'
  <2>1. PacketOk(wire, 1) /\ 1 - 1 = 0
    BY <1>2, <1>3
  <2>2. topic = p.about \/ (topic = None /\ p.early)
    <3>1. CASE p.topic = p.about
      BY <1>5, <3>1
    <3>2. ASSUME p.topic = None, Means(wire, map, 0, p.alias, p.about), recvMax # 0
          PROVE  topic = p.about
      <4>1. p.alias \in DOMAIN map /\ map[p.alias] = p.about
        BY <3>2 DEF Means
      <4> QED BY <3>2, <4>1 DEF Known
    <3>3. ASSUME p.topic = None, recvMax = 0 \/ Unknown(wire, map, 0, p.alias)
          PROVE  topic = None
      BY <3>3 DEF Unknown, Known
    <3> QED BY <1>3, <2>1, <3>1, <3>2, <3>3 DEF PacketOk, MayMean
  <2> HIDE DEF topic, p
  <2> QED BY <1>4, <1>5, <2>2 DEF HandedOk, AliasResolves
<1>7. recvMax # 0 => map' = AfterHead(wire, map)
  BY <1>3, <1>4 DEF AfterHead
<1>8. recvMax = 0 => map' = map /\ DOMAIN map = {}
  BY <1>1, <1>4
<1>9. answers' \in Seq(Nat) /\ (AnswersOk => AnswersOk')
  <2>1. CASE p.id # 0 /\ topic # None
    <3>1. answers' = Append(answers, p.id)
      BY <1>4, <2>1
    <3> HIDE DEF p, topic
    <3>2. /\ answers' \in Seq(Nat) /\ Len(answers') = Len(answers) + 1 /\ Len(answers) \in Nat
          /\ answers'[Len(answers) + 1] = p.id
          /\ \A n \in 1..Len(answers) : answers'[n] = answers[n]
      BY <1>1, <1>5, <3>1
    <3>3. \A n \in 1..Len(answers') : n \in 1..Len(answers) \/ n = Len(answers) + 1
      BY <3>2
    <3> QED BY <1>4, <2>1, <3>2, <3>3 DEF AnswersOk, Connack
  <2>2. CASE ~(p.id # 0 /\ topic # None)
    BY <1>1, <1>4, <2>2 DEF AnswersOk
  <2> QED BY <2>1, <2>2
<1> HIDE DEF p, topic
<1>10. ASSUME recvMax # 0, NEW k \in 1..Len(wire), NEW a, a # 0, NEW t, Means(wire, map, k, a, t)
       PROVE  Means(wire', map', k - 1, a, t)
  BY <1>1, <1>4, <1>7, <1>10, MeansRead
<1>11. ASSUME NEW k \in 1..Len(wire), NEW a, a # 0, NEW t, MayMean(wire, map, k, a, t)
       PROVE  MayMean(wire', map', k - 1, a, t)
  BY <1>1, <1>4, <1>7, <1>8, <1>11, MayMeanRead
<1>12. ASSUME NEW n \in 1..Len(table.entries)
       PROVE  /\ link = "up" =>
                   Means(wire', map', Len(wire'), table.entries[n].alias, table.entries[n].topic)
              /\ link = "connecting" =>
                   MayMean(wire', map', Len(wire'), table.entries[n].alias, table.entries[n].topic)
  <2>1. table.entries[n].alias \in 1..table.max
    BY <1>1, EntryOf
  <2>2. table.max \in Nat /\ table.entries[n].alias # 0 /\ table.max # 0
    BY <1>1, <2>1 DEF TableOk
  <2>3. Len(wire) \in 1..Len(wire) /\ Len(wire') = Len(wire) - 1
    BY <1>3, <1>4
  <2>4. CASE link = "up"
    <3>1. recvMax # 0 /\ Means(wire, map, Len(wire), table.entries[n].alias, table.entries[n].topic)
      BY <1>2, <2>2, <2>4 DEF TableKnown
    <3> QED BY <1>10, <2>2, <2>3, <2>4, <3>1
  <2>5. CASE link = "connecting"
    <3>1. MayMean(wire, map, Len(wire), table.entries[n].alias, table.entries[n].topic)
      BY <1>2, <2>5 DEF TableMayBeKnown
    <3> QED BY <1>11, <2>2, <2>3, <2>5, <3>1
  <2> QED BY <2>4, <2>5
<1>13. ASSUME NEW n \in 1..Len(wire') PROVE PacketOk(wire, n)'
  <2>1. n + 1 \in 1..Len(wire) /\ wire'[n] = wire[n + 1] /\ n \in 1..Len(wire) /\ n \in Nat
    BY <1>3, <1>4, <1>13
  <2>2. PacketOk(wire, n + 1) /\ (n + 1) - 1 = n
    BY <1>2, <2>1
  <2>3. CASE wire'[n].topic = wire'[n].about
    BY <2>3 DEF PacketOk
  <2>4. CASE wire'[n].topic # wire'[n].about
    <3>1. /\ wire'[n].topic = None /\ wire'[n].alias # 0
          /\ \/ recvMax # 0 /\ Means(wire, map, n, wire'[n].alias, wire'[n].about)
             \/ wire'[n].early /\ MayMean(wire, map, n, wire'[n].alias, wire'[n].about)
      BY <2>1, <2>2, <2>4 DEF PacketOk
    <3>2. \/ recvMax # 0 /\ Means(wire', map', n - 1, wire'[n].alias, wire'[n].about)
          \/ wire'[n].early /\ MayMean(wire', map', n - 1, wire'[n].alias, wire'[n].about)
      BY <1>10, <1>11, <2>1, <3>1
    <3> QED BY <1>4, <3>1, <3>2 DEF PacketOk
  <2> QED BY <2>3, <2>4
<1>14. LinkOk'
  <2>1. link' = link /\ recvMax' = recvMax /\ table' = table
    BY <1>4
  <2>2. (link = "up" => TableKnown') /\ (link = "connecting" => TableMayBeKnown')
    BY <1>12, <2>1 DEF TableKnown, TableMayBeKnown
  <2> QED BY <1>1, <1>2, <1>9, <1>13, <2>1, <2>2 DEF LinkOk
<1>15. StateOk' /\ StoreOk'
  <2>1. recvMax' = 0 => DOMAIN map' = {}
    BY <1>4, <1>8
  <2> QED BY <1>1, <1>3, <1>4, <1>9, <2>1 DEF StateOk, StoreOk, TableOk, Distinct
<1> QED BY <1>6, <1>14, <1>15 DEF AliasInv

LEMMA PubackKeeps ==
  ASSUME AliasInv, ProcessPuback
  PROVE  AliasInv'
<1> DEFINE acked == {n \in DOMAIN store : store[n].id = Head(answers)}
           i == CHOOSE n \in acked : TRUE
<1>1. /\ store' = IF acked = {} THEN store ELSE RemoveAt(store, i)
      /\ link = "up" /\ answers # <<>> /\ answers' = Tail(answers)
      /\ last' = Idle /\ UNCHANGED <<link, table, recvMax, map, wire, published>>
  BY DEF ProcessPuback, receiver
<1>2. StateOk /\ StoreOk /\ LinkOk /\ store \in Seq(Publishes) /\ answers \in Seq(Nat)
  BY DEF AliasInv, StateOk
<1>3. store' \in Seq(Publishes) /\ StoreOk'
  <2>1. CASE acked = {}
    BY <1>1, <1>2, <2>1 DEF StoreOk
  <2>2. CASE acked # {}
    <3>1. i \in 1..Len(store) /\ Len(store) \in Nat
      BY <1>2, <2>2
    <3>2. store' = RemoveAt(store, i)
      BY <1>1, <2>2
    <3> HIDE DEF i
    <3>3. /\ store' \in Seq(Publishes) /\ Len(store') = Len(store) - 1
          /\ \A n \in 1..(Len(store) - 1) : store'[n] = (IF n < i THEN store[n] ELSE store[n + 1])
      BY <1>2, <3>1, <3>2, Removed
    <3>4. \A n \in 1..(Len(store) - 1) : \E k \in 1..Len(store) : store'[n] = store[k]
      BY <3>1, <3>3
    <3> QED BY <1>2, <3>3, <3>4 DEF StoreOk
  <2> QED BY <2>1, <2>2
<1>4. StateOk'
  <2>1. answers' \in Seq(Nat)
    BY <1>1, <1>2
  <2> QED BY <1>1, <1>2, <1>3, <2>1 DEF StateOk, TableOk, Distinct
<1>5. LinkOk'
  BY <1>1, <1>2 DEF LinkOk, TableKnown, PacketOk, Means, MayMean, Unknown, NamesTopic
<1>6. HandedOk'
  BY <1>1 DEF HandedOk, AliasResolves, Idle
<1> QED BY <1>3, <1>4, <1>5, <1>6 DEF AliasInv

\* The receiver has read nothing yet: an alias of the old table means nothing to it.
LEMMA ConnectKeeps ==
  ASSUME AliasInv, Connect
  PROVE  AliasInv'
<1>1. /\ StateOk /\ StoreOk /\ wire = <<>> /\ answers = <<>> /\ recvMax = 0 /\ DOMAIN map = {} /\ TableOk(table)
  BY DEF AliasInv, StateOk, LinkOk, Connect
<1>2. /\ link' = "connecting" /\ last' = Idle
      /\ UNCHANGED <<table, recvMax, map, store, wire, answers, published>>
  BY DEF Connect, receiver
<1>3. Len(wire') = 0 /\ Len(answers') = 0
  BY <1>1, <1>2
<1>4. AnswersOk' /\ TableMayBeKnown'
  BY <1>1, <1>2, <1>3 DEF AnswersOk, TableMayBeKnown, MayMean, Unknown
<1>5. LinkOk'
  BY <1>2, <1>3, <1>4 DEF LinkOk
<1>6. StateOk' /\ StoreOk' /\ HandedOk'
  BY <1>1, <1>2 DEF StateOk, StoreOk, HandedOk, AliasResolves, Idle, TableOk, Distinct
<1> QED BY <1>5, <1>6 DEF AliasInv

\* A new table of the receiver: nothing that it read before is known.
LEMMA SendConnackKeeps ==
  ASSUME AliasAssumption, AliasInv, NEW max \in Maxima, SendConnack(max)
  PROVE  AliasInv'
<1>1. /\ link = "connecting" /\ (max = 0 => table.max = 0)
      /\ \A n \in DOMAIN answers : answers[n] # Connack
      /\ recvMax' = max /\ map' = <<>> /\ answers' = Append(answers, Connack) /\ last' = Idle
      /\ UNCHANGED <<link, table, store, wire, published>>
  BY DEF SendConnack
<1>2. /\ max \in Nat /\ StateOk /\ StoreOk /\ TableMayBeKnown /\ AnswersOk /\ answers \in Seq(Nat)
      /\ \A n \in 1..Len(wire) : PacketOk(wire, n)
  BY <1>1 DEF AliasAssumption, AliasInv, StateOk, LinkOk
<1>3. recvMax = 0
  BY <1>1, <1>2 DEF AnswersOk
<1>4. \A k, a, t : MayMean(wire, map, k, a, t) => MayMean(wire', map', k, a, t)
  BY <1>1 DEF MayMean, Means, Unknown, NamesTopic
<1>5. TableMayBeKnown'
  BY <1>1, <1>2, <1>4 DEF TableMayBeKnown
<1>6. AnswersOk'
  <2>1. answers'[Len(answers) + 1] = Connack /\ Len(answers) + 1 \in 1..Len(answers')
    BY <1>1, <1>2
  <2> QED BY <1>1, <2>1 DEF AnswersOk
<1>7. answers' \in Seq(Nat)
  BY <1>1, <1>2 DEF Connack
<1>8. ASSUME NEW n \in 1..Len(wire) PROVE PacketOk(wire, n)'
  BY <1>1, <1>2, <1>3, <1>4 DEF PacketOk
<1>9. LinkOk'
  BY <1>1, <1>5, <1>6, <1>8 DEF LinkOk
<1>10. StateOk' /\ StoreOk' /\ HandedOk'
  BY <1>1, <1>2, <1>7 DEF StateOk, StoreOk, HandedOk, AliasResolves, Idle, TableOk, Distinct
<1> QED BY <1>9, <1>10 DEF AliasInv

\* The sender starts with an empty table, whatever is still under way.
LEMMA ProcessConnackKeeps ==
  ASSUME AliasInv, ProcessConnack
  PROVE  AliasInv'
<1>1. /\ link = "connecting" /\ answers # <<>> /\ Head(answers) = Connack
      /\ link' = "up" /\ answers' = Tail(answers) /\ wire' = wire \o store
      /\ table' = (IF recvMax > 0 THEN EmptyTable(recvMax) ELSE table) /\ last' = Idle
      /\ UNCHANGED <<recvMax, map, store, published>>
  BY DEF ProcessConnack, receiver, TableFor
<1>2. /\ StateOk /\ StoreOk /\ TableOk(table) /\ store \in Seq(Publishes) /\ wire \in Seq(Publishes)
      /\ recvMax \in Nat /\ answers \in Seq(Nat) /\ AnswersOk
      /\ \A n \in 1..Len(wire) : PacketOk(wire, n)
  BY <1>1 DEF AliasInv, StateOk, LinkOk
<1>3. recvMax = 0 => table.max = 0
  <2>1. 1 \in 1..Len(answers) /\ answers[1] = Connack
    BY <1>1, <1>2
  <2> QED BY <1>2, <2>1 DEF AnswersOk
<1>4. TableOk(table') /\ table'.max = recvMax /\ table'.entries = <<>>
  <2>1. CASE recvMax > 0
    BY <1>1, <1>2, <2>1, EmptyTableOk DEF EmptyTable
  <2>2. CASE recvMax = 0
    <3>1. \A n \in 1..Len(table.entries) : table.entries[n].alias \in 1..0
      BY <1>2, <1>3, <2>2, EntryOf
    <3>2. table.entries = <<>>
      <4>1. table.entries \in Seq(TableEntries)
        BY <1>2 DEF TableOk
      <4> QED BY <3>1, <4>1
    <3> QED BY <1>1, <1>2, <1>3, <2>2, <3>2
  <2> QED BY <1>2, <2>1, <2>2
<1>5. TableKnown'
  BY <1>4 DEF TableKnown
<1>6. /\ wire' \in Seq(Publishes) /\ Len(wire') = Len(wire) + Len(store)
      /\ Len(wire) \in Nat /\ Len(store) \in Nat
      /\ \A n \in 1..Len(wire) : wire'[n] = wire[n]
      /\ \A n \in 1..Len(store) : wire'[Len(wire) + n] = store[n]
  BY <1>1, <1>2
<1>7. ASSUME NEW n \in 1..Len(wire') PROVE PacketOk(wire, n)'
  <2>1. CASE n \in 1..Len(wire)
    <3>1. \A j \in 1..(n - 1) : wire'[j] = wire[j]
      <4>1. \A j \in 1..(n - 1) : j \in 1..Len(wire)
        BY <1>6, <2>1
      <4> QED BY <1>6, <4>1
    <3>2. \A a, t : /\ Means(wire, map, n - 1, a, t) => Means(wire', map, n - 1, a, t)
                    /\ MayMean(wire, map, n - 1, a, t) => MayMean(wire', map, n - 1, a, t)
      BY <3>1 DEF MayMean, Means, Unknown, NamesTopic
    <3>3. PacketOk(wire, n) /\ wire'[n] = wire[n]
      BY <1>2, <1>6, <2>1
    <3> QED BY <1>1, <3>2, <3>3 DEF PacketOk
  <2>2. CASE n \notin 1..Len(wire)
    <3>1. n - Len(wire) \in 1..Len(store) /\ Len(wire) + (n - Len(wire)) = n
      BY <1>6, <2>2
    <3>2. wire'[n] = store[n - Len(wire)]
      BY <1>6, <3>1
    <3> QED BY <1>2, <3>1, <3>2 DEF StoreOk, PacketOk
  <2> QED BY <2>1, <2>2
<1>8. LinkOk'
  BY <1>1, <1>4, <1>5, <1>7 DEF LinkOk
<1>9. StateOk' /\ StoreOk'
  <2>1. answers' \in Seq(Nat)
    BY <1>1, <1>2
  <2> QED BY <1>1, <1>2, <1>4, <1>6, <2>1 DEF StateOk, StoreOk
<1>10. HandedOk'
  BY <1>1 DEF HandedOk, AliasResolves, Idle
<1> QED BY <1>8, <1>9, <1>10 DEF AliasInv

LEMMA AliasInvStep ==
  ASSUME AliasAssumption, AliasInv, [Next]_vars
  PROVE  AliasInv'
<1>0. StateOk /\ StoreOk /\ LinkOk /\ HandedOk /\ TableOk(table) /\ table.max \in Nat
  BY DEF AliasInv, StateOk, TableOk
<1>1. ASSUME NEW topic \in Topics, NEW alias \in 0..table.max, NEW qos \in {0, 1},
             PublishTopic(topic, alias, qos)
      PROVE  AliasInv'
  <2>1. alias \in Nat
    BY <1>0 DEF OthersOf
  <2>2. Sends(topic, alias, topic, qos, Applied(topic, alias))
    BY <1>1 DEF PublishTopic
  <2> QED BY <1>0, <2>1, <2>2, AppliedWritten, SendsKeeps
<1>2. ASSUME NEW alias \in 1..table.max, NEW qos \in {0, 1}, PublishByAlias(alias, qos)
      PROVE  AliasInv'
  <2> DEFINE written == [topic |-> None, alias |-> alias, table |-> Touched(table, alias)]
             about == TopicOf(table, alias)
  <2>1. alias \in Nat
    BY <1>0 DEF OthersOf
  <2>2. Sends(None, alias, about, qos, written) /\ about # None
    BY <1>2 DEF PublishByAlias
  <2>3. about \in Topics /\ Written(written, about)
    BY <1>0, <2>2, TouchedWritten
  <2> HIDE DEF written, about
  <2> QED BY <2>1, <2>2, <2>3, SendsKeeps
<1>3. CASE Receive
  BY <1>3, ReceiveKeeps
<1>4. CASE ProcessPuback
  BY <1>4, PubackKeeps
<1>5. CASE Cut
  <2>1. /\ link' = "cut" /\ wire' = <<>> /\ answers' = <<>> /\ map' = <<>> /\ recvMax' = 0 /\ last' = Idle
        /\ UNCHANGED <<table, store, published>>
    BY <1>5 DEF Cut
  <2>2. store \in Seq(Publishes) /\ published \in Nat
    BY <1>0 DEF StateOk
  <2>3. StateOk' /\ StoreOk'
    BY <1>0, <2>1, <2>2 DEF StateOk, StoreOk, TableOk, Distinct
  <2> QED BY <2>1, <2>3 DEF AliasInv, LinkOk, HandedOk, AliasResolves, Idle
<1>6. CASE HandleCloseOrError
  <2>1. /\ link = "cut" /\ link' = "down" /\ table' = EmptyTable(table.max)
        /\ UNCHANGED <<wire, answers, recvMax, map, last, store, published>>
    BY <1>6 DEF HandleCloseOrError, receiver
  <2>2. TableOk(table')
    BY <1>0, <2>1, EmptyTableOk
  <2>3. StateOk' /\ StoreOk' /\ HandedOk'
    BY <1>0, <2>1, <2>2 DEF StateOk, StoreOk, HandedOk, AliasResolves, TableOk, Distinct
  <2>4. wire = <<>> /\ answers = <<>> /\ recvMax = 0
    BY <1>0, <2>1 DEF LinkOk
  <2> QED BY <2>1, <2>3, <2>4 DEF AliasInv, LinkOk
<1>7. CASE Connect
  BY <1>7, ConnectKeeps
<1>8. ASSUME NEW max \in Maxima, SendConnack(max) PROVE AliasInv'
  BY <1>8, SendConnackKeeps
<1>9. CASE ProcessConnack
  BY <1>9, ProcessConnackKeeps
<1>10. CASE UNCHANGED vars
  <2>1. UNCHANGED <<link, table, recvMax, map, store, wire, answers, published, last>>
    BY <1>10 DEF vars, receiver
  <2>2. StateOk' /\ StoreOk' /\ HandedOk'
    BY <1>0, <2>1 DEF StateOk, StoreOk, HandedOk, AliasResolves, TableOk, Distinct
  <2>3. LinkOk'
    BY <1>0, <2>1 DEF LinkOk, TableKnown, TableMayBeKnown, AnswersOk, PacketOk, Means, MayMean, Unknown, NamesTopic
  <2> QED BY <2>2, <2>3 DEF AliasInv
<1> QED BY <1>1, <1>2, <1>3, <1>4, <1>5, <1>6, <1>7, <1>8, <1>9, <1>10 DEF Next

THEOREM AliasInvAlways == Spec => []AliasInv
BY AliasAssumption, AliasInvInit, AliasInvStep, PTL DEF Spec

-----------------------------------------------------------------------------
(* What follows.                                                             *)

\* get_lru_alias (topic_alias_send.hpp:111) always has an alias to return, for
\* any number of aliases: whatever topics and aliases the application combines,
\* no alias and no topic is in the table twice, and none that is in it is vacant.
THEOREM AliasAlwaysAvailable == Spec => []AliasAvailable
<1>1. AliasInv => AliasAvailable
  <2> SUFFICES ASSUME AliasInv PROVE AliasAvailable
    OBVIOUS
  <2>1. TableOk(table) /\ DOMAIN table.entries = 1..Len(table.entries)
    BY DEF AliasInv, StateOk, TableOk
  <2> QED BY <2>1 DEF AliasAvailable, TableOk, Distinct
<1> QED BY <1>1, AliasInvAlways, PTL

\* From CONNACK on both tables agree across the packets under way, those from
\* before CONNACK included: endpoint.hpp may leave a topic out after any history
\* of remappings, reconnections, stored messages and announced maxima.
THEOREM TablesAlwaysAgree == Spec => []TablesAgree
<1>1. AliasInv => TablesAgree
  <2> SUFFICES ASSUME AliasInv, link = "up", NEW n \in DOMAIN table.entries
               PROVE  WillBe(table.entries[n].alias) = table.entries[n].topic
    BY DEF TablesAgree
  <2>1. TableOk(table) /\ wire \in Seq(Publishes) /\ TableKnown
    BY DEF AliasInv, StateOk, LinkOk
  <2>2. n \in 1..Len(table.entries)
    BY <2>1 DEF TableOk
  <2>3. table.entries[n].topic \in Topics
    BY <2>1, <2>2, EntryOf
  <2>4. Means(wire, map, Len(wire), table.entries[n].alias, table.entries[n].topic)
    BY <2>1, <2>2 DEF TableKnown
  <2> QED BY <2>1, <2>3, <2>4, MeansWillBe
<1> QED BY <1>1, AliasInvAlways, PTL

\* process_publish hands a message over under the topic the application meant
\* when it published it, on whichever connection it arrives, and refuses none
\* but one published between CONNECT and CONNACK.
THEOREM AliasAlwaysResolves == Spec => []AliasResolves
<1>1. AliasInv => AliasResolves
  BY DEF AliasInv, HandedOk
<1> QED BY <1>1, AliasInvAlways, PTL
=============================================================================
