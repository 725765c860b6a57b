--------------------------- MODULE EndpointProofs ---------------------------
(* Safety of the client's session, for any messages, packet ids and broken    *)
(* connections of an application that is Tidy: SessionInv is inductive, and    *)
(* so is OnceDelivered next to it.                                            *)
EXTENDS Endpoint, CollectionLemmas

\* Entries with places of their own, in an order therefore.
Placed(entries) ==
  /\ IsFiniteSet(entries)
  /\ \A e \in entries : e.at \in Nat
  /\ \A e, other \in entries : e.at = other.at => e = other

LEMMA Newest ==
  ASSUME NEW S, IsFiniteSet(S), S # {}, \A e \in S : e.at \in Nat
  PROVE  \E e \in S : \A other \in S : other.at <= e.at
<1> DEFINE Tops == {A \in SUBSET S : A # {} /\ \A x \in S : \E y \in A : x.at <= y.at}
<1>1. S \in Tops
  OBVIOUS
<1>2. PICK A \in Tops : \A B \in Tops : B \subseteq A => B = A
  <2> HIDE DEF Tops
  <2>1. Tops \subseteq SUBSET S
    BY DEF Tops
  <2> QED BY <1>1, <2>1, SmallestSubset
<1>3. PICK a \in A : TRUE
  BY <1>2
<1>4. \A b \in A : b = a
  <2>1. SUFFICES ASSUME NEW b \in A, b # a PROVE FALSE
    OBVIOUS
  <2>2. PICK low \in {a, b}, high \in {a, b} : low # high /\ low.at <= high.at
    <3>1. a.at \in Nat /\ b.at \in Nat
      BY <1>2, <1>3, <2>1
    <3>2. CASE a.at <= b.at
      BY <3>2, <2>1
    <3>3. CASE b.at <= a.at
      BY <3>3, <2>1
    <3> QED BY <3>1, <3>2, <3>3
  <2>3. A \ {low} \in Tops
    <3>1. low \in A /\ high \in A /\ high \in A \ {low} /\ A \subseteq S
      BY <1>2, <1>3, <2>1, <2>2
    <3>2. ASSUME NEW x \in S PROVE \E y \in A \ {low} : x.at <= y.at
      <4>1. PICK y \in A : x.at <= y.at
        BY <1>2
      <4>2. CASE y = low
        BY <3>1, <4>1, <4>2, <2>2
      <4>3. CASE y # low
        BY <4>1, <4>3
      <4> QED BY <4>2, <4>3
    <3> QED BY <3>1, <3>2
  <2> QED BY <2>3, <1>2, <1>3, <2>1, <2>2
<1> QED BY <1>2, <1>3, <1>4

LEMMA PlaceAfterAll ==
  ASSUME NEW S, IsFiniteSet(S), \A e \in S : e.at \in Nat
  PROVE  /\ PlaceAfter(S) \in Nat
         /\ \A e \in S : e.at < PlaceAfter(S)
<1> DEFINE Places == {0} \cup {e.at : e \in S}
<1>1. \E x \in Places : \A y \in Places : x >= y
  <2>1. CASE S = {}
    BY <2>1
  <2>2. CASE S # {}
    <3>1. PICK e \in S : \A other \in S : other.at <= e.at
      BY <2>2, Newest
    <3> QED BY <3>1
  <2> QED BY <2>1, <2>2
<1>2. Max(Places) \in Places /\ \A y \in Places : Max(Places) >= y
  <2>1. Max(Places) = CHOOSE x \in Places : \A y \in Places : x >= y
    BY DEF Max
  <2> HIDE DEF Places
  <2> QED BY <1>1, <2>1
<1>3. PlaceAfter(S) = 1 + Max(Places)
  BY DEF PlaceAfter
<1>4. Places \subseteq Nat /\ \A e \in S : e.at \in Places
  OBVIOUS
<1> HIDE DEF Places
<1>5. PlaceAfter(S) \in Nat
  <2>1. Max(Places) \in Nat
    BY <1>2, <1>4
  <2> QED BY <2>1, <1>3
<1>6. ASSUME NEW e \in S PROVE e.at < PlaceAfter(S)
  <2>1. e.at \in Nat /\ Max(Places) \in Nat /\ Max(Places) >= e.at
    BY <1>2, <1>4
  <2> QED BY <2>1, <1>3
<1> QED BY <1>5, <1>6

ByPlace(s, S) ==
  /\ s \in [1..Cardinality(S) -> S]
  /\ \A m, n \in DOMAIN s : m < n => s[m].at < s[n].at

LEMMA SortedExists ==
  ASSUME NEW S, Placed(S)
  PROVE  ByPlace(Sorted(S), S)
<1> DEFINE Unsorted == {A \in SUBSET S : ~ \E s : ByPlace(s, A)}
<1>1. Unsorted = {}
  <2>1. SUFFICES ASSUME Unsorted # {} PROVE FALSE
    OBVIOUS
  <2>2. PICK A \in Unsorted : \A B \in Unsorted : B \subseteq A => B = A
    <3>1. Unsorted \subseteq SUBSET S
      OBVIOUS
    <3> HIDE DEF Unsorted
    <3> QED BY <2>1, <3>1, SmallestSubset DEF Placed
  <2>3. IsFiniteSet(A) /\ A \subseteq S
    BY <2>2, FS_Subset DEF Placed
  <2>4. A # {}
    <3>1. SUFFICES ASSUME A = {} PROVE FALSE
      OBVIOUS
    <3>2. Cardinality(A) = 0
      BY <3>1, FS_EmptySet
    <3>3. ByPlace([n \in 1..0 |-> 0], A)
      BY <3>1, <3>2 DEF ByPlace
    <3> QED BY <3>3, <2>2
  <2>5. PICK e \in A : \A other \in A : other.at <= e.at
    BY <2>3, <2>4, Newest DEF Placed
  <2>6. PICK s : ByPlace(s, A \ {e})
    <3>1. A \ {e} \in SUBSET S /\ A \ {e} # A
      BY <2>3, <2>5
    <3> QED BY <2>2, <3>1
  <2>7. /\ Cardinality(A) \in Nat /\ Cardinality(A) # 0
        /\ Cardinality(A \ {e}) = Cardinality(A) - 1
    BY <2>3, <2>5, FS_RemoveElement, FS_CardinalityType, FS_EmptySet
  <2> DEFINE c == Cardinality(A)
             t == [n \in 1..c |-> IF n = c THEN e ELSE s[n]]
  <2>8. ByPlace(t, A)
    <3>1. \A n \in 1..c : n # c => n \in 1..(c - 1) /\ s[n] \in A \ {e}
      <4>1. s \in [1..(c - 1) -> A \ {e}]
        BY <2>6, <2>7 DEF ByPlace
      <4> HIDE DEF t
      <4> QED BY <4>1, <2>7
    <3>2. t \in [1..c -> A]
      BY <3>1, <2>5
    <3>3. ASSUME NEW m \in 1..c, NEW n \in 1..c, m < n PROVE t[m].at < t[n].at
      <4>1. m # c /\ m \in 1..(c - 1) /\ s[m] \in A \ {e}
        BY <3>1, <3>3, <2>7
      <4>2. CASE n = c
        <5>1. s[m].at <= e.at /\ s[m].at # e.at /\ s[m].at \in Nat /\ e.at \in Nat
          BY <4>1, <2>3, <2>5 DEF Placed
        <5> QED BY <4>1, <4>2, <5>1
      <4>3. CASE n # c
        <5>1. n \in 1..(c - 1) /\ DOMAIN s = 1..(c - 1)
          BY <3>1, <4>3, <2>6, <2>7 DEF ByPlace
        <5>2. s[m].at < s[n].at
          BY <4>1, <5>1, <3>3, <2>6 DEF ByPlace
        <5> QED BY <4>1, <4>3, <5>2
      <4> QED BY <4>2, <4>3
    <3> QED BY <3>2, <3>3 DEF ByPlace
  <2> QED BY <2>2, <2>8
<1>2. \E s : ByPlace(s, S)
  BY <1>1
<1>3. \E s \in [1..Cardinality(S) -> S] : \A m, n \in DOMAIN s : m < n => s[m].at < s[n].at
  BY <1>2 DEF ByPlace
<1> QED BY <1>3 DEF Sorted, ByPlace
-----------------------------------------------------------------------------
\* The application publishes and subscribes when it is connected, or publishes
\* offline; and no id of a request is released a second time.
Tidy ==
  /\ "open" \notin PublishIn /\ SubscribeIn \subseteq {"up"}
  /\ MaxSubs = 0 \/ MaxBreaks <= 1

Kinds == {"connect", "publish", "puback", "pubrec", "pubrel", "pubcomp", "subscribe", "suback"}
Packets == [kind : Kinds, id : Nat, msg : Msgs \cup InMsgs \cup {NoMsg}]
Connacks == [kind : {"connack"}, present : BOOLEAN]
Entries(messages) == [id : Ids, expect : Acks, msg : messages, at : Nat]

TypeInv ==
  /\ link \in {"down", "open", "up"} /\ wire \in BOOLEAN /\ session \in BOOLEAN
  /\ store \subseteq Entries(Msgs \cup {NoMsg}) /\ Placed(store)
  /\ outgoing \subseteq Entries(InMsgs) /\ Placed(outgoing)
  /\ free \subseteq Ids /\ pending \subseteq Ids /\ subUnsubInflight \subseteq Ids
  /\ toBroker \in Seq(Packets) /\ toClient \in Seq(Packets \cup Connacks)
  /\ published \in Seq(Msgs) /\ delivered \in Seq(Msgs \cup InMsgs \cup {NoMsg})
  /\ subRequests \in 0..MaxSubs /\ breaks \in 0..MaxBreaks

\* An entry waits for the answer its message calls for; ids and messages are
\* in one entry each.
StoreInv ==
  /\ \A e \in store : IF e.expect = "pubcomp" THEN e.msg = NoMsg
                      ELSE e.msg \in Msgs /\ e.expect = AckFor(e.msg) /\ Contains(published, e.msg)
  /\ \A e, other \in store : e.msg = other.msg /\ e.msg # NoMsg => e = other
  /\ IdsAreUnique

\* On their way: what asks the broker for an answer, and the answers.
Asks == {"publish", "pubrel", "subscribe"}
Answers == {"puback", "pubrec", "pubcomp", "suback"}
Asking == {n \in 1..Len(toBroker) : toBroker[n].kind \in Asks}
Answering == {n \in 1..Len(toClient) : toClient[n].kind \in Answers}

\* Each belongs to what the client has stored or asked for, and no id is on its
\* way twice, in either direction.
AsksInv ==
  \A n \in Asking :
    /\ toBroker[n].kind = "publish" =>
         \E e \in store : e.id = toBroker[n].id /\ e.msg = toBroker[n].msg /\ e.expect # "pubcomp"
    /\ toBroker[n].kind = "pubrel" =>
         \E e \in store : e.id = toBroker[n].id /\ e.expect = "pubcomp"
    /\ toBroker[n].kind = "subscribe" => toBroker[n].id \in pending
AnswersInv ==
  \A n \in Answering :
    /\ toClient[n].kind # "suback" =>
         \E e \in store : e.id = toClient[n].id /\ e.expect = toClient[n].kind
    /\ toClient[n].kind \in {"puback", "pubrec"} =>
         \A e \in store : e.id = toClient[n].id => Contains(delivered, e.msg)
    /\ toClient[n].kind = "pubcomp" => toClient[n].id \notin received
    /\ toClient[n].kind = "suback" => toClient[n].id \in pending
OnceInv ==
  /\ \A m, n \in Asking : toBroker[m].id = toBroker[n].id => m = n
  /\ \A m, n \in Answering : toClient[m].id = toClient[n].id => m = n
  /\ \A m \in Asking, n \in Answering : toBroker[m].id # toClient[n].id

\* What a connection has come to.
LinkInv ==
  /\ ~wire => toBroker = <<>>
  /\ link = "down" => ~wire /\ toClient = <<>>
  /\ link = "open" => \/ toBroker = <<>>
                      \/ toBroker = <<ConnectPacket>> /\ toClient = <<>>
  /\ wire /\ (link = "open" => toBroker = <<>>) => session
  /\ link # "up" => Answering = {} /\ pending = {}
  /\ link = "up" => \A n \in 1..Len(toBroker) : toBroker[n].kind # "connect"
  /\ \A n \in 1..Len(toClient) : toClient[n].kind = "connack" =>
       /\ n = 1 /\ link = "open"
       /\ toClient[n].present => ~CleanSession
       /\ ~toClient[n].present => received = {}

\* As long as the ids of requests may still be released, nothing else has them.
Releasable == breaks = 0 \/ (link # "down" /\ ~wire)
RequestsInv ==
  /\ MaxSubs = 0 => subUnsubInflight = {}
  /\ breaks = 0 /\ link # "down" => wire
  /\ Releasable => /\ \A id \in subUnsubInflight : id \notin free
                   /\ \A e \in store : e.id \notin subUnsubInflight
                   /\ link # "up" => subUnsubInflight = {}

\* The ids the broker has noted are those of messages it has passed on.
ReceivedInv ==
  /\ ~session => received = {}
  /\ \A id \in received : \E e \in store :
       e.id = id /\ (e.expect = "pubcomp" \/ (e.expect = "pubrec" /\ Contains(delivered, e.msg)))
\* And it has noted the stored messages it passed on, unless it forgot the session since.
OnceDelivered ==
  /\ \A n \in DOMAIN delivered : Contains(published, delivered[n])
  /\ ~CleanSession \/ link = "up" =>
       \A e \in store : e.expect = "pubrec" /\ Contains(delivered, e.msg) =>
         e.id \in received \/ e.msg \in forgotten

SessionInv ==
  /\ TypeInv /\ StoreInv /\ AsksInv /\ AnswersInv /\ OnceInv /\ LinkInv /\ RequestsInv
  /\ ReceivedInv

-----------------------------------------------------------------------------
(* Queues.                                                                   *)
LEMMA Consumed ==
  ASSUME NEW S, NEW s \in Seq(S), s # <<>>
  PROVE  /\ Tail(s) \in Seq(S) /\ Len(Tail(s)) = Len(s) - 1 /\ Len(s) \in Nat \ {0}
         /\ 1 \in 1..Len(s) /\ Head(s) = s[1] /\ s[1] \in S
         /\ \A n \in 1..Len(Tail(s)) : n + 1 \in 1..Len(s) /\ Tail(s)[n] = s[n + 1] /\ s[n + 1] \in S
OBVIOUS

LEMMA Appended ==
  ASSUME NEW S, NEW s \in Seq(S), NEW x \in S
  PROVE  /\ s \o <<x>> = Append(s, x) /\ Append(s, x) \in Seq(S)
         /\ Len(Append(s, x)) = Len(s) + 1 /\ Len(s) \in Nat /\ Append(s, x)[Len(s) + 1] = x
         /\ \A n \in 1..(Len(s) + 1) : n \in 1..Len(s) \/ n = Len(s) + 1
         /\ \A n \in 1..Len(s) : Append(s, x)[n] = s[n] /\ s[n] \in S
OBVIOUS

LEMMA ContainsAppended ==
  ASSUME NEW S, NEW s \in Seq(S), NEW x \in S, NEW m
  PROVE  Contains(Append(s, x), m) <=> Contains(s, m) \/ m = x
<1>1. Len(Append(s, x)) = Len(s) + 1 /\ Len(s) \in Nat /\ Append(s, x)[Len(s) + 1] = x
  OBVIOUS
<1>2. \A n \in 1..Len(s) : Append(s, x)[n] = s[n]
  OBVIOUS
<1> QED BY <1>1, <1>2 DEF Contains

LEMMA SendOne ==
  ASSUME TypeInv, NEW p \in Packets, Send(<<p>>)
  PROVE  \/ toBroker' = toBroker
         \/ wire /\ link # "down" /\ toBroker' = Append(toBroker, p)
BY Appended DEF TypeInv, Send

-----------------------------------------------------------------------------
(* What a step leaves alone.                                                 *)
LEMMA StoreFrame == StoreInv /\ UNCHANGED <<store, free, pending, published>> => StoreInv'
BY DEF StoreInv, IdsAreUnique
LEMMA AsksFrame == AsksInv /\ UNCHANGED <<toBroker, store, pending>> => AsksInv'
BY DEF AsksInv, Asking
LEMMA AnswersFrame ==
  AnswersInv /\ UNCHANGED <<toClient, store, delivered, received, pending>> => AnswersInv'
BY DEF AnswersInv, Answering
LEMMA OnceFrame == OnceInv /\ UNCHANGED <<toBroker, toClient>> => OnceInv'
BY DEF OnceInv, Asking, Answering
LEMMA RequestsFrame ==
  RequestsInv /\ UNCHANGED <<subUnsubInflight, breaks, link, wire, free, store>> => RequestsInv'
BY DEF RequestsInv, Releasable
LEMMA ReceivedFrame ==
  ReceivedInv /\ UNCHANGED <<session, received, store, delivered>> => ReceivedInv'
BY DEF ReceivedInv

-----------------------------------------------------------------------------
(* What reading and writing does to the packets on their way.                *)
LEMMA ClientReads ==
  ASSUME TypeInv, NEW kind, Receives(kind)
  PROVE  /\ toClient' \in Seq(Packets \cup Connacks)
         /\ 1 \in 1..Len(toClient) /\ Head(toClient) = toClient[1] /\ toClient[1].kind = kind
         /\ toClient[1] \in Packets \cup Connacks
         /\ kind # "connack" => toClient[1] \in Packets
         /\ kind \in Answers => 1 \in Answering
         /\ \A n \in 1..Len(toClient') :
              n + 1 \in 1..Len(toClient) /\ n + 1 # 1 /\ toClient'[n] = toClient[n + 1]
         /\ \A n \in Answering' : n + 1 \in Answering /\ n + 1 # 1 /\ toClient'[n] = toClient[n + 1]
<1>1. toClient \in Seq(Packets \cup Connacks) /\ toClient # <<>> /\ toClient' = Tail(toClient)
  BY DEF TypeInv, Receives
<1>2. /\ toClient' \in Seq(Packets \cup Connacks)
      /\ 1 \in 1..Len(toClient) /\ Head(toClient) = toClient[1]
      /\ toClient[1] \in Packets \cup Connacks
      /\ \A n \in 1..Len(toClient') : n + 1 \in 1..Len(toClient) /\ toClient'[n] = toClient[n + 1]
      /\ Len(toClient') \in Nat
  BY <1>1, Consumed
<1>3. toClient[1].kind = kind /\ (kind # "connack" => toClient[1] \in Packets)
  BY <1>2 DEF Receives, Connacks
<1>4. \A n \in 1..Len(toClient') : n + 1 # 1
  BY <1>2
<1>5. kind \in Answers => 1 \in Answering
  BY <1>2, <1>3 DEF Answering
<1>6. \A n \in Answering' : n \in 1..Len(toClient') /\ n + 1 \in Answering
  BY <1>2 DEF Answering
<1> QED BY <1>2, <1>3, <1>4, <1>5, <1>6

LEMMA BrokerTakes ==
  ASSUME TypeInv, NEW kind, BrokerReads(kind)
  PROVE  /\ toBroker' \in Seq(Packets)
         /\ 1 \in 1..Len(toBroker) /\ Head(toBroker) = toBroker[1] /\ toBroker[1].kind = kind
         /\ toBroker[1] \in Packets
         /\ kind \in Asks => 1 \in Asking
         /\ \A n \in 1..Len(toBroker') :
              n + 1 \in 1..Len(toBroker) /\ n + 1 # 1 /\ toBroker'[n] = toBroker[n + 1]
         /\ \A n \in Asking' : n + 1 \in Asking /\ n + 1 # 1 /\ toBroker'[n] = toBroker[n + 1]
<1>1. toBroker \in Seq(Packets) /\ toBroker # <<>> /\ toBroker' = Tail(toBroker)
  BY DEF TypeInv, BrokerReads
<1>2. /\ toBroker' \in Seq(Packets)
      /\ 1 \in 1..Len(toBroker) /\ Head(toBroker) = toBroker[1]
      /\ toBroker[1] \in Packets
      /\ \A n \in 1..Len(toBroker') : n + 1 \in 1..Len(toBroker) /\ toBroker'[n] = toBroker[n + 1]
      /\ Len(toBroker') \in Nat
  BY <1>1, Consumed
<1>3. toBroker[1].kind = kind
  BY <1>2 DEF BrokerReads
<1>4. \A n \in 1..Len(toBroker') : n + 1 # 1
  BY <1>2
<1>5. kind \in Asks => 1 \in Asking
  BY <1>2, <1>3 DEF Asking
<1>6. \A n \in Asking' : n \in 1..Len(toBroker') /\ n + 1 \in Asking
  BY <1>2 DEF Asking
<1> QED BY <1>2, <1>3, <1>4, <1>5, <1>6

\* The client writes p.
Writes(p) == wire /\ link # "down" /\ toBroker' = Append(toBroker, p)

LEMMA ClientWrites ==
  ASSUME TypeInv, NEW p \in Packets, Writes(p)
  PROVE  /\ toBroker' \in Seq(Packets)
         /\ \A n \in 1..Len(toBroker') :
              \/ n \in 1..Len(toBroker) /\ toBroker'[n] = toBroker[n]
              \/ toBroker'[n] = p /\ n = Len(toBroker) + 1
         /\ \A n \in Asking' :
              \/ n \in Asking /\ toBroker'[n] = toBroker[n]
              \/ toBroker'[n] = p /\ n = Len(toBroker) + 1 /\ p.kind \in Asks
<1>1. /\ toBroker' \in Seq(Packets) /\ Len(toBroker') = Len(toBroker) + 1
      /\ toBroker'[Len(toBroker) + 1] = p
      /\ \A n \in 1..(Len(toBroker) + 1) : n \in 1..Len(toBroker) \/ n = Len(toBroker) + 1
      /\ \A n \in 1..Len(toBroker) : toBroker'[n] = toBroker[n]
  BY Appended DEF TypeInv, Writes
<1> QED BY <1>1 DEF Asking

LEMMA BrokerWrites ==
  ASSUME TypeInv, NEW p \in Packets, toClient' = Append(toClient, p)
  PROVE  /\ toClient' \in Seq(Packets \cup Connacks)
         /\ \A n \in 1..Len(toClient') :
              \/ n \in 1..Len(toClient) /\ toClient'[n] = toClient[n]
              \/ toClient'[n] = p /\ n = Len(toClient) + 1
         /\ \A n \in Answering' :
              \/ n \in Answering /\ toClient'[n] = toClient[n]
              \/ toClient'[n] = p /\ n = Len(toClient) + 1 /\ p.kind \in Answers
<1>1. /\ toClient' \in Seq(Packets \cup Connacks) /\ Len(toClient') = Len(toClient) + 1
      /\ toClient'[Len(toClient) + 1] = p
      /\ \A n \in 1..(Len(toClient) + 1) : n \in 1..Len(toClient) \/ n = Len(toClient) + 1
      /\ \A n \in 1..Len(toClient) : toClient'[n] = toClient[n]
  BY Appended DEF TypeInv
<1> QED BY <1>1 DEF Answering

\* An id the client may hand out is not on its way.
LEMMA FreeIsIdle ==
  ASSUME StoreInv, AsksInv, AnswersInv, NEW id \in free
  PROVE  /\ \A n \in Asking : toBroker[n].id # id
         /\ \A n \in Answering : toClient[n].id # id
BY DEF StoreInv, IdsAreUnique, AsksInv, AnswersInv, Asking, Answering, Asks, Answers

\* What is not a CONNECT reaches the broker when the client has its CONNACK.
LEMMA OpenSaysConnect ==
  ASSUME TypeInv, LinkInv, toBroker # <<>>
  PROVE  wire /\ (link = "up" \/ (link = "open" /\ Head(toBroker) = ConnectPacket /\ toClient = <<>>))
BY DEF TypeInv, LinkInv

\* One packet taken from the broker, and at most its answer written.
LEMMA OnceTaken ==
  ASSUME TypeInv, OnceInv, NEW kind, Receives(kind), NEW p \in Packets,
         toBroker' = toBroker \/ Writes(p),
         p.kind \in Asks => kind \in Answers /\ p.id = Head(toClient).id
  PROVE  OnceInv'
<1>1. /\ Head(toClient) = toClient[1] /\ (kind \in Answers => 1 \in Answering)
      /\ \A n \in Answering' : n \in Nat /\ n + 1 \in Answering /\ n + 1 # 1 /\ toClient'[n] = toClient[n + 1]
  BY ClientReads DEF Answering
<1>2. \A n \in Asking' :
        \/ n \in Asking /\ toBroker'[n] = toBroker[n]
        \/ /\ toBroker'[n] = p /\ n = Len(toBroker) + 1 /\ p.kind \in Asks
           /\ 1 \in Answering /\ p.id = toClient[1].id
  BY <1>1, ClientWrites DEF Asking
<1>3. \A m, n \in Asking' : toBroker'[m].id = toBroker'[n].id => m = n
  BY <1>2 DEF OnceInv
<1>4. \A m, n \in Answering' : toClient'[m].id = toClient'[n].id => m = n
  <2> SUFFICES ASSUME NEW m \in Answering', NEW n \in Answering', toClient'[m].id = toClient'[n].id
               PROVE  m = n
    OBVIOUS
  <2>1. m + 1 = n + 1
    BY <1>1 DEF OnceInv
  <2>2. m \in Nat /\ n \in Nat
    BY <1>1
  <2> QED BY <2>1, <2>2
<1>5. \A m \in Asking', n \in Answering' : toBroker'[m].id # toClient'[n].id
  BY <1>1, <1>2 DEF OnceInv
<1> QED BY <1>3, <1>4, <1>5 DEF OnceInv

\* One packet taken by the broker, and at most its answer written.
LEMMA OnceAnswered ==
  ASSUME TypeInv, OnceInv, NEW kind, BrokerReads(kind), NEW p \in Packets,
         toClient' = toClient \/ toClient' = Append(toClient, p),
         p.kind \in Answers => kind \in Asks /\ p.id = Head(toBroker).id
  PROVE  OnceInv'
<1>1. /\ Head(toBroker) = toBroker[1] /\ (kind \in Asks => 1 \in Asking)
      /\ \A n \in Asking' : n \in Nat /\ n + 1 \in Asking /\ n + 1 # 1 /\ toBroker'[n] = toBroker[n + 1]
  BY BrokerTakes DEF Asking
<1>2. \A n \in Answering' :
        \/ n \in Answering /\ toClient'[n] = toClient[n]
        \/ /\ toClient'[n] = p /\ n = Len(toClient) + 1 /\ p.kind \in Answers
           /\ 1 \in Asking /\ p.id = toBroker[1].id
  BY <1>1, BrokerWrites DEF Answering
<1>3. \A m, n \in Answering' : toClient'[m].id = toClient'[n].id => m = n
  BY <1>2 DEF OnceInv
<1>4. \A m, n \in Asking' : toBroker'[m].id = toBroker'[n].id => m = n
  <2> SUFFICES ASSUME NEW m \in Asking', NEW n \in Asking', toBroker'[m].id = toBroker'[n].id
               PROVE  m = n
    OBVIOUS
  <2>1. m + 1 = n + 1
    BY <1>1 DEF OnceInv
  <2>2. m \in Nat /\ n \in Nat
    BY <1>1
  <2> QED BY <2>1, <2>2
<1>5. \A m \in Asking', n \in Answering' : toBroker'[m].id # toClient'[n].id
  BY <1>1, <1>2 DEF OnceInv
<1> QED BY <1>3, <1>4, <1>5 DEF OnceInv

\* Packets of the client are still on their way after the broker reads or the
\* client writes.
LEMMA AsksTaken ==
  ASSUME TypeInv, AsksInv, NEW kind, BrokerReads(kind), UNCHANGED <<store, pending>>
  PROVE  AsksInv'
BY BrokerTakes DEF AsksInv

LEMMA AnswersTaken ==
  ASSUME TypeInv, AnswersInv, NEW kind, Receives(kind),
         UNCHANGED <<store, delivered, received, pending>>
  PROVE  AnswersInv'
BY ClientReads DEF AnswersInv

-----------------------------------------------------------------------------
(* The session invariant, action by action: the connection.                  *)
LEMMA ConnectStep == ASSUME Tidy, SessionInv, Connect PROVE SessionInv'
<1> USE DEF SessionInv, Connect, senderVars, receiverVars, brokerVars, outVars
<1>1. /\ toBroker' = <<ConnectPacket>> /\ toClient' = <<>> /\ ConnectPacket \in Packets
      /\ ConnectPacket.kind \notin Asks /\ Len(toBroker') = 1 /\ Len(toClient') = 0
      /\ toBroker'[1] = ConnectPacket
  BY DEF ConnectPacket, Packet, Packets, Kinds, Asks
<1>2. Asking' = {} /\ Answering' = {}
  BY <1>1 DEF Asking, Answering
<1>3. TypeInv'
  <2>1. toBroker' \in Seq(Packets) /\ toClient' \in Seq(Packets \cup Connacks)
    BY <1>1
  <2> QED BY <2>1 DEF TypeInv, Placed
<1>4. StoreInv'
  BY StoreFrame
<1>5. AsksInv' /\ AnswersInv' /\ OnceInv'
  BY <1>2 DEF AsksInv, AnswersInv, OnceInv
<1>6. LinkInv'
  BY <1>1, <1>2 DEF LinkInv
<1>7. RequestsInv'
  BY DEF RequestsInv, Releasable, LinkInv
<1>8. ReceivedInv'
  BY ReceivedFrame
<1> QED BY <1>3, <1>4, <1>5, <1>6, <1>7, <1>8

LEMMA WireBreaksStep == ASSUME Tidy, SessionInv, WireBreaks PROVE SessionInv'
<1> USE DEF SessionInv, WireBreaks, clientVars, senderVars, receiverVars, brokerVars, outVars
<1>1. Asking' = {} /\ Len(toBroker') = 0 /\ toBroker' \in Seq(Packets)
  BY DEF Asking
<1>2. /\ breaks' \in 0..MaxBreaks /\ breaks' # 0 /\ link # "down"
      /\ MaxSubs # 0 => breaks = 0
  <2>1. MaxBreaks \in Nat /\ breaks \in Nat /\ breaks < MaxBreaks /\ breaks' = breaks + 1
    BY EndpointAssumption DEF TypeInv
  <2>2. breaks' \in 0..MaxBreaks /\ breaks' # 0
    BY <2>1
  <2>3. MaxBreaks <= 1 => breaks = 0
    BY <2>1
  <2> QED BY <2>2, <2>3 DEF Tidy, LinkInv
<1>3. TypeInv'
  BY <1>1, <1>2 DEF TypeInv, Placed
<1>4. StoreInv'
  BY StoreFrame
<1>5. AsksInv'
  BY <1>1 DEF AsksInv
<1>6. AnswersInv'
  BY AnswersFrame
<1>7. OnceInv'
  BY <1>1 DEF OnceInv, Answering
<1>8. LinkInv'
  BY <1>1, <1>2 DEF LinkInv, Answering
<1>9. RequestsInv'
  BY <1>2 DEF RequestsInv, Releasable
<1>10. ReceivedInv'
  BY ReceivedFrame
<1> QED BY <1>3, <1>4, <1>5, <1>6, <1>7, <1>8, <1>9, <1>10

LEMMA ConnectionLostStep == ASSUME Tidy, SessionInv, ConnectionLost PROVE SessionInv'
<1> USE DEF SessionInv, ConnectionLost, senderVars, receiverVars, brokerVars, outVars
<1>1. Answering' = {} /\ Len(toClient') = 0 /\ toClient' \in Seq(Packets \cup Connacks)
  BY DEF Answering
<1>2. toBroker = <<>> /\ Asking = {} /\ Asking' = {}
  BY DEF LinkInv, Asking
<1>3. TypeInv'
  BY <1>1 DEF TypeInv, Placed
<1>4. StoreInv'
  BY DEF StoreInv, IdsAreUnique, RequestsInv, Releasable
<1>5. AsksInv' /\ AnswersInv' /\ OnceInv'
  BY <1>1, <1>2 DEF AsksInv, AnswersInv, OnceInv
<1>6. LinkInv'
  BY <1>1, <1>2 DEF LinkInv
<1>7. RequestsInv'
  BY DEF RequestsInv, Releasable
<1>8. ReceivedInv'
  BY ReceivedFrame
<1> QED BY <1>3, <1>4, <1>5, <1>6, <1>7, <1>8

LEMMA BrokerForgetsStep == ASSUME Tidy, SessionInv, BrokerForgets PROVE SessionInv'
<1> USE DEF SessionInv, BrokerForgets, clientVars, senderVars, receiverVars, netVars
<1>1. TypeInv'
  BY FS_EmptySet DEF TypeInv, Placed
<1>2. StoreInv'
  BY StoreFrame
<1>3. AsksInv'
  BY AsksFrame
<1>4. AnswersInv'
  BY DEF AnswersInv, Answering
<1>5. OnceInv'
  BY OnceFrame
<1>6. LinkInv'
  BY DEF LinkInv, Answering
<1>7. RequestsInv'
  BY RequestsFrame
<1>8. ReceivedInv'
  BY DEF ReceivedInv
<1> QED BY <1>1, <1>2, <1>3, <1>4, <1>5, <1>6, <1>7, <1>8

-----------------------------------------------------------------------------
(* The messages for the client.                                              *)
LEMMA OnPublishStep == ASSUME Tidy, SessionInv, OnPublish PROVE SessionInv'
<1> USE DEF SessionInv, OnPublish, senderVars, brokerVars, outVars
<1> DEFINE p == Packet(AckFor(Head(toClient).msg), Head(toClient).id, NoMsg)
<1>1. Receives("publish") /\ link = "up" /\ link' = link
  BY DEF Receives
<1>2. p \in Packets /\ p.kind \notin Asks /\ p.kind # "connect"
  <2>1. Head(toClient) \in Packets
    BY <1>1, ClientReads
  <2> QED BY <2>1 DEF Packet, Packets, Kinds, Asks, AckFor
<1>3. toBroker' = toBroker \/ Writes(p)
  BY <1>2, SendOne DEF Writes
<1> HIDE DEF p
<1>4. TypeInv'
  BY <1>1, <1>2, <1>3, ClientReads, ClientWrites DEF TypeInv, Placed
<1>5. StoreInv'
  BY StoreFrame
<1>6. AsksInv'
  BY <1>2, <1>3, ClientWrites, AsksFrame, SMTT(30) DEF AsksInv
<1>7. AnswersInv'
  BY <1>1, AnswersTaken
<1>8. OnceInv'
  BY <1>1, <1>2, <1>3, OnceTaken
<1>9. LinkInv'
  BY <1>1, <1>2, <1>3, ClientReads, ClientWrites DEF LinkInv, Writes
<1>10. RequestsInv'
  BY <1>1, RequestsFrame
<1>11. ReceivedInv'
  BY ReceivedFrame
<1> QED BY <1>4, <1>5, <1>6, <1>7, <1>8, <1>9, <1>10, <1>11

LEMMA OnPubrelStep == ASSUME Tidy, SessionInv, OnPubrel PROVE SessionInv'
<1> USE DEF SessionInv, OnPubrel, senderVars, brokerVars, outVars
<1> DEFINE p == Packet("pubcomp", Head(toClient).id, NoMsg)
<1>1. Receives("pubrel") /\ link = "up" /\ link' = link
  BY DEF Receives
<1>2. p \in Packets /\ p.kind \notin Asks /\ p.kind # "connect"
  <2>1. Head(toClient) \in Packets
    BY <1>1, ClientReads
  <2> QED BY <2>1 DEF Packet, Packets, Kinds, Asks
<1>3. toBroker' = toBroker \/ Writes(p)
  BY <1>2, SendOne DEF Writes
<1> HIDE DEF p
<1>4. TypeInv'
  BY <1>1, <1>2, <1>3, ClientReads, ClientWrites DEF TypeInv, Placed
<1>5. StoreInv'
  BY StoreFrame
<1>6. AsksInv'
  BY <1>2, <1>3, ClientWrites, AsksFrame DEF AsksInv
<1>7. AnswersInv'
  BY <1>1, AnswersTaken
<1>8. OnceInv'
  BY <1>1, <1>2, <1>3, OnceTaken
<1>9. LinkInv'
  BY <1>1, <1>2, <1>3, ClientReads, ClientWrites DEF LinkInv, Writes
<1>10. RequestsInv'
  BY <1>1, RequestsFrame
<1>11. ReceivedInv'
  BY ReceivedFrame
<1> QED BY <1>4, <1>5, <1>6, <1>7, <1>8, <1>9, <1>10, <1>11

LEMMA BrokerAckedStep == ASSUME Tidy, SessionInv, BrokerAcked PROVE SessionInv'
<1> USE DEF SessionInv, BrokerAcked, clientVars, senderVars, receiverVars
<1>1. PICK kind \in {"puback", "pubcomp"} : BrokerReads(kind)
  OBVIOUS
<1>2. UNCHANGED <<clientVars, wire, breaks>>
  BY <1>1 DEF BrokerReads
<1>3. outgoing' \subseteq outgoing
  OBVIOUS
<1>4. TypeInv'
  BY <1>1, <1>2, <1>3, BrokerTakes, FS_Subset DEF TypeInv, Placed
<1>5. StoreInv'
  BY <1>2, StoreFrame
<1>6. AsksInv'
  BY <1>1, <1>2, AsksTaken
<1>7. AnswersInv'
  BY <1>2, AnswersFrame
<1>8. OnceInv'
  <2> DEFINE p == Packet("connect", 0, NoMsg)
  <2>1. p \in Packets /\ p.kind \notin Answers
    BY DEF Packet, Packets, Kinds, Answers
  <2> HIDE DEF p
  <2> QED BY <1>1, <2>1, OnceAnswered
<1>9. LinkInv'
  <2>1. link = "up" /\ wire
    BY <1>1, OpenSaysConnect DEF BrokerReads, ConnectPacket, Packet
  <2>2. \A n \in 1..Len(toBroker') : toBroker'[n].kind # "connect"
    BY <1>1, <2>1, BrokerTakes DEF LinkInv
  <2> QED BY <1>2, <2>1, <2>2 DEF LinkInv
<1>10. RequestsInv'
  BY <1>2, RequestsFrame
<1>11. ReceivedInv'
  BY <1>2, ReceivedFrame
<1> QED BY <1>4, <1>5, <1>6, <1>7, <1>8, <1>9, <1>10, <1>11

LEMMA BrokerPubrecStep == ASSUME Tidy, SessionInv, BrokerPubrec PROVE SessionInv'
<1> USE DEF SessionInv, BrokerPubrec, clientVars, senderVars, receiverVars
<1> DEFINE p == Packet("pubrel", Head(toBroker).id, NoMsg)
           acked == {e \in outgoing : e.id = Head(toBroker).id /\ e.expect = "pubrec"}
           turned == {[e EXCEPT !.expect = "pubcomp"] : e \in acked}
<1>1. BrokerReads("pubrec") /\ UNCHANGED <<clientVars, wire, breaks>>
  BY DEF BrokerReads
<1>2. p \in Packets /\ p.kind \notin Answers /\ p.kind # "connack"
  BY <1>1, BrokerTakes DEF Packet, Packets, Kinds, Answers
<1>3. toClient' = Append(toClient, p) /\ outgoing' = (outgoing \ acked) \cup turned
  OBVIOUS
<1>4. outgoing' \subseteq Entries(InMsgs) /\ Placed(outgoing')
  <2>1. outgoing \subseteq Entries(InMsgs) /\ Placed(outgoing)
    BY DEF TypeInv
  <2>2. acked \subseteq outgoing
    OBVIOUS
  <2> HIDE DEF acked
  <2>3. /\ \A e \in acked : [e EXCEPT !.expect = "pubcomp"].at = e.at
        /\ turned \subseteq Entries(InMsgs)
    BY <2>1, <2>2 DEF Entries, Acks
  <2>4. IsFiniteSet(acked) /\ IsFiniteSet(outgoing \ acked)
    BY <2>1, <2>2, FS_Subset, FS_Difference DEF Placed
  <2>5. IsFiniteSet(outgoing')
    <3> DEFINE turn == [e \in acked |-> [e EXCEPT !.expect = "pubcomp"]]
    <3>1. turn \in Surjection(acked, turned)
      BY DEF Surjection
    <3>2. IsFiniteSet(turned)
      BY <2>4, <3>1, FS_Surjection
    <3> HIDE DEF turn, turned
    <3>3. IsFiniteSet((outgoing \ acked) \cup turned)
      BY <2>4, <3>2, FS_Union
    <3> QED BY <1>3, <3>3
  <2>6. \A e \in outgoing' :
          e \in outgoing \ acked \/ \E o \in acked : e = [o EXCEPT !.expect = "pubcomp"]
    BY <1>3
  <2>7. \A e \in outgoing' : e.at \in Nat
    BY <2>1, <2>2, <2>3, <2>6, ZenonT(60) DEF Placed
  <2>8. ASSUME NEW e \in outgoing', NEW other \in outgoing', e.at = other.at PROVE e = other
    <3> HIDE DEF turned
    <3>1. PICK o \in outgoing :
            o.at = e.at /\ IF o \in acked THEN e = [o EXCEPT !.expect = "pubcomp"] ELSE e = o
      BY <2>2, <2>3, <2>6
    <3>2. PICK q \in outgoing :
            q.at = other.at /\ IF q \in acked THEN other = [q EXCEPT !.expect = "pubcomp"] ELSE other = q
      BY <2>2, <2>3, <2>6
    <3>3. o = q
      BY <2>1, <2>8, <3>1, <3>2 DEF Placed
    <3> QED BY <3>1, <3>2, <3>3
  <2>9. outgoing' \subseteq Entries(InMsgs)
    BY <1>3, <2>1, <2>3
  <2> QED BY <2>5, <2>7, <2>8, <2>9 DEF Placed
<1> HIDE DEF p, acked, turned
<1>5. TypeInv'
  <2>1. toBroker' \in Seq(Packets) /\ toClient' \in Seq(Packets \cup Connacks)
    BY <1>1, <1>2, <1>3, BrokerTakes, BrokerWrites
  <2> QED BY <1>1, <1>4, <2>1 DEF TypeInv, Placed
<1>6. StoreInv'
  BY <1>1, StoreFrame
<1>7. AsksInv'
  BY <1>1, AsksTaken
<1>8. \A n \in Answering' : n \in Answering /\ toClient'[n] = toClient[n]
  BY <1>2, <1>3, BrokerWrites
<1>9. AnswersInv'
  BY <1>1, <1>8 DEF AnswersInv
<1>10. OnceInv'
  BY <1>1, <1>2, <1>3, OnceAnswered
<1>11. LinkInv'
  <2>1. link = "up" /\ wire
    BY <1>1, OpenSaysConnect DEF BrokerReads, ConnectPacket, Packet
  <2> QED BY <1>1, <1>2, <1>3, <2>1, BrokerTakes, BrokerWrites, SMTT(30) DEF LinkInv
<1>12. RequestsInv'
  BY <1>1, RequestsFrame
<1>13. ReceivedInv'
  BY <1>1, ReceivedFrame
<1> QED BY <1>5, <1>6, <1>7, <1>9, <1>10, <1>11, <1>12, <1>13

LEMMA BrokerSendsStep ==
  ASSUME Tidy, SessionInv, NEW m \in InMsgs, BrokerSends(m) PROVE SessionInv'
<1> USE DEF SessionInv, BrokerSends, clientVars, senderVars, receiverVars
<1>1. PICK id \in Ids :
        /\ outgoing' = outgoing \cup {Entry(id, AckFor(m), m, PlaceAfter(outgoing))}
        /\ toClient' = IF Accepted THEN Append(toClient, Packet("publish", id, m)) ELSE toClient
  OBVIOUS
<1> DEFINE p == Packet("publish", id, m)
           e == Entry(id, AckFor(m), m, PlaceAfter(outgoing))
<1>2. p \in Packets /\ p.kind \notin Answers /\ p.kind # "connack"
  BY EndpointAssumption DEF Packet, Packets, Kinds, Answers, Ids
<1>3. toClient' = toClient \/ (Accepted /\ toClient' = Append(toClient, p))
  BY <1>1
<1>4. outgoing' \subseteq Entries(InMsgs) /\ Placed(outgoing')
  <2>1. outgoing \subseteq Entries(InMsgs) /\ Placed(outgoing)
    BY DEF TypeInv
  <2>2. /\ PlaceAfter(outgoing) \in Nat
        /\ \A o \in outgoing : o.at \in Nat /\ o.at < PlaceAfter(outgoing)
    BY <2>1, PlaceAfterAll DEF Placed
  <2>3. e \in Entries(InMsgs) /\ e.at = PlaceAfter(outgoing)
    BY <2>2 DEF Entry, Entries, Acks, AckFor
  <2> HIDE DEF e
  <2>4. outgoing' = outgoing \cup {e}
    BY <1>1 DEF e
  <2>5. IsFiniteSet(outgoing')
    BY <2>1, <2>4, FS_AddElement DEF Placed
  <2>6. \A o \in outgoing : o.at # e.at
    BY <2>2, <2>3
  <2> QED BY <2>1, <2>2, <2>3, <2>4, <2>5, <2>6 DEF Placed
<1>5. Accepted => wire /\ link # "down" /\ (link = "open" => toBroker = <<>>)
  <2>1. <<ConnectPacket>>[1] = ConnectPacket /\ 1 \in DOMAIN <<ConnectPacket>>
    OBVIOUS
  <2> QED BY <2>1 DEF Accepted, LinkInv, Range
<1> HIDE DEF p, e
<1>6. TypeInv'
  <2>1. toClient' \in Seq(Packets \cup Connacks)
    BY <1>2, <1>3, BrokerWrites DEF TypeInv
  <2> QED BY <1>4, <2>1 DEF TypeInv, Placed
<1>7. StoreInv'
  BY StoreFrame
<1>8. AsksInv'
  BY AsksFrame
<1>9. \A n \in Answering' : n \in Answering /\ toClient'[n] = toClient[n]
  BY <1>2, <1>3, BrokerWrites DEF Answering
<1>10. AnswersInv'
  BY <1>9, ZenonT(60) DEF AnswersInv
<1>11. OnceInv'
  <2>1. \A n \in Asking' : n \in Asking /\ toBroker'[n] = toBroker[n]
    BY DEF Asking
  <2> HIDE DEF BrokerSends
  <2> QED BY <1>9, <2>1 DEF OnceInv
<1>12. LinkInv'
  <2>1. \A n \in 1..Len(toClient') : toClient'[n].kind = "connack" =>
          n \in 1..Len(toClient) /\ toClient'[n] = toClient[n]
    BY <1>2, <1>3, BrokerWrites
  <2> QED BY <1>3, <1>5, <1>9, <2>1 DEF LinkInv
<1>13. RequestsInv'
  BY RequestsFrame
<1>14. ReceivedInv'
  BY ReceivedFrame
<1> QED BY <1>6, <1>7, <1>8, <1>10, <1>11, <1>12, <1>13, <1>14

LEMMA BrokerSubscribeStep == ASSUME Tidy, SessionInv, BrokerSubscribe PROVE SessionInv'
<1> USE DEF SessionInv, BrokerSubscribe, clientVars, senderVars, receiverVars, brokerVars, outVars
<1> DEFINE p == Packet("suback", Head(toBroker).id, NoMsg)
<1>1. BrokerReads("subscribe") /\ UNCHANGED <<clientVars, wire, breaks>>
  BY DEF BrokerReads
<1>2. /\ p \in Packets /\ p.kind = "suback" /\ p.id = Head(toBroker).id
      /\ toClient' = Append(toClient, p)
      /\ p.id \in pending /\ "subscribe" \in Asks
  BY <1>1, BrokerTakes DEF Packet, Packets, Kinds, AsksInv, Asks
<1> HIDE DEF p
<1>3. TypeInv'
  <2>1. toBroker' \in Seq(Packets) /\ toClient' \in Seq(Packets \cup Connacks)
    BY <1>1, <1>2, BrokerTakes, BrokerWrites
  <2> QED BY <1>1, <2>1 DEF TypeInv, Placed
<1>4. StoreInv'
  BY <1>1, StoreFrame
<1>5. AsksInv'
  BY <1>1, AsksTaken
<1>6. AnswersInv'
  <2>1. \A n \in Answering' : (n \in Answering /\ toClient'[n] = toClient[n]) \/ toClient'[n] = p
    BY <1>2, BrokerWrites
  <2> QED BY <1>1, <1>2, <2>1 DEF AnswersInv
<1>7. OnceInv'
  BY <1>1, <1>2, OnceAnswered
<1>8. LinkInv'
  BY <1>1, <1>2, BrokerTakes, BrokerWrites DEF LinkInv, ConnectPacket, Packet
<1>9. RequestsInv'
  BY <1>1, RequestsFrame
<1>10. ReceivedInv'
  BY <1>1, ReceivedFrame
<1> QED BY <1>3, <1>4, <1>5, <1>6, <1>7, <1>8, <1>9, <1>10

-----------------------------------------------------------------------------
(* What is resent: one packet of each entry.                                 *)
LEMMA InOrderResends ==
  ASSUME NEW S, Placed(S)
  PROVE  /\ InOrder(S) \in Seq({Resent(e) : e \in S})
         /\ Len(InOrder(S)) \in Nat
         /\ \A n \in 1..Len(InOrder(S)) : InOrder(S)[n] = Resent(Sorted(S)[n]) /\ Sorted(S)[n] \in S
         /\ \A m, n \in 1..Len(InOrder(S)) : Sorted(S)[m] = Sorted(S)[n] => m = n
<1> DEFINE c == Cardinality(S)
           s == Sorted(S)
<1>1. c \in Nat
  BY FS_CardinalityType DEF Placed
<1>2. s \in [1..c -> S] /\ \A m, n \in 1..c : m < n => s[m].at < s[n].at
  BY SortedExists DEF ByPlace
<1>3. InOrder(S) = [n \in 1..c |-> Resent(s[n])]
  BY DEF InOrder
<1> HIDE DEF c, s
<1>4. \A n \in 1..c : s[n] \in S
  BY <1>2
<1>5. InOrder(S) \in Seq({Resent(e) : e \in S}) /\ Len(InOrder(S)) = c
  BY <1>1, <1>3, <1>4
<1>6. ASSUME NEW m \in 1..c, NEW n \in 1..c, s[m] = s[n] PROVE m = n
  <2>1. s[m].at \in Nat /\ s[n].at \in Nat
    BY <1>4 DEF Placed
  <2>2. ~ (m < n) /\ ~ (n < m)
    BY <1>2, <1>6, <2>1
  <2> QED BY <1>1, <2>2
<1> QED BY <1>1, <1>3, <1>4, <1>5, <1>6 DEF s

LEMMA StoredAsks ==
  ASSUME TypeInv, StoreInv
  PROVE  /\ Stored \in Seq(Packets) /\ Len(Stored) \in Nat
         /\ \A n \in 1..Len(Stored) : Stored[n].kind # "connect"
         /\ \A n \in 1..Len(Stored) : \E e \in store :
              IF e.expect = "pubcomp" THEN Stored[n] = Packet("pubrel", e.id, NoMsg)
              ELSE Stored[n] = Packet("publish", e.id, e.msg)
         /\ \A m, n \in 1..Len(Stored) : Stored[m].id = Stored[n].id => m = n
<1>1. Placed(store) /\ store \subseteq Entries(Msgs \cup {NoMsg})
  BY DEF TypeInv
<1>2. /\ Stored \in Seq({Resent(e) : e \in store}) /\ Len(Stored) \in Nat
      /\ \A n \in 1..Len(Stored) : Stored[n] = Resent(Sorted(store)[n]) /\ Sorted(store)[n] \in store
      /\ \A m, n \in 1..Len(Stored) : Sorted(store)[m] = Sorted(store)[n] => m = n
  BY <1>1, InOrderResends DEF Stored
<1>3. \A e \in store : /\ Resent(e) \in Packets /\ Resent(e).id = e.id
                       /\ IF e.expect = "pubcomp" THEN Resent(e) = Packet("pubrel", e.id, NoMsg)
                          ELSE Resent(e) = Packet("publish", e.id, e.msg)
  BY <1>1, EndpointAssumption DEF Resent, Packet, Packets, Kinds, Entries, Ids
<1>4. {Resent(e) : e \in store} \subseteq Packets
  BY <1>3
<1>5. Stored \in Seq(Packets)
  <2> DEFINE all == {Resent(e) : e \in store}
  <2> HIDE DEF all
  <2>1. Stored \in Seq(all) /\ all \subseteq Packets
    BY <1>2, <1>4 DEF all
  <2> QED BY <2>1
<1>6. \A m, n \in 1..Len(Stored) : Stored[m].id = Stored[n].id => m = n
  BY <1>2, <1>3 DEF StoreInv, IdsAreUnique
<1>7. \A n \in 1..Len(Stored) : \E e \in store :
        IF e.expect = "pubcomp" THEN Stored[n] = Packet("pubrel", e.id, NoMsg)
        ELSE Stored[n] = Packet("publish", e.id, e.msg)
  BY <1>2, <1>3
<1>8. ASSUME NEW n \in 1..Len(Stored) PROVE Stored[n].kind # "connect"
  <2>1. PICK e \in store : Stored[n] = Packet("pubrel", e.id, NoMsg)
                            \/ Stored[n] = Packet("publish", e.id, e.msg)
    BY <1>7
  <2>2. CASE Stored[n] = Packet("pubrel", e.id, NoMsg)
    BY <2>2 DEF Packet
  <2>3. CASE Stored[n] = Packet("publish", e.id, e.msg)
    BY <2>3 DEF Packet
  <2> QED BY <2>1, <2>2, <2>3
<1> QED BY <1>2, <1>5, <1>6, <1>7, <1>8

LEMMA OnConnackStep == ASSUME Tidy, SessionInv, OnConnack PROVE SessionInv'
<1> USE DEF SessionInv, receiverVars, brokerVars, outVars
<1>1. /\ Receives("connack") /\ link = "open" /\ link' = "up"
      /\ UNCHANGED <<subUnsubInflight, pending, published, subRequests, receiverVars, wire,
                     brokerVars, breaks>>
  BY DEF OnConnack, Receives
<1>2. /\ toClient # <<>> /\ toBroker = <<>> /\ Asking = {} /\ Answering = {} /\ pending = {}
      /\ Head(toClient) = toClient[1] /\ 1 \in 1..Len(toClient) /\ toClient[1].kind = "connack"
      /\ toClient' \in Seq(Packets \cup Connacks) /\ Answering' = {}
      /\ wire => session
  BY <1>1, ClientReads DEF LinkInv, Asking, Receives
<1>3. \A n \in 1..Len(toClient') : toClient'[n].kind # "connack"
  BY <1>1, ClientReads DEF LinkInv
<1>4. AnswersInv'
  BY <1>2 DEF AnswersInv
<1>5. CASE Head(toClient).present
  <2>1. Stored \in Seq(Packets)
    BY StoredAsks
  <2>2. /\ UNCHANGED <<store, free, discarded>>
        /\ toBroker' = <<>> \/ (wire /\ toBroker' = Stored)
    <3>1. UNCHANGED <<store, free, discarded>> /\ Send(Stored)
      BY <1>5 DEF OnConnack
    <3>2. <<>> \o Stored = Stored
      BY <2>1
    <3> QED BY <1>2, <3>1, <3>2 DEF Send
  <2>3. TypeInv'
    <3>1. toBroker' \in Seq(Packets)
      <4>1. <<>> \in Seq(Packets)
        OBVIOUS
      <4> QED BY <2>1, <2>2, <4>1
    <3> QED BY <1>1, <1>2, <2>2, <3>1 DEF TypeInv, Placed
  <2>4. StoreInv'
    BY <1>1, <2>2, StoreFrame
  <2>5. \A n \in Asking' : n \in 1..Len(Stored) /\ toBroker' = Stored
    BY <2>2 DEF Asking
  <2>6. AsksInv'
    <3> SUFFICES ASSUME NEW n \in Asking' PROVE AsksInv!(n)'
      BY DEF AsksInv
    <3>1. PICK e \in store :
            IF e.expect = "pubcomp" THEN Stored[n] = Packet("pubrel", e.id, NoMsg)
            ELSE Stored[n] = Packet("publish", e.id, e.msg)
      BY <2>5, StoredAsks
    <3> QED BY <2>2, <2>5, <3>1 DEF Packet
  <2>7. OnceInv'
    BY <1>2, <2>5, StoredAsks DEF OnceInv
  <2>8. LinkInv'
    <3>1. \A n \in 1..Len(Stored) : Stored[n].kind # "connect"
      BY StoredAsks
    <3> QED BY <1>1, <1>2, <1>3, <2>2, <3>1 DEF LinkInv
  <2>9. RequestsInv'
    BY <1>1, <2>2 DEF RequestsInv, Releasable
  <2>10. ReceivedInv'
    BY <1>1, <2>2, ReceivedFrame
  <2> QED BY <1>4, <2>3, <2>4, <2>6, <2>7, <2>8, <2>9, <2>10
<1>6. CASE ~Head(toClient).present
  <2>1. store' = {} /\ free' = Ids /\ toBroker' = <<>> /\ received = {}
    BY <1>2, <1>6 DEF OnConnack, LinkInv
  <2>2. TypeInv'
    BY <1>1, <1>2, <2>1, FS_EmptySet DEF TypeInv, Placed
  <2>3. StoreInv'
    BY <1>1, <1>2, <2>1 DEF StoreInv, IdsAreUnique
  <2>4. Asking' = {}
    BY <2>1 DEF Asking
  <2>5. AsksInv' /\ OnceInv'
    BY <1>2, <2>4 DEF AsksInv, OnceInv
  <2>6. LinkInv'
    BY <1>1, <1>2, <1>3, <2>1 DEF LinkInv
  <2>7. RequestsInv'
    BY <1>1, <2>1 DEF RequestsInv, Releasable
  <2>8. ReceivedInv'
    BY <1>1, <2>1 DEF ReceivedInv
  <2> QED BY <1>4, <2>2, <2>3, <2>5, <2>6, <2>7, <2>8
<1> QED BY <1>5, <1>6

LEMMA BrokerConnectStep == ASSUME Tidy, SessionInv, BrokerConnect PROVE SessionInv'
<1> USE DEF SessionInv, clientVars, senderVars, receiverVars
<1> DEFINE rest == InOrder(outgoing')
           c == Connack(session /\ ~CleanSession)
<1>1. /\ BrokerReads("connect") /\ UNCHANGED <<clientVars, wire, breaks>>
      /\ session' = TRUE /\ delivered' = delivered /\ toClient' = <<c>> \o rest
      /\ received' = (IF CleanSession THEN {} ELSE received)
      /\ outgoing' = (IF CleanSession THEN {} ELSE outgoing)
  BY DEF BrokerConnect, BrokerReads
<1>2. link = "open" /\ wire /\ toBroker = <<ConnectPacket>> /\ toClient = <<>>
  BY <1>1, BrokerTakes, OpenSaysConnect DEF LinkInv, BrokerReads
<1>3. toBroker' = <<>> /\ Asking' = {} /\ toBroker' \in Seq(Packets)
  BY <1>1, <1>2 DEF BrokerReads, Asking
<1>4. Placed(outgoing') /\ outgoing' \subseteq Entries(InMsgs)
  BY <1>1, FS_EmptySet DEF TypeInv, Placed
<1>5. /\ rest \in Seq(Packets) /\ Len(rest) \in Nat
      /\ \A n \in 1..Len(rest) : rest[n].kind \in {"publish", "pubrel"}
  <2>1. \A e \in outgoing' : Resent(e) \in Packets /\ Resent(e).kind \in {"publish", "pubrel"}
    BY <1>4 DEF Resent, Packet, Packets, Kinds, Entries, Ids
  <2>2. /\ rest \in Seq({Resent(e) : e \in outgoing'}) /\ Len(rest) \in Nat
        /\ \A n \in 1..Len(rest) : \E e \in outgoing' : rest[n] = Resent(e)
    BY <1>4, InOrderResends
  <2> DEFINE all == {Resent(e) : e \in outgoing'}
  <2>3. all \subseteq Packets
    BY <2>1
  <2>4. rest \in Seq(all)
    BY <2>2
  <2> HIDE DEF all, rest
  <2>5. rest \in Seq(Packets)
    BY <2>3, <2>4
  <2> QED BY <2>1, <2>2, <2>5
<1>6. c \in Connacks /\ c.kind = "connack" /\ (c.present <=> session /\ ~CleanSession)
  BY DEF Connack, Connacks
<1> HIDE DEF rest, c
<1>7. /\ toClient' \in Seq(Packets \cup Connacks) /\ toClient'[1] = c
      /\ \A n \in 1..Len(toClient') : n # 1 => toClient'[n].kind \in {"publish", "pubrel"}
  <2>1. /\ <<c>> \in Seq(Packets \cup Connacks) /\ rest \in Seq(Packets \cup Connacks)
        /\ Len(<<c>>) = 1 /\ <<c>>[1] = c
    BY <1>5, <1>6
  <2>2. toClient' \in Seq(Packets \cup Connacks) /\ Len(toClient') = 1 + Len(rest)
    BY <1>1, <2>1
  <2>3. toClient'[1] = c
    BY <1>1, <1>5, <2>1
  <2>4. ASSUME NEW n \in 1..Len(toClient'), n # 1 PROVE toClient'[n].kind \in {"publish", "pubrel"}
    <3>1. n - 1 \in 1..Len(rest) /\ toClient'[n] = rest[n - 1]
      BY <1>1, <1>5, <2>1, <2>2, <2>4
    <3> QED BY <1>5, <3>1
  <2> QED BY <2>2, <2>3, <2>4
<1>8. Answering' = {}
  BY <1>6, <1>7 DEF Answering, Answers
<1>9. TypeInv'
  BY <1>1, <1>3, <1>4, <1>7 DEF TypeInv, Placed
<1>10. StoreInv'
  BY <1>1, StoreFrame
<1>11. AsksInv' /\ AnswersInv' /\ OnceInv'
  BY <1>3, <1>8 DEF AsksInv, AnswersInv, OnceInv
<1>12. LinkInv'
  <2>1. ~c.present => received' = {}
    BY <1>1, <1>6 DEF ReceivedInv
  <2>2. \A n \in 1..Len(toClient') : toClient'[n].kind = "connack" => n = 1 /\ toClient'[n] = c
    BY <1>7
  <2> QED BY <1>1, <1>2, <1>3, <1>6, <1>8, <2>1, <2>2 DEF LinkInv
<1>13. RequestsInv'
  BY <1>1, RequestsFrame
<1>14. ReceivedInv'
  BY <1>1 DEF ReceivedInv
<1> QED BY <1>9, <1>10, <1>11, <1>12, <1>13, <1>14

-----------------------------------------------------------------------------
(* The messages of the client.                                               *)
LEMMA OnPubackStep == ASSUME Tidy, SessionInv, OnPuback PROVE SessionInv'
<1> USE DEF SessionInv, receiverVars, brokerVars, outVars
<1> DEFINE id == Head(toClient).id
<1>1. /\ Receives("puback") /\ link = "up" /\ link' = link
      /\ store' = store \ Find(id, "puback") /\ free' = free \cup {id}
      /\ UNCHANGED <<subUnsubInflight, pending, published, subRequests, discarded,
                     receiverVars, wire, toBroker, brokerVars, breaks>>
  BY DEF OnPuback, Receives
<1>2. /\ Head(toClient) = toClient[1] /\ toClient[1].kind = "puback" /\ 1 \in Answering
      /\ toClient[1] \in Packets
  BY <1>1, ClientReads DEF Answers
<1>3. PICK e \in store : e.id = id /\ e.expect = "puback"
  BY <1>2 DEF AnswersInv
<1>4. store' = store \ {e} /\ id \notin pending /\ id \in Ids
  <2>1. Find(id, "puback") = {e}
    BY <1>3 DEF Find, StoreInv, IdsAreUnique
  <2> QED BY <1>1, <1>3, <2>1 DEF StoreInv, IdsAreUnique, TypeInv, Entries
<1> HIDE DEF id
<1>5. TypeInv'
  <2>1. Placed(store')
    BY <1>4, FS_Subset DEF TypeInv, Placed
  <2>2. toClient' \in Seq(Packets \cup Connacks)
    BY <1>1, ClientReads
  <2> QED BY <1>1, <1>4, <2>1, <2>2 DEF TypeInv, Placed
<1>6. StoreInv'
  BY <1>1, <1>3, <1>4 DEF StoreInv, IdsAreUnique
<1>7. \A n \in Answering' : n + 1 \in Answering /\ toClient'[n] = toClient[n + 1] /\ toClient[n + 1].id # id
  BY <1>1, <1>2, ClientReads DEF OnceInv, id
<1>8. \A n \in Asking : toBroker[n].id # id
  BY <1>2 DEF OnceInv, id
<1>9. AsksInv'
  BY <1>1, <1>3, <1>4, <1>8 DEF AsksInv, Asking
<1>10. AnswersInv'
  BY <1>1, <1>3, <1>4, <1>7 DEF AnswersInv
<1>11. OnceInv'
  BY <1>1, <1>2, OnceTaken DEF Asks
<1>12. LinkInv'
  BY <1>1, ClientReads DEF LinkInv
<1>13. RequestsInv'
  BY <1>1, <1>3, <1>4 DEF RequestsInv, Releasable
<1>14. ReceivedInv'
  BY <1>1, <1>3, <1>4 DEF ReceivedInv, StoreInv, IdsAreUnique
<1> QED BY <1>5, <1>6, <1>9, <1>10, <1>11, <1>12, <1>13, <1>14

LEMMA OnPubcompStep == ASSUME Tidy, SessionInv, OnPubcomp PROVE SessionInv'
<1> USE DEF SessionInv, receiverVars, brokerVars, outVars
<1> DEFINE id == Head(toClient).id
<1>1. /\ Receives("pubcomp") /\ link = "up" /\ link' = link
      /\ store' = store \ Find(id, "pubcomp") /\ free' = free \cup {id}
      /\ UNCHANGED <<subUnsubInflight, pending, published, subRequests, discarded,
                     receiverVars, wire, toBroker, brokerVars, breaks>>
  BY DEF OnPubcomp, Receives
<1>2. /\ Head(toClient) = toClient[1] /\ toClient[1].kind = "pubcomp" /\ 1 \in Answering
      /\ toClient[1] \in Packets
  BY <1>1, ClientReads DEF Answers
<1>3. PICK e \in store : e.id = id /\ e.expect = "pubcomp" /\ id \notin received
  BY <1>2 DEF AnswersInv
<1>4. store' = store \ {e} /\ id \notin pending /\ id \in Ids
  <2>1. Find(id, "pubcomp") = {e}
    BY <1>3 DEF Find, StoreInv, IdsAreUnique
  <2> QED BY <1>1, <1>3, <2>1 DEF StoreInv, IdsAreUnique, TypeInv, Entries
<1> HIDE DEF id
<1>5. TypeInv'
  <2>1. Placed(store')
    BY <1>4, FS_Subset DEF TypeInv, Placed
  <2>2. toClient' \in Seq(Packets \cup Connacks)
    BY <1>1, ClientReads
  <2> QED BY <1>1, <1>4, <2>1, <2>2 DEF TypeInv, Placed
<1>6. StoreInv'
  BY <1>1, <1>3, <1>4 DEF StoreInv, IdsAreUnique
<1>7. \A n \in Answering' : n + 1 \in Answering /\ toClient'[n] = toClient[n + 1] /\ toClient[n + 1].id # id
  BY <1>1, <1>2, ClientReads DEF OnceInv, id
<1>8. \A n \in Asking : toBroker[n].id # id
  BY <1>2 DEF OnceInv, id
<1>9. AsksInv'
  BY <1>1, <1>3, <1>4, <1>8 DEF AsksInv, Asking
<1>10. AnswersInv'
  BY <1>1, <1>3, <1>4, <1>7 DEF AnswersInv
<1>11. OnceInv'
  BY <1>1, <1>2, OnceTaken DEF Asks
<1>12. LinkInv'
  BY <1>1, ClientReads DEF LinkInv
<1>13. RequestsInv'
  BY <1>1, <1>3, <1>4 DEF RequestsInv, Releasable
<1>14. ReceivedInv'
  BY <1>1, <1>3, <1>4 DEF ReceivedInv, StoreInv, IdsAreUnique
<1> QED BY <1>5, <1>6, <1>9, <1>10, <1>11, <1>12, <1>13, <1>14

LEMMA OnSubackStep == ASSUME Tidy, SessionInv, OnSuback PROVE SessionInv'
<1> USE DEF SessionInv, receiverVars, brokerVars, outVars
<1> DEFINE id == Head(toClient).id
<1>1. /\ Receives("suback") /\ link = "up" /\ link' = link
      /\ free' = free \cup {id} /\ subUnsubInflight' = subUnsubInflight \ {id}
      /\ pending' = pending \ {id}
      /\ UNCHANGED <<store, published, subRequests, discarded, receiverVars, wire, toBroker,
                     brokerVars, breaks>>
  BY DEF OnSuback, Receives
<1>2. /\ Head(toClient) = toClient[1] /\ toClient[1].kind = "suback" /\ 1 \in Answering
      /\ toClient[1] \in Packets
  BY <1>1, ClientReads DEF Answers
<1>3. id \in pending /\ id \in Ids /\ \A e \in store : e.id # id
  BY <1>2 DEF AnswersInv, StoreInv, IdsAreUnique, TypeInv
<1> HIDE DEF id
<1>4. TypeInv'
  <2>1. toClient' \in Seq(Packets \cup Connacks)
    BY <1>1, ClientReads
  <2> QED BY <1>1, <1>3, <2>1 DEF TypeInv, Placed
<1>5. StoreInv'
  BY <1>1, <1>3 DEF StoreInv, IdsAreUnique
<1>6. \A n \in Answering' : n + 1 \in Answering /\ toClient'[n] = toClient[n + 1] /\ toClient[n + 1].id # id
  BY <1>1, <1>2, ClientReads DEF OnceInv, id
<1>7. \A n \in Asking : toBroker[n].id # id
  BY <1>2 DEF OnceInv, id
<1>8. AsksInv'
  BY <1>1, <1>7 DEF AsksInv, Asking
<1>9. AnswersInv'
  BY <1>1, <1>6 DEF AnswersInv
<1>10. OnceInv'
  BY <1>1, <1>2, OnceTaken DEF Asks
<1>11. LinkInv'
  BY <1>1, ClientReads DEF LinkInv
<1>12. RequestsInv'
  BY <1>1, <1>3 DEF RequestsInv, Releasable
<1>13. ReceivedInv'
  BY <1>1, ReceivedFrame
<1> QED BY <1>4, <1>5, <1>8, <1>9, <1>10, <1>11, <1>12, <1>13

LEMMA OnPubrecStep == ASSUME Tidy, SessionInv, OnPubrec PROVE SessionInv'
<1> USE DEF SessionInv, receiverVars, brokerVars, outVars
<1> DEFINE id == Head(toClient).id
           rel == Entry(id, "pubcomp", NoMsg, NextPlace)
           p == Packet("pubrel", id, NoMsg)
<1>1. /\ Receives("pubrec") /\ link = "up" /\ link' = link
      /\ store' = Emplaced(store, id, "pubcomp", NoMsg) \ Find(id, "pubrec")
      /\ free' = free \ {id} /\ Send(<<p>>)
      /\ UNCHANGED <<subUnsubInflight, pending, published, subRequests, discarded,
                     receiverVars, wire, brokerVars, breaks>>
  BY DEF OnPubrec, Receives
<1>2. /\ Head(toClient) = toClient[1] /\ toClient[1].kind = "pubrec" /\ 1 \in Answering
      /\ toClient[1] \in Packets
  BY <1>1, ClientReads DEF Answers
<1>3. PICK e \in store : e.id = id /\ e.expect = "pubrec"
  BY <1>2 DEF AnswersInv
<1>4. \A other \in store : other.id = id => other = e
  BY <1>3 DEF StoreInv, IdsAreUnique
<1>5. /\ NextPlace \in Nat /\ \A other \in store : other.at \in Nat /\ other.at < NextPlace
      /\ id \in Ids /\ id \notin pending
  BY <1>3, PlaceAfterAll DEF TypeInv, Placed, NextPlace, Entries, StoreInv, IdsAreUnique
<1>6. /\ rel \in Entries(Msgs \cup {NoMsg}) /\ rel.id = id /\ rel.expect = "pubcomp"
      /\ rel.msg = NoMsg /\ rel.at = NextPlace
  BY <1>5 DEF Entry, Entries, Acks
<1>7. store' = (store \ {e}) \cup {rel}
  <2>1. Find(id, "pubcomp") = {} /\ Find(id, "pubrec") = {e}
    BY <1>3, <1>4 DEF Find
  <2>2. rel # e
    BY <1>3, <1>6
  <2>3. store' = (store \cup {rel}) \ {e}
    BY <1>1, <2>1 DEF Emplaced
  <2> HIDE DEF rel
  <2> QED BY <2>2, <2>3
<1>8. p \in Packets /\ p.kind = "pubrel" /\ p.id = id
  BY <1>2 DEF Packet, Packets, Kinds
<1>9. toBroker' = toBroker \/ Writes(p)
  BY <1>1, <1>8, SendOne DEF Writes
<1> HIDE DEF id, rel, p
<1>10. TypeInv'
  <2>1. IsFiniteSet(store')
    BY <1>7, FS_Subset, FS_AddElement DEF TypeInv, Placed
  <2>2. \A other \in store : other.at # rel.at
    BY <1>5, <1>6
  <2>3. Placed(store')
    BY <1>5, <1>6, <1>7, <2>1, <2>2 DEF TypeInv, Placed
  <2>4. toClient' \in Seq(Packets \cup Connacks) /\ toBroker' \in Seq(Packets)
    BY <1>1, <1>8, <1>9, ClientReads, ClientWrites DEF TypeInv
  <2>5. store' \subseteq Entries(Msgs \cup {NoMsg})
    BY <1>6, <1>7 DEF TypeInv
  <2> QED BY <1>1, <2>3, <2>4, <2>5 DEF TypeInv, Placed
<1>11. StoreInv'
  BY <1>1, <1>3, <1>4, <1>5, <1>6, <1>7 DEF StoreInv, IdsAreUnique
<1>12. \A n \in Answering' : n + 1 \in Answering /\ toClient'[n] = toClient[n + 1] /\ toClient[n + 1].id # id
  BY <1>1, <1>2, ClientReads DEF OnceInv, id
<1>13. \A n \in Asking : toBroker[n].id # id
  BY <1>2 DEF OnceInv, id
<1>14. \A n \in Asking' : (n \in Asking /\ toBroker'[n] = toBroker[n]) \/ toBroker'[n] = p
  BY <1>8, <1>9, ClientWrites DEF Asking
<1>15. AsksInv'
  BY <1>1, <1>3, <1>6, <1>7, <1>8, <1>13, <1>14 DEF AsksInv
<1>16. AnswersInv'
  BY <1>1, <1>3, <1>6, <1>7, <1>12 DEF AnswersInv
<1>17. OnceInv'
  BY <1>1, <1>8, <1>9, OnceTaken DEF id, Answers
<1>18. LinkInv'
  BY <1>1, <1>8, <1>9, ClientReads, ClientWrites DEF LinkInv, Writes
<1>19. RequestsInv'
  BY <1>1, <1>3, <1>6, <1>7 DEF RequestsInv, Releasable
<1>20. ReceivedInv'
  BY <1>1, <1>3, <1>6, <1>7 DEF ReceivedInv
<1> QED BY <1>10, <1>11, <1>15, <1>16, <1>17, <1>18, <1>19, <1>20

\* A request that takes a free id: no packet on its way has it.
LEMMA OnceAsked ==
  ASSUME TypeInv, OnceInv, NEW p \in Packets, toBroker' = toBroker \/ Writes(p),
         UNCHANGED toClient,
         \A n \in Asking : toBroker[n].id # p.id, \A n \in Answering : toClient[n].id # p.id
  PROVE  OnceInv'
<1>1. \A n \in Asking' :
        \/ n \in Asking /\ toBroker'[n] = toBroker[n]
        \/ toBroker'[n] = p /\ n = Len(toBroker) + 1
  BY ClientWrites DEF Asking
<1>2. \A n \in Answering' : n \in Answering /\ toClient'[n] = toClient[n]
  BY DEF Answering
<1> QED BY <1>1, <1>2 DEF OnceInv

LEMMA PublishStep ==
  ASSUME Tidy, SessionInv, NEW m \in Msgs, Publish(m) PROVE SessionInv'
<1> USE DEF SessionInv, receiverVars, brokerVars, outVars
<1>1. PICK id \in LowestFree :
        /\ free' = free \ {id} /\ store' = Emplaced(store, id, AckFor(m), m)
        /\ Send(<<Packet("publish", id, m)>>)
  BY DEF Publish
<1> DEFINE new == Entry(id, AckFor(m), m, NextPlace)
           p == Packet("publish", id, m)
<1>2. /\ link # "open" /\ link' = link /\ ~Contains(published, m)
      /\ published' = Append(published, m)
      /\ UNCHANGED <<subUnsubInflight, pending, subRequests, discarded, receiverVars, wire,
                     toClient, brokerVars, breaks>>
  BY DEF Publish, Tidy
<1>3. id \in free /\ id \in Ids /\ id \notin pending /\ \A e \in store : e.id # id
  BY <1>1 DEF LowestFree, TypeInv, StoreInv, IdsAreUnique
<1>4. NextPlace \in Nat /\ \A e \in store : e.at \in Nat /\ e.at < NextPlace
  BY PlaceAfterAll DEF TypeInv, Placed, NextPlace
<1>5. /\ new \in Entries(Msgs \cup {NoMsg}) /\ new.id = id /\ new.expect = AckFor(m)
      /\ new.msg = m /\ new.at = NextPlace /\ new.expect # "pubcomp" /\ m # NoMsg
  BY <1>3, <1>4, EndpointAssumption DEF Entry, Entries, Acks, AckFor
<1>6. store' = store \cup {new}
  <2>1. Find(id, AckFor(m)) = {}
    BY <1>3 DEF Find
  <2> QED BY <1>1, <2>1 DEF Emplaced
<1>7. p \in Packets /\ p.kind = "publish" /\ p.id = id /\ p.msg = m
  BY <1>3 DEF Packet, Packets, Kinds, Ids
<1>8. toBroker' = toBroker \/ Writes(p)
  BY <1>1, <1>7, SendOne DEF Writes
<1>9. /\ published' \in Seq(Msgs)
      /\ \A x : Contains(published', x) <=> Contains(published, x) \/ x = m
  BY <1>2, ContainsAppended, Appended DEF TypeInv
<1> HIDE DEF new, p
<1>10. TypeInv'
  <2>1. IsFiniteSet(store')
    BY <1>6, FS_AddElement DEF TypeInv, Placed
  <2>2. \A e \in store : e.at # new.at
    BY <1>4, <1>5
  <2>3. Placed(store')
    BY <1>4, <1>5, <1>6, <2>1, <2>2 DEF TypeInv, Placed
  <2>4. toBroker' \in Seq(Packets)
    BY <1>7, <1>8, ClientWrites DEF TypeInv
  <2>5. store' \subseteq Entries(Msgs \cup {NoMsg})
    BY <1>5, <1>6 DEF TypeInv
  <2> QED BY <1>1, <1>2, <1>9, <2>3, <2>4, <2>5 DEF TypeInv, Placed
<1>11. StoreInv'
  <2>1. \A e \in store : e.msg # m
    BY <1>2, <1>5 DEF StoreInv
  <2>2. \A e \in store' : e \in store \/ e = new
    BY <1>6
  <2>3. \A e \in store' : IF e.expect = "pubcomp" THEN e.msg = NoMsg
                          ELSE e.msg \in Msgs /\ e.expect = AckFor(e.msg) /\ Contains(published', e.msg)
    BY <1>5, <1>9, <2>2 DEF StoreInv
  <2>4. \A e, other \in store' : e.msg = other.msg /\ e.msg # NoMsg => e = other
    BY <1>5, <2>1, <2>2 DEF StoreInv
  <2>5. IdsAreUnique'
    BY <1>1, <1>2, <1>3, <1>5, <2>2 DEF StoreInv, IdsAreUnique
  <2> QED BY <2>3, <2>4, <2>5 DEF StoreInv
<1>12. /\ \A n \in Asking : toBroker[n].id # id
       /\ \A n \in Answering : toClient[n].id # id
  BY <1>3, FreeIsIdle
<1>13. \A n \in Asking' : (n \in Asking /\ toBroker'[n] = toBroker[n]) \/ toBroker'[n] = p
  BY <1>7, <1>8, ClientWrites DEF Asking
<1>14. AsksInv'
  BY <1>2, <1>5, <1>6, <1>7, <1>13 DEF AsksInv
<1>15. AnswersInv'
  <2>1. \A n \in Answering' : n \in Answering /\ toClient'[n] = toClient[n] /\ toClient[n].id # id
    BY <1>2, <1>12 DEF Answering
  <2> QED BY <1>2, <1>5, <1>6, <2>1 DEF AnswersInv
<1>16. OnceInv'
  BY <1>2, <1>7, <1>8, <1>12, OnceAsked
<1>17. LinkInv'
  <2>1. Writes(p) => link = "up"
    BY <1>2 DEF Writes, TypeInv
  <2>2. Answering' = Answering
    BY <1>2 DEF Answering
  <2> QED BY <1>2, <1>7, <1>8, <2>1, <2>2, ClientWrites DEF LinkInv, Writes
<1>18. RequestsInv'
  BY <1>1, <1>2, <1>3, <1>5, <1>6 DEF RequestsInv, Releasable
<1>19. ReceivedInv'
  BY <1>2, <1>6 DEF ReceivedInv
<1> QED BY <1>10, <1>11, <1>14, <1>15, <1>16, <1>17, <1>18, <1>19

LEMMA SubscribeStep == ASSUME Tidy, SessionInv, Subscribe PROVE SessionInv'
<1> USE DEF SessionInv, receiverVars, brokerVars, outVars
<1>1. PICK id \in LowestFree :
        /\ free' = free \ {id} /\ subUnsubInflight' = subUnsubInflight \cup {id}
        /\ pending' = IF wire /\ link # "down" THEN pending \cup {id} ELSE pending
        /\ Send(<<Packet("subscribe", id, NoMsg)>>)
  BY DEF Subscribe
<1> DEFINE p == Packet("subscribe", id, NoMsg)
<1>2. /\ link = "up" /\ link' = link /\ MaxSubs # 0 /\ subRequests' \in 0..MaxSubs
      /\ UNCHANGED <<store, published, discarded, receiverVars, wire, toClient, brokerVars, breaks>>
  <2>1. subRequests' = subRequests + 1 /\ subRequests < MaxSubs
    BY DEF Subscribe
  <2>2. subRequests \in Nat /\ MaxSubs \in Nat
    BY EndpointAssumption DEF TypeInv
  <2>3. subRequests' \in 0..MaxSubs /\ MaxSubs # 0
    BY <2>1, <2>2
  <2> QED BY <2>3 DEF Subscribe, Tidy
<1>3. id \in free /\ id \in Ids /\ id \notin pending /\ \A e \in store : e.id # id
  BY <1>1 DEF LowestFree, TypeInv, StoreInv, IdsAreUnique
<1>4. p \in Packets /\ p.kind = "subscribe" /\ p.id = id
  BY <1>3 DEF Packet, Packets, Kinds, Ids
<1>5. (toBroker' = toBroker) \/ (Writes(p) /\ pending' = pending \cup {id})
  BY <1>1, <1>2, <1>4, SendOne DEF Writes
<1> HIDE DEF p
<1>6. TypeInv'
  <2>1. toBroker' \in Seq(Packets)
    BY <1>4, <1>5, ClientWrites DEF TypeInv
  <2> QED BY <1>1, <1>2, <1>3, <2>1 DEF TypeInv, Placed
<1>7. StoreInv'
  BY <1>1, <1>2, <1>3 DEF StoreInv, IdsAreUnique
<1>8. /\ \A n \in Asking : toBroker[n].id # id
      /\ \A n \in Answering : toClient[n].id # id
  BY <1>3, FreeIsIdle
<1>9. \A n \in Asking' : \/ n \in Asking /\ toBroker'[n] = toBroker[n]
                         \/ toBroker'[n] = p /\ id \in pending'
  BY <1>4, <1>5, ClientWrites DEF Asking
<1>10. AsksInv'
  BY <1>1, <1>2, <1>4, <1>9 DEF AsksInv
<1>11. AnswersInv'
  BY <1>1, <1>2 DEF AnswersInv, Answering
<1>12. OnceInv'
  BY <1>2, <1>4, <1>5, <1>8, OnceAsked
<1>13. LinkInv'
  BY <1>2, <1>4, <1>5, ClientWrites DEF LinkInv, Writes
<1>14. RequestsInv'
  BY <1>1, <1>2, <1>3 DEF RequestsInv, Releasable
<1>15. ReceivedInv'
  BY <1>2, ReceivedFrame
<1> QED BY <1>6, <1>7, <1>10, <1>11, <1>12, <1>13, <1>14, <1>15

\* On a connection that is up the broker reads and answers.
LEMMA LinkAnswered ==
  ASSUME TypeInv, LinkInv, link = "up", NEW kind, BrokerReads(kind), UNCHANGED <<link, pending, session>>,
         NEW p \in Packets, toClient' = Append(toClient, p)
  PROVE  LinkInv'
<1>1. UNCHANGED wire /\ wire /\ p.kind # "connack"
  BY OpenSaysConnect DEF BrokerReads, Packets, Kinds, clientVars
<1>2. \A n \in 1..Len(toBroker') : toBroker'[n].kind # "connect"
  BY BrokerTakes DEF LinkInv
<1>3. \A n \in 1..Len(toClient') : toClient'[n].kind # "connack"
  BY <1>1, BrokerWrites DEF LinkInv
<1> QED BY <1>1, <1>2, <1>3 DEF LinkInv

LEMMA BrokerPubrelStep == ASSUME Tidy, SessionInv, BrokerPubrel PROVE SessionInv'
<1> USE DEF SessionInv, clientVars, senderVars, receiverVars, outVars
<1> DEFINE id == Head(toBroker).id
           p == Packet("pubcomp", id, NoMsg)
<1>1. /\ BrokerReads("pubrel") /\ UNCHANGED <<clientVars, wire, breaks>>
      /\ received' = received \ {id} /\ toClient' = Append(toClient, p)
      /\ UNCHANGED <<session, delivered, outVars, forgotten>>
  BY DEF BrokerPubrel, BrokerReads
<1>2. /\ link = "up" /\ Head(toBroker) = toBroker[1] /\ toBroker[1].kind = "pubrel"
      /\ 1 \in Asking /\ toBroker[1] \in Packets
  BY <1>1, BrokerTakes, OpenSaysConnect DEF Asks, BrokerReads, ConnectPacket, Packet
<1>3. \E e \in store : e.id = id /\ e.expect = "pubcomp"
  BY <1>2 DEF AsksInv
<1>4. p \in Packets /\ p.kind = "pubcomp" /\ p.id = id
  BY <1>2 DEF Packet, Packets, Kinds
<1> HIDE DEF id, p
<1>5. TypeInv'
  <2>1. toBroker' \in Seq(Packets) /\ toClient' \in Seq(Packets \cup Connacks)
    BY <1>1, <1>4, BrokerTakes, BrokerWrites
  <2> QED BY <1>1, <2>1 DEF TypeInv, Placed
<1>6. StoreInv'
  BY <1>1, StoreFrame
<1>7. AsksInv'
  BY <1>1, AsksTaken
<1>8. \A n \in Answering' : (n \in Answering /\ toClient'[n] = toClient[n]) \/ toClient'[n] = p
  BY <1>1, <1>4, BrokerWrites
<1>9. AnswersInv'
  BY <1>1, <1>3, <1>4, <1>8 DEF AnswersInv
<1>10. OnceInv'
  BY <1>1, <1>4, OnceAnswered DEF id, Asks
<1>11. LinkInv'
  BY <1>1, <1>2, <1>4, LinkAnswered
<1>12. RequestsInv'
  BY <1>1, RequestsFrame
<1>13. ReceivedInv'
  BY <1>1 DEF ReceivedInv
<1> QED BY <1>5, <1>6, <1>7, <1>9, <1>10, <1>11, <1>12, <1>13

\* What the broker finds in a PUBLISH: the stored message.
LEMMA PublishTaken ==
  ASSUME SessionInv, BrokerPublish
  PROVE  /\ link = "up" /\ wire /\ BrokerReads("publish") /\ 1 \in Asking
         /\ Head(toBroker) = toBroker[1] /\ toBroker[1] \in Packets
         /\ \E e \in store :
              /\ e.id = toBroker[1].id /\ e.msg = toBroker[1].msg /\ e.msg \in Msgs
              /\ e.expect = AckFor(e.msg) /\ Contains(published, e.msg)
              /\ \A other \in store : other.id = e.id \/ other.msg = e.msg => other = e
<1>1. /\ BrokerReads("publish") /\ 1 \in Asking /\ Head(toBroker) = toBroker[1]
      /\ toBroker[1].kind = "publish" /\ toBroker[1] \in Packets
  BY BrokerTakes DEF SessionInv, BrokerPublish, Asks
<1>2. link = "up" /\ wire
  BY <1>1, OpenSaysConnect DEF SessionInv, BrokerReads, ConnectPacket, Packet
<1>3. PICK e \in store : e.id = toBroker[1].id /\ e.msg = toBroker[1].msg /\ e.expect # "pubcomp"
  BY <1>1 DEF SessionInv, AsksInv
<1>4. e.msg \in Msgs /\ e.expect = AckFor(e.msg) /\ Contains(published, e.msg) /\ e.msg # NoMsg
  BY <1>3, EndpointAssumption DEF SessionInv, StoreInv
<1>5. \A other \in store : other.id = e.id \/ other.msg = e.msg => other = e
  BY <1>4 DEF SessionInv, StoreInv, IdsAreUnique
<1> QED BY <1>1, <1>2, <1>3, <1>4, <1>5

LEMMA BrokerPublishStep == ASSUME Tidy, SessionInv, BrokerPublish PROVE SessionInv'
<1> USE DEF SessionInv, clientVars, senderVars, receiverVars, outVars
<1> DEFINE id == toBroker[1].id
           m == toBroker[1].msg
           p == Packet(IF Qos[m] = 1 THEN "puback" ELSE "pubrec", id, NoMsg)
<1>1. /\ link = "up" /\ BrokerReads("publish") /\ 1 \in Asking
      /\ Head(toBroker) = toBroker[1] /\ toBroker[1] \in Packets
      /\ UNCHANGED <<clientVars, wire, breaks, session, outVars, forgotten>>
  BY PublishTaken DEF BrokerPublish, BrokerReads
<1>2. PICK e \in store :
        /\ e.id = id /\ e.msg = m /\ m \in Msgs /\ e.expect = AckFor(m) /\ Contains(published, m)
        /\ \A other \in store : other.id = id \/ other.msg = m => other = e
  BY PublishTaken
<1>3. /\ p \in Packets /\ p.id = id /\ p.kind = AckFor(m) /\ p.kind \in {"puback", "pubrec"}
      /\ toClient' = Append(toClient, p)
  BY <1>1 DEF BrokerPublish, Packet, Packets, Kinds, AckFor
<1>4. /\ delivered' \in Seq(Msgs \cup InMsgs \cup {NoMsg})
      /\ \A x : Contains(delivered, x) => Contains(delivered', x)
      /\ Contains(delivered', m)
  <2>1. delivered \in Seq(Msgs \cup InMsgs \cup {NoMsg})
    BY DEF TypeInv
  <2>2. CASE delivered' = Append(delivered, m)
    BY <1>2, <2>1, <2>2, ContainsAppended, Appended
  <2>3. CASE delivered' = delivered /\ id \in received
    <3>1. e.expect = "pubcomp" \/ (e.expect = "pubrec" /\ Contains(delivered, m))
      BY <1>2, <2>3 DEF ReceivedInv
    <3>2. AckFor(m) # "pubcomp"
      BY DEF AckFor
    <3> HIDE DEF m
    <3> QED BY <1>2, <2>1, <2>3, <3>1, <3>2
  <2> QED BY <1>1, <2>2, <2>3 DEF BrokerPublish
<1>5. /\ received' = received \/ (received' = received \cup {id} /\ AckFor(m) = "pubrec")
  BY <1>1 DEF BrokerPublish, AckFor
<1> HIDE DEF id, m, p
<1>6. TypeInv'
  <2>1. toBroker' \in Seq(Packets) /\ toClient' \in Seq(Packets \cup Connacks)
    BY <1>1, <1>3, BrokerTakes, BrokerWrites
  <2> QED BY <1>1, <1>4, <2>1 DEF TypeInv, Placed
<1>7. StoreInv'
  BY <1>1, StoreFrame
<1>8. AsksInv'
  BY <1>1, AsksTaken
<1>9. \A n \in Answering' :
        (n \in Answering /\ toClient'[n] = toClient[n] /\ toClient[n].id # id) \/ toClient'[n] = p
  BY <1>1, <1>3, BrokerWrites DEF OnceInv, id
<1>10. AnswersInv'
  BY <1>1, <1>2, <1>3, <1>4, <1>5, <1>9, ZenonT(60) DEF AnswersInv
<1>11. OnceInv'
  BY <1>1, <1>3, OnceAnswered DEF id, Asks
<1>12. LinkInv'
  BY <1>1, <1>3, LinkAnswered
<1>13. RequestsInv'
  BY <1>1, RequestsFrame
<1>14. ReceivedInv'
  <2>1. session
    BY <1>1, PublishTaken DEF LinkInv
  <2>2. \A other \in received : \E o \in store' :
          o.id = other /\ (o.expect = "pubcomp" \/ (o.expect = "pubrec" /\ Contains(delivered', o.msg)))
    BY <1>1, <1>4 DEF ReceivedInv
  <2> QED BY <1>1, <1>2, <1>4, <1>5, <2>1, <2>2 DEF ReceivedInv
<1> QED BY <1>6, <1>7, <1>8, <1>10, <1>11, <1>12, <1>13, <1>14

-----------------------------------------------------------------------------
(* The invariant of the session.                                             *)
LEMMA SessionInit == Init => SessionInv
<1> SUFFICES ASSUME Init PROVE SessionInv
  OBVIOUS
<1> USE DEF Init
<1>1. Asking = {} /\ Answering = {} /\ Len(toBroker) = 0 /\ Len(toClient) = 0
  BY DEF Asking, Answering
<1>2. TypeInv
  <2>1. MaxSubs \in Nat /\ MaxBreaks \in Nat
    BY EndpointAssumption
  <2>2. 0 \in 0..MaxSubs /\ 0 \in 0..MaxBreaks
    BY <2>1
  <2>3. /\ toBroker \in Seq(Packets) /\ toClient \in Seq(Packets \cup Connacks)
        /\ published \in Seq(Msgs) /\ delivered \in Seq(Msgs \cup InMsgs \cup {NoMsg})
    OBVIOUS
  <2>4. Placed({})
    BY FS_EmptySet DEF Placed
  <2> QED BY <2>2, <2>3, <2>4 DEF TypeInv
<1>3. StoreInv
  BY DEF StoreInv, IdsAreUnique
<1>4. AsksInv /\ AnswersInv /\ OnceInv
  BY <1>1 DEF AsksInv, AnswersInv, OnceInv
<1>5. LinkInv
  BY <1>1 DEF LinkInv
<1>6. RequestsInv
  BY DEF RequestsInv
<1>7. ReceivedInv
  BY DEF ReceivedInv
<1> QED BY <1>2, <1>3, <1>4, <1>5, <1>6, <1>7 DEF SessionInv

LEMMA SessionStutter == SessionInv /\ UNCHANGED vars => SessionInv'
<1> SUFFICES ASSUME SessionInv, UNCHANGED vars PROVE SessionInv'
  OBVIOUS
<1> USE DEF SessionInv, vars, clientVars, netVars, brokerVars, senderVars, receiverVars, outVars
<1>1. TypeInv'
  BY DEF TypeInv, Placed
<1>2. LinkInv'
  BY DEF LinkInv, Answering
<1> QED BY <1>1, <1>2, StoreFrame, AsksFrame, AnswersFrame, OnceFrame, RequestsFrame, ReceivedFrame

LEMMA SessionStep == ASSUME Tidy, SessionInv, [Next]_vars PROVE SessionInv'
<1>1. CASE Connect
  BY <1>1, ConnectStep
<1>2. CASE \E m \in Msgs : Publish(m)
  BY <1>2, PublishStep
<1>3. CASE Subscribe
  BY <1>3, SubscribeStep
<1>4. CASE ClientHandles
  BY <1>4, OnConnackStep, OnPubackStep, OnPubrecStep, OnPubcompStep, OnSubackStep, OnPublishStep,
     OnPubrelStep DEF ClientHandles
<1>5. CASE ConnectionLost
  BY <1>5, ConnectionLostStep
<1>6. CASE WireBreaks
  BY <1>6, WireBreaksStep
<1>7. CASE BrokerForgets
  BY <1>7, BrokerForgetsStep
<1>8. CASE \E m \in InMsgs : BrokerSends(m)
  BY <1>8, BrokerSendsStep
<1>9. CASE BrokerHandles
  BY <1>9, BrokerConnectStep, BrokerPublishStep, BrokerPubrelStep, BrokerSubscribeStep,
     BrokerPubrecStep, BrokerAckedStep DEF BrokerHandles
<1>10. CASE UNCHANGED vars
  BY <1>10, SessionStutter
<1> QED BY <1>1, <1>2, <1>3, <1>4, <1>5, <1>6, <1>7, <1>8, <1>9, <1>10 DEF Next

\* The invariant of the session holds whatever the network does.
THEOREM SessionAlways == ASSUME Tidy PROVE Spec => []SessionInv
<1>1. SessionInv /\ [Next]_vars => SessionInv'
  BY SessionStep
<1> QED BY <1>1, SessionInit, PTL DEF Spec

\* No packet id is given to a second operation while a message that is stored
\* or a request that awaits its SUBACK still has it.
THEOREM IdsStayUnique == ASSUME Tidy PROVE Spec => []IdsAreUnique
<1>1. SessionInv => IdsAreUnique
  BY DEF SessionInv, StoreInv
<1> QED BY <1>1, SessionAlways, PTL

-----------------------------------------------------------------------------
(* What was published and what was passed on.                                *)
LEMMA WhatWasDelivered ==
  ASSUME TypeInv, OnceDelivered, NEW x, Contains(delivered, x)
  PROVE  Contains(published, x)
BY DEF TypeInv, OnceDelivered, Contains

LEMMA OnceDeliveredFrame ==
  ASSUME OnceDelivered, UNCHANGED <<delivered, published, received, forgotten>>,
         \A e \in store' : e.expect = "pubrec" => e \in store,
         link' = "up" => link = "up" \/ ~CleanSession \/ store' = {}
  PROVE  OnceDelivered'
BY DEF OnceDelivered

LEMMA PublishOnce ==
  ASSUME SessionInv, OnceDelivered, NEW m \in Msgs, Publish(m) PROVE OnceDelivered'
<1>1. /\ ~Contains(published, m) /\ published' = Append(published, m)
      /\ UNCHANGED <<link, delivered, received, forgotten>>
  BY DEF Publish, brokerVars
<1>2. \A x : Contains(published', x) <=> Contains(published, x) \/ x = m
  BY <1>1, ContainsAppended DEF SessionInv, TypeInv
<1>3. \A e \in store' : e \in store \/ e.msg = m
  BY DEF Publish, Emplaced, Entry
<1>4. ~Contains(delivered, m)
  BY <1>1, WhatWasDelivered DEF SessionInv
<1> QED BY <1>1, <1>2, <1>3, <1>4 DEF OnceDelivered

LEMMA OnConnackOnce == ASSUME SessionInv, OnceDelivered, OnConnack PROVE OnceDelivered'
<1>1. Head(toClient).kind = "connack" /\ Head(toClient) = toClient[1] /\ 1 \in 1..Len(toClient)
  BY ClientReads DEF OnConnack, SessionInv
<1>2. UNCHANGED <<delivered, published, received, forgotten>>
  BY DEF OnConnack, brokerVars
<1>3. CASE Head(toClient).present
  BY <1>1, <1>2, <1>3, OnceDeliveredFrame DEF OnConnack, SessionInv, LinkInv
<1>4. CASE ~Head(toClient).present
  BY <1>2, <1>4, OnceDeliveredFrame DEF OnConnack
<1> QED BY <1>3, <1>4

LEMMA BrokerForgetsOnce == ASSUME SessionInv, OnceDelivered, BrokerForgets PROVE OnceDelivered'
<1>1. /\ UNCHANGED <<link, store, published, delivered>>
      /\ forgotten' = Range(published) \cup Range(sent)
  BY DEF BrokerForgets, clientVars, senderVars
<1>2. \A x : Contains(published, x) => x \in Range(published)
  BY DEF SessionInv, TypeInv, Contains, Range
<1>3. \A e \in store : e.expect = "pubrec" => e.msg \in forgotten'
  BY <1>1, <1>2 DEF SessionInv, StoreInv
<1> QED BY <1>1, <1>3 DEF OnceDelivered

LEMMA BrokerConnectOnce == ASSUME SessionInv, OnceDelivered, BrokerConnect PROVE OnceDelivered'
<1>1. link = "open"
  BY BrokerTakes, OpenSaysConnect DEF SessionInv, BrokerConnect, LinkInv, BrokerReads
<1>2. UNCHANGED <<link, store, published, delivered, forgotten>> /\ (~CleanSession => received' = received)
  BY DEF BrokerConnect, BrokerReads, clientVars, senderVars
<1> QED BY <1>1, <1>2 DEF OnceDelivered

LEMMA BrokerPubrelOnce == ASSUME SessionInv, OnceDelivered, BrokerPubrel PROVE OnceDelivered'
<1>1. /\ BrokerReads("pubrel") /\ received' = received \ {Head(toBroker).id}
      /\ UNCHANGED <<link, store, published, delivered, forgotten>>
  BY DEF BrokerPubrel, BrokerReads, clientVars, senderVars
<1>2. \E e \in store : e.id = Head(toBroker).id /\ e.expect = "pubcomp"
  BY <1>1, BrokerTakes DEF SessionInv, AsksInv, Asks
<1>3. \A e \in store : e.expect = "pubrec" => e.id # Head(toBroker).id
  BY <1>2 DEF SessionInv, StoreInv, IdsAreUnique
<1> QED BY <1>1, <1>3 DEF OnceDelivered

LEMMA BrokerPublishOnce == ASSUME SessionInv, OnceDelivered, BrokerPublish PROVE OnceDelivered'
<1> DEFINE id == toBroker[1].id
           m == toBroker[1].msg
<1>1. /\ link = "up" /\ Head(toBroker) = toBroker[1] /\ toBroker[1] \in Packets
      /\ UNCHANGED <<link, store, published, forgotten>>
  BY PublishTaken DEF BrokerPublish, BrokerReads, clientVars, senderVars
<1>2. PICK e \in store :
        /\ e.id = id /\ e.msg = m /\ m \in Msgs /\ e.expect = AckFor(m) /\ Contains(published, m)
        /\ \A other \in store : other.id = id \/ other.msg = m => other = e
  BY PublishTaken
<1>3. /\ delivered' = delivered \/ delivered' = Append(delivered, m)
      /\ received \subseteq received' /\ (AckFor(m) = "pubrec" => id \in received')
  BY <1>1 DEF BrokerPublish, AckFor
<1> HIDE DEF id, m
<1> DEFINE All == Msgs \cup InMsgs \cup {NoMsg}
<1>0. delivered \in Seq(All) /\ m \in All
  BY <1>2 DEF SessionInv, TypeInv
<1> HIDE DEF All
<1>4. \A x : Contains(delivered', x) => Contains(delivered, x) \/ x = m
  <2>1. \A x : Contains(Append(delivered, m), x) <=> Contains(delivered, x) \/ x = m
    BY <1>0, ContainsAppended
  <2> QED BY <1>3, <2>1
<1>5. delivered' \in Seq(All)
  <2>1. Append(delivered, m) \in Seq(All)
    BY <1>0, Appended
  <2> QED BY <1>0, <1>3, <2>1
<1>6. \A n \in DOMAIN delivered' : Contains(published', delivered'[n])
  <2>1. \A n \in DOMAIN delivered' : Contains(delivered', delivered'[n])
    BY <1>5 DEF Contains
  <2> QED BY <1>1, <1>2, <1>4, <2>1, WhatWasDelivered DEF SessionInv
<1>7. ASSUME NEW o \in store, o.expect = "pubrec", Contains(delivered', o.msg)
      PROVE  o.id \in received' \/ o.msg \in forgotten'
  <2>1. CASE o = e
    BY <1>2, <1>3, <1>7, <2>1
  <2>2. CASE o # e
    BY <1>1, <1>2, <1>3, <1>4, <1>7, <2>2 DEF OnceDelivered
  <2> QED BY <2>1, <2>2
<1> QED BY <1>1, <1>6, <1>7 DEF OnceDelivered

LEMMA OnceDeliveredStep == ASSUME SessionInv, OnceDelivered, [Next]_vars PROVE OnceDelivered'
<1> USE DEF clientVars, senderVars, receiverVars, brokerVars, outVars, netVars
<1>1. CASE \E m \in Msgs : Publish(m)
  BY <1>1, PublishOnce
<1>2. CASE OnPuback \/ OnPubcomp \/ OnSuback \/ OnPublish \/ OnPubrel
  BY <1>2, OnceDeliveredFrame DEF OnPuback, OnPubcomp, OnSuback, OnPublish, OnPubrel, Receives
<1>3. CASE OnPubrec
  <2>1. \A e \in store' : e.expect = "pubrec" => e \in store
    BY <1>3 DEF OnPubrec, Emplaced, Entry
  <2> QED BY <1>3, <2>1, OnceDeliveredFrame DEF OnPubrec
<1>4. CASE OnConnack
  BY <1>4, OnConnackOnce
<1>5. CASE Connect \/ Subscribe \/ ConnectionLost \/ WireBreaks
  BY <1>5, OnceDeliveredFrame DEF Connect, Subscribe, ConnectionLost, WireBreaks
<1>6. CASE BrokerForgets
  BY <1>6, BrokerForgetsOnce
<1>7. CASE \E m \in InMsgs : BrokerSends(m)
  BY <1>7, OnceDeliveredFrame DEF BrokerSends
<1>8. CASE BrokerConnect \/ BrokerPublish \/ BrokerPubrel
  BY <1>8, BrokerConnectOnce, BrokerPublishOnce, BrokerPubrelOnce
<1>9. CASE BrokerSubscribe \/ BrokerPubrec \/ BrokerAcked
  BY <1>9, OnceDeliveredFrame DEF BrokerSubscribe, BrokerPubrec, BrokerAcked, BrokerReads
<1>10. CASE UNCHANGED vars
  BY <1>10, OnceDeliveredFrame DEF vars
<1> QED BY <1>1, <1>2, <1>3, <1>4, <1>5, <1>6, <1>7, <1>8, <1>9, <1>10
        DEF Next, ClientHandles, BrokerHandles

\* What the broker has passed on was published, and it remembers having done so.
THEOREM OnceDeliveredAlways == ASSUME Tidy PROVE Spec => [](SessionInv /\ OnceDelivered)
<1>1. Init => OnceDelivered
  BY DEF Init, OnceDelivered
<1>2. SessionInv /\ OnceDelivered /\ [Next]_vars => OnceDelivered'
  BY OnceDeliveredStep
<1> QED BY <1>1, <1>2, SessionAlways, PTL DEF Spec

-----------------------------------------------------------------------------
(* The store keeps a message until the broker has it.                        *)

\* A stored message that a step takes from the store.
LEMMA KeptOrDelivered ==
  ASSUME SessionInv, [Next]_vars,
         NEW e \in store, e.msg # NoMsg, \A other \in store' : other.msg # e.msg
  PROVE  Contains(delivered, e.msg) \/ e.msg \in discarded'
<1> USE DEF clientVars, senderVars, receiverVars, brokerVars, outVars, netVars
<1> DEFINE Goal == Contains(delivered, e.msg) \/ e.msg \in discarded'
<1>1. e \notin store'
  OBVIOUS
<1>2. CASE \E m \in Msgs : Publish(m)
  BY <1>1, <1>2 DEF Publish, Emplaced
<1>3. ASSUME NEW kind \in {"puback", "pubrec", "pubcomp"}, Receives(kind),
             e \in Find(Head(toClient).id, kind)
      PROVE  Goal
  <2>1. 1 \in Answering /\ toClient[1].kind = kind /\ Head(toClient) = toClient[1]
    BY <1>3, ClientReads DEF SessionInv, Answers
  <2>2. e.id = toClient[1].id /\ e.expect = kind
    BY <1>3, <2>1 DEF Find
  <2>3. kind # "pubcomp"
    BY <2>2 DEF SessionInv, StoreInv
  <2> QED BY <2>1, <2>2, <2>3 DEF SessionInv, AnswersInv
<1>4. CASE OnPuback
  BY <1>1, <1>3, <1>4 DEF OnPuback
<1>5. CASE OnPubrec
  BY <1>1, <1>3, <1>5 DEF OnPubrec, Emplaced
<1>6. CASE OnPubcomp
  BY <1>1, <1>3, <1>6 DEF OnPubcomp
<1>7. CASE OnConnack
  BY <1>1, <1>7 DEF OnConnack
<1>8. CASE OnSuback \/ OnPublish \/ OnPubrel
  BY <1>1, <1>8 DEF OnSuback, OnPublish, OnPubrel
<1>9. CASE Connect \/ Subscribe \/ ConnectionLost \/ WireBreaks
  BY <1>1, <1>9 DEF Connect, Subscribe, ConnectionLost, WireBreaks
<1>10. CASE BrokerForgets \/ \E m \in InMsgs : BrokerSends(m)
  BY <1>1, <1>10 DEF BrokerForgets, BrokerSends
<1>11. CASE BrokerHandles
  BY <1>1, <1>11 DEF BrokerHandles, BrokerConnect, BrokerPublish, BrokerPubrel, BrokerSubscribe,
     BrokerPubrec, BrokerAcked, BrokerReads
<1>12. CASE UNCHANGED vars
  BY <1>1, <1>12 DEF vars
<1> QED BY <1>2, <1>4, <1>5, <1>6, <1>7, <1>8, <1>9, <1>10, <1>11, <1>12 DEF Next, ClientHandles

\* What only grows.
LEMMA Grows ==
  ASSUME SessionInv, [Next]_vars
  PROVE  /\ \A x : Contains(delivered, x) => Contains(delivered', x)
         /\ discarded \subseteq discarded'
<1> USE DEF clientVars, senderVars, receiverVars, brokerVars, outVars, netVars
<1>1. CASE BrokerPublish
  <2> DEFINE All == Msgs \cup InMsgs \cup {NoMsg}
             m == toBroker[1].msg
  <2>1. Head(toBroker) = toBroker[1] /\ toBroker[1] \in Packets /\ UNCHANGED discarded
    BY <1>1, PublishTaken DEF BrokerPublish, BrokerReads
  <2>2. delivered' = delivered \/ delivered' = Append(delivered, m)
    BY <1>1, <2>1 DEF BrokerPublish
  <2>3. delivered \in Seq(All) /\ m \in All
    BY <2>1 DEF SessionInv, TypeInv, Packets
  <2> HIDE DEF All, m
  <2>4. \A x : Contains(Append(delivered, m), x) <=> Contains(delivered, x) \/ x = m
    BY <2>3, ContainsAppended
  <2> QED BY <2>1, <2>2, <2>4
<1>2. CASE ~BrokerPublish
  <2>1. UNCHANGED delivered
    BY <1>2 DEF Next, Connect, Publish, Subscribe, ClientHandles, OnConnack, OnPuback, OnPubrec,
       OnPubcomp, OnSuback, OnPublish, OnPubrel, ConnectionLost, WireBreaks, BrokerForgets,
       BrokerSends, BrokerHandles, BrokerConnect, BrokerPubrel, BrokerSubscribe, BrokerPubrec,
       BrokerAcked, vars
  <2>2. discarded \subseteq discarded'
    BY <1>2 DEF Next, Connect, Publish, Subscribe, ClientHandles, OnConnack, OnPuback, OnPubrec,
       OnPubcomp, OnSuback, OnPublish, OnPubrel, ConnectionLost, WireBreaks, BrokerForgets,
       BrokerSends, BrokerHandles, BrokerReads, BrokerConnect, BrokerPubrel, BrokerSubscribe,
       BrokerPubrec, BrokerAcked, vars
  <2> QED BY <2>1, <2>2
<1> QED BY <1>1, <1>2

\* What is published is stored in the same step.
LEMMA PublishedIsStored ==
  ASSUME SessionInv, [Next]_vars, NEW n \in DOMAIN published'
  PROVE  \/ n \in DOMAIN published /\ published'[n] = published[n]
         \/ \E e \in store' : e.msg = published'[n]
<1> USE DEF clientVars, senderVars, receiverVars, brokerVars, outVars, netVars
<1>1. CASE \E m \in Msgs : Publish(m)
  <2>1. PICK m \in Msgs : Publish(m)
    BY <1>1
  <2>2. published' = Append(published, m) /\ published \in Seq(Msgs)
    BY <2>1 DEF Publish, SessionInv, TypeInv
  <2>3. \/ n \in DOMAIN published /\ published'[n] = published[n]
        \/ published'[n] = m
    BY <2>2, Appended
  <2>4. PICK id \in LowestFree : store' = Emplaced(store, id, AckFor(m), m)
    BY <2>1 DEF Publish
  <2>5. \A e \in store : e.id # id
    BY <2>4 DEF LowestFree, SessionInv, StoreInv, IdsAreUnique
  <2>6. Entry(id, AckFor(m), m, NextPlace) \in store'
    BY <2>4, <2>5 DEF Emplaced, Find
  <2> QED BY <2>3, <2>6 DEF Entry
<1>2. CASE ~ \E m \in Msgs : Publish(m)
  <2>1. UNCHANGED published
    BY <1>2 DEF Next, Connect, Subscribe, ClientHandles, OnConnack, OnPuback, OnPubrec,
       OnPubcomp, OnSuback, OnPublish, OnPubrel, ConnectionLost, WireBreaks, BrokerForgets,
       BrokerSends, BrokerHandles, BrokerReads, BrokerConnect, BrokerPublish, BrokerPubrel,
       BrokerSubscribe, BrokerPubrec, BrokerAcked, vars
  <2> QED BY <2>1
<1> QED BY <1>1, <1>2

\* Whatever breaks, a message the application published is stored, with the
\* broker, or was dropped with a session the broker did not have.
THEOREM StoredUntilConfirmedAlways == ASSUME Tidy PROVE Spec => []StoredUntilConfirmed
<1>1. Init => StoredUntilConfirmed
  BY DEF Init, StoredUntilConfirmed
<1>2. ASSUME SessionInv, StoredUntilConfirmed, [Next]_vars PROVE StoredUntilConfirmed'
  <2> SUFFICES ASSUME NEW n \in DOMAIN published', ~Contains(delivered', published'[n]),
                      published'[n] \notin discarded',
                      n \in DOMAIN published, published'[n] = published[n]
               PROVE  \E e \in store' : e.msg = published'[n]
    BY <1>2, PublishedIsStored DEF StoredUntilConfirmed
  <2>1. ~Contains(delivered, published[n]) /\ published[n] \notin discarded
    BY <1>2, Grows
  <2>2. PICK e \in store : e.msg = published[n]
    BY <1>2, <2>1 DEF StoredUntilConfirmed
  <2>3. e.msg # NoMsg
    BY <1>2, <2>2, EndpointAssumption DEF SessionInv, TypeInv
  <2> QED BY <1>2, <2>1, <2>2, <2>3, KeptOrDelivered
<1> QED BY <1>1, <1>2, SessionAlways, PTL DEF Spec

-----------------------------------------------------------------------------
(* Exactly once.                                                             *)
LEMMA ForgottenGrows ==
  ASSUME SessionInv, OnceDelivered, [Next]_vars, NEW x, Contains(delivered, x), x \in forgotten
  PROVE  x \in forgotten'
<1> USE DEF clientVars, senderVars, receiverVars, brokerVars, outVars, netVars
<1>1. CASE BrokerForgets
  <2>1. Contains(published, x)
    BY WhatWasDelivered DEF SessionInv
  <2> QED BY <1>1, <2>1 DEF BrokerForgets, SessionInv, TypeInv, Contains, Range
<1>2. CASE ~BrokerForgets
  <2>1. UNCHANGED forgotten
    BY <1>2 DEF Next, Connect, Publish, Subscribe, ClientHandles, OnConnack, OnPuback, OnPubrec,
       OnPubcomp, OnSuback, OnPublish, OnPubrel, ConnectionLost, WireBreaks,
       BrokerSends, BrokerHandles, BrokerConnect, BrokerPublish, BrokerPubrel, BrokerSubscribe,
       BrokerPubrec, BrokerAcked, vars
  <2> QED BY <2>1
<1> QED BY <1>1, <1>2

\* A QoS 2 message the broker passes on: it has not passed it on before, unless
\* it has forgotten so.
LEMMA PassedOnOnce ==
  ASSUME SessionInv, OnceDelivered, BrokerPublish, delivered' # delivered
  PROVE  \E m \in Msgs : /\ delivered' = Append(delivered, m)
                         /\ Qos[m] = 2 => ~Contains(delivered, m) \/ m \in forgotten
<1> DEFINE id == toBroker[1].id
           m == toBroker[1].msg
<1>1. /\ link = "up" /\ Head(toBroker) = toBroker[1]
      /\ \E e \in store : e.id = id /\ e.msg = m /\ m \in Msgs /\ e.expect = AckFor(m)
  BY PublishTaken
<1>2. delivered' = Append(delivered, m) /\ (Qos[m] = 2 => id \notin received)
  BY <1>1 DEF BrokerPublish
<1>3. ASSUME Qos[m] = 2, Contains(delivered, m) PROVE m \in forgotten
  BY <1>1, <1>2, <1>3 DEF OnceDelivered, AckFor
<1> QED BY <1>1, <1>2, <1>3

\* The broker passes a QoS 2 message on once, however often its PUBLISH and its
\* PUBREL are resent, as long as it has not forgotten the session.
THEOREM ExactlyOnceAlways == ASSUME Tidy PROVE Spec => []ExactlyOnce
<1>1. Init => ExactlyOnce
  BY DEF Init, ExactlyOnce
<1>2. ASSUME SessionInv, OnceDelivered, ExactlyOnce, [Next]_vars PROVE ExactlyOnce'
  <2> DEFINE All == Msgs \cup InMsgs \cup {NoMsg}
  <2>1. delivered \in Seq(All)
    BY <1>2 DEF SessionInv, TypeInv
  <2>2. \A n \in DOMAIN delivered : Contains(delivered, delivered[n])
    BY <2>1 DEF Contains
  <2>3. \A n \in DOMAIN delivered : delivered[n] \in forgotten => delivered[n] \in forgotten'
    BY <1>2, <2>2, ForgottenGrows
  <2>4. CASE UNCHANGED delivered
    BY <1>2, <2>3, <2>4 DEF ExactlyOnce
  <2>5. CASE BrokerPublish /\ delivered' # delivered
    <3>1. PICK m \in Msgs : /\ delivered' = Append(delivered, m)
                            /\ Qos[m] = 2 => ~Contains(delivered, m) \/ m \in forgotten
      BY <1>2, <2>5, PassedOnOnce
    <3>2. UNCHANGED forgotten
      BY <2>5 DEF BrokerPublish
    <3>3. /\ DOMAIN delivered = 1..Len(delivered) /\ Len(delivered) \in Nat
          /\ DOMAIN delivered' = 1..(Len(delivered) + 1)
          /\ delivered'[Len(delivered) + 1] = m
          /\ \A n \in 1..Len(delivered) : delivered'[n] = delivered[n]
          /\ \A n \in 1..(Len(delivered) + 1) : n \in 1..Len(delivered) \/ n = Len(delivered) + 1
      <4>1. m \in All
        OBVIOUS
      <4> HIDE DEF All
      <4> QED BY <2>1, <3>1, <4>1, Appended
    <3>4. \A n \in 1..Len(delivered) : delivered[n] = m /\ Qos[m] = 2 => m \in forgotten
      BY <2>2, <3>1, <3>3
    <3> QED BY <1>2, <3>2, <3>3, <3>4 DEF ExactlyOnce
  <2> QED BY <1>2, <2>4, <2>5 DEF Next, Connect, Publish, Subscribe, ClientHandles, OnConnack,
       OnPuback, OnPubrec, OnPubcomp, OnSuback, OnPublish, OnPubrel, ConnectionLost, WireBreaks,
       BrokerForgets, BrokerSends, BrokerHandles, BrokerConnect, BrokerPubrel, BrokerSubscribe,
       BrokerPubrec, BrokerAcked, vars, clientVars, senderVars, receiverVars, brokerVars, outVars,
       netVars
<1> QED BY <1>1, <1>2, OnceDeliveredAlways, PTL DEF Spec

-----------------------------------------------------------------------------
(* Delivery in both directions, for any messages, packet ids and broken       *)
(* connections of a Tidy application. Messages first reach the broker in the  *)
(* order they were published: the order of the store and of what is on its    *)
(* way is that of publication, and what the broker has not passed on is on    *)
(* its way. And no message of a kept session is acknowledged before the       *)
(* application was given it: what is on its way about it matches what the     *)
(* broker waits for.                                                          *)

Publishing == {n \in 1..Len(toBroker) : toBroker[n].kind = "publish"}

\* The store has the messages in the order of their publication,
ByAge ==
  /\ \A j, k \in DOMAIN published : published[j] = published[k] => j = k
  /\ \A j, k \in DOMAIN published, e, o \in store :
       j < k /\ e.msg = published[j] /\ o.msg = published[k] => e.at < o.at
\* a connection has them in the order of the store,
InTurn ==
  \A m, n \in Publishing, e, o \in store :
    m < n /\ e.msg # NoMsg /\ o.msg # NoMsg /\ e.msg = toBroker[m].msg /\ o.msg = toBroker[n].msg =>
      e.at < o.at
\* and all the broker has not passed on.
OnWay ==
  link = "up" /\ wire =>
    \A e \in store : e.msg # NoMsg /\ ~Contains(delivered, e.msg) =>
      \E n \in Publishing : toBroker[n].msg = e.msg

OrderInv == ByAge /\ InTurn /\ OnWay /\ OrderKept

-----------------------------------------------------------------------------
(* What most steps leave alone.                                              *)

\* The PUBLISHes on their way are the same, d places further on.
Shifted(d) ==
  /\ \A n \in Publishing' : n + d \in Publishing /\ toBroker'[n] = toBroker[n + d]
  /\ \A n \in Publishing : n - d \in Publishing' /\ toBroker'[n - d] = toBroker[n]

LEMMA Unshifted == ASSUME UNCHANGED toBroker PROVE Shifted(0)
BY DEF Shifted, Publishing

LEMMA WrittenBehind ==
  ASSUME TypeInv, NEW p \in Packets, p.kind # "publish", toBroker' = toBroker \/ Writes(p)
  PROVE  Shifted(0)
<1>1. CASE toBroker' = toBroker
  BY <1>1, Unshifted
<1>2. CASE Writes(p)
  <2>1. /\ Len(toBroker') = Len(toBroker) + 1 /\ Len(toBroker) \in Nat
        /\ toBroker'[Len(toBroker) + 1] = p
        /\ \A n \in 1..(Len(toBroker) + 1) : n \in 1..Len(toBroker) \/ n = Len(toBroker) + 1
        /\ \A n \in 1..Len(toBroker) : toBroker'[n] = toBroker[n]
    BY <1>2, Appended DEF TypeInv, Writes
  <2>2. \A n \in Publishing' : n \in 1..Len(toBroker) /\ toBroker'[n] = toBroker[n]
    BY <2>1 DEF Publishing
  <2>3. \A n \in Publishing : n \in 1..Len(toBroker') /\ toBroker'[n] = toBroker[n]
    BY <2>1 DEF Publishing
  <2>4. \A n \in 1..Len(toBroker) : n + 0 = n /\ n - 0 = n
    BY <2>1
  <2> QED BY <2>2, <2>3, <2>4 DEF Shifted, Publishing
<1> QED BY <1>1, <1>2

LEMMA TakenBefore ==
  ASSUME TypeInv, NEW kind, kind # "publish", BrokerReads(kind)
  PROVE  Shifted(1)
<1>1. /\ toBroker[1].kind = kind /\ Len(toBroker') = Len(toBroker) - 1 /\ Len(toBroker) \in Nat
      /\ \A n \in 1..Len(toBroker') : n + 1 \in 1..Len(toBroker) /\ toBroker'[n] = toBroker[n + 1]
  BY Consumed DEF TypeInv, BrokerReads
<1>2. \A n \in Publishing : n - 1 \in 1..Len(toBroker') /\ (n - 1) + 1 = n
  BY <1>1 DEF Publishing
<1> QED BY <1>1, <1>2 DEF Shifted, Publishing

LEMMA OrderFrame ==
  ASSUME OrderInv, UNCHANGED <<published, delivered>>, discarded \subseteq discarded',
         \A e \in store' : e.msg # NoMsg => e \in store,
         NEW d \in {0, 1}, Shifted(d),
         link' = "up" /\ wire' => link = "up" /\ wire,
         NoMsg \notin Range(published)
  PROVE  OrderInv'
<1>1. ByAge'
  BY DEF OrderInv, ByAge, Range
<1>2. InTurn'
  <2> SUFFICES ASSUME NEW m \in Publishing', NEW n \in Publishing', NEW e \in store', NEW o \in store',
                      m < n, e.msg # NoMsg, o.msg # NoMsg,
                      e.msg = toBroker'[m].msg, o.msg = toBroker'[n].msg
               PROVE  e.at < o.at
    BY DEF InTurn
  <2>1. e \in store /\ o \in store /\ m \in Int /\ n \in Int
    BY DEF Publishing
  <2>2. m + d < n + d
    BY <2>1
  <2> QED BY <2>1, <2>2 DEF OrderInv, InTurn, Shifted
<1>3. OnWay'
  BY DEF OrderInv, OnWay, Shifted
<1>4. OrderKept'
  BY DEF OrderInv, OrderKept
<1> QED BY <1>1, <1>2, <1>3, <1>4 DEF OrderInv

-----------------------------------------------------------------------------
(* Publication.                                                              *)
LEMMA PublishOrder ==
  ASSUME Tidy, SessionInv, OnceDelivered, OrderInv, NEW m \in Msgs, Publish(m)
  PROVE  OrderInv'
<1>1. /\ ~Contains(published, m) /\ published' = Append(published, m) /\ link \in PublishIn
      /\ UNCHANGED <<link, wire, delivered, discarded>>
  BY DEF Publish, brokerVars
<1>2. PICK id \in LowestFree : /\ store' = Emplaced(store, id, AckFor(m), m)
                               /\ Send(<<Packet("publish", id, m)>>)
  BY DEF Publish
<1>3. id \in free /\ \A e \in store : e.id # id
  BY <1>2 DEF LowestFree, SessionInv, StoreInv, IdsAreUnique
<1> DEFINE new == Entry(id, AckFor(m), m, NextPlace)
           p == Packet("publish", id, m)
<1>4. /\ store' = store \cup {new} /\ new.msg = m /\ new.at = NextPlace
      /\ p.kind = "publish" /\ p.msg = m /\ p \in Packets
  <2>1. id \in Nat
    BY <1>3 DEF SessionInv, TypeInv, Ids
  <2> QED BY <1>2, <1>3, <2>1 DEF Emplaced, Find, Entry, Packet, Packets, Kinds
<1>5. NextPlace \in Nat /\ \A e \in store : e.at \in Nat /\ e.at < NextPlace
  BY PlaceAfterAll DEF SessionInv, TypeInv, Placed, NextPlace
<1>6. /\ published \in Seq(Msgs) /\ DOMAIN published = 1..Len(published) /\ Len(published) \in Nat
      /\ DOMAIN published' = 1..(Len(published) + 1) /\ published'[Len(published) + 1] = m
      /\ \A j \in 1..Len(published) : published'[j] = published[j] /\ published[j] # m
      /\ \A j \in 1..(Len(published) + 1) : j \in 1..Len(published) \/ j = Len(published) + 1
  <2>1. published \in Seq(Msgs)
    BY DEF SessionInv, TypeInv
  <2>2. \A j \in 1..Len(published) : published[j] # m
    BY <1>1 DEF Contains
  <2> QED BY <1>1, <2>1, <2>2, Appended
<1>7. \A e \in store : e.msg # m /\ (e.msg # NoMsg => Contains(published, e.msg))
  <2>1. \A e \in store : e.msg = NoMsg \/ Contains(published, e.msg)
    BY DEF SessionInv, StoreInv
  <2> QED BY <1>1, <2>1, EndpointAssumption
<1>8. m # NoMsg
  BY EndpointAssumption
<1>9. \/ toBroker' = toBroker /\ ~ (link = "up" /\ wire)
      \/ wire /\ link # "down" /\ toBroker' = Append(toBroker, p)
  BY <1>2, <1>4, Appended DEF Send, SessionInv, TypeInv
<1> HIDE DEF new, p
<1>10. ByAge'
  <2>1. \A j, k \in DOMAIN published' : published'[j] = published'[k] => j = k
    BY <1>6 DEF OrderInv, ByAge
  <2>2. ASSUME NEW j \in DOMAIN published', NEW k \in DOMAIN published',
               NEW e \in store', NEW o \in store',
               j < k, e.msg = published'[j], o.msg = published'[k]
        PROVE  e.at < o.at
    <3>1. j \in 1..Len(published)
      BY <1>6, <2>2
    <3>2. e \in store
      BY <1>4, <1>6, <2>2, <3>1
    <3>3. CASE o = new
      BY <1>4, <1>5, <3>2, <3>3
    <3>4. CASE o # new
      <4>1. o \in store /\ o.msg # m
        BY <1>4, <1>7, <3>4
      <4>2. k \in 1..Len(published)
        BY <1>6, <2>2, <4>1
      <4> QED BY <1>6, <2>2, <3>1, <3>2, <4>1, <4>2 DEF OrderInv, ByAge
    <3> QED BY <3>3, <3>4
  <2> QED BY <2>1, <2>2 DEF ByAge
<1>11. \A n \in Publishing' :
         \/ n \in Publishing /\ toBroker'[n] = toBroker[n]
         \/ toBroker'[n] = p /\ n = Len(toBroker) + 1
  BY <1>4, <1>9, ClientWrites DEF SessionInv, Publishing, Writes
<1>12. \A n \in Publishing : toBroker[n].msg # m
  <2>1. \A n \in Publishing : \E e \in store : e.msg = toBroker[n].msg
    BY DEF SessionInv, AsksInv, Asking, Asks, Publishing
  <2> QED BY <1>7, <2>1
<1>13. InTurn'
  <2> SUFFICES ASSUME NEW i \in Publishing', NEW n \in Publishing', NEW e \in store', NEW o \in store',
                      i < n, e.msg # NoMsg, o.msg # NoMsg,
                      e.msg = toBroker'[i].msg, o.msg = toBroker'[n].msg
               PROVE  e.at < o.at
    BY DEF InTurn
  <2>1. i \in Publishing /\ toBroker'[i] = toBroker[i] /\ i \in Int
    <3>1. Len(toBroker) \in Nat /\ \A j \in Publishing : j \in Int /\ j <= Len(toBroker)
      BY DEF Publishing, SessionInv, TypeInv
    <3> QED BY <1>11, <3>1
  <2>2. e \in store
    BY <1>4, <1>12, <2>1
  <2>3. CASE o = new
    BY <1>4, <1>5, <2>2, <2>3
  <2>4. CASE o # new
    <3>1. o \in store /\ o.msg # m
      BY <1>4, <1>7, <2>4
    <3>2. n \in Publishing /\ toBroker'[n] = toBroker[n]
      BY <1>4, <1>11, <3>1
    <3> QED BY <2>1, <2>2, <3>1, <3>2 DEF OrderInv, InTurn
  <2> QED BY <2>3, <2>4
<1>14. OnWay'
  <2> SUFFICES ASSUME link = "up", wire, NEW e \in store', e.msg # NoMsg, ~Contains(delivered, e.msg)
               PROVE  \E n \in Publishing' : toBroker'[n].msg = e.msg
    BY <1>1 DEF OnWay
  <2>1. /\ toBroker' = Append(toBroker, p) /\ Len(toBroker) \in Nat
        /\ Len(toBroker') = Len(toBroker) + 1 /\ toBroker'[Len(toBroker) + 1] = p
        /\ \A n \in 1..Len(toBroker) : toBroker'[n] = toBroker[n]
    <3>1. toBroker' = Append(toBroker, p) /\ toBroker \in Seq(Packets)
      BY <1>9 DEF SessionInv, TypeInv
    <3> QED BY <1>4, <3>1, Appended
  <2>2. /\ Len(toBroker) + 1 \in Publishing'
        /\ \A n \in Publishing : n \in Publishing' /\ toBroker'[n] = toBroker[n]
    BY <1>4, <2>1 DEF Publishing
  <2>3. CASE e = new
    BY <1>4, <2>1, <2>2, <2>3
  <2>4. CASE e # new
    BY <1>4, <2>2, <2>4 DEF OrderInv, OnWay
  <2> QED BY <2>3, <2>4
<1>15. OrderKept'
  <2>1. ~Contains(delivered, m)
    BY <1>1, WhatWasDelivered DEF SessionInv
  <2>2. \A k \in DOMAIN published' : Contains(delivered, published'[k]) => k \in 1..Len(published)
    BY <1>6, <2>1
  <2>3. ASSUME NEW n \in DOMAIN published', NEW k \in 1..Len(published), n < k
        PROVE  n \in 1..Len(published)
    BY <1>6, <2>3
  <2> QED BY <1>1, <1>6, <2>2, <2>3 DEF OrderInv, OrderKept
<1> QED BY <1>10, <1>13, <1>14, <1>15 DEF OrderInv

-----------------------------------------------------------------------------
(* A session that is resumed: everything is resent, the oldest first.        *)
LEMMA SortedCovers ==
  ASSUME NEW S, Placed(S)
  PROVE  /\ \A n \in 1..Cardinality(S) : Sorted(S)[n] \in S
         /\ \A e \in S : \E n \in 1..Cardinality(S) : Sorted(S)[n] = e
<1> DEFINE c == Cardinality(S)
           s == Sorted(S)
<1>1. c \in Nat /\ IsFiniteSet(S)
  BY FS_CardinalityType DEF Placed
<1>2. s \in [1..c -> S] /\ \A m, n \in 1..c : m < n => s[m].at < s[n].at
  BY SortedExists DEF ByPlace
<1> HIDE DEF c, s
<1>3. ASSUME NEW m \in 1..c, NEW n \in 1..c, s[m] = s[n] PROVE m = n
  <2>1. s[m].at \in Nat /\ s[n].at \in Nat
    BY <1>2 DEF Placed
  <2>2. ~ (m < n) /\ ~ (n < m)
    BY <1>2, <1>3, <2>1
  <2> QED BY <1>1, <2>2
<1>4. s \in Injection(1..c, S)
  BY <1>2, <1>3 DEF Injection, IsInjective
<1>5. Cardinality(1..c) = c
  BY <1>1, FS_Interval
<1>6. s \in Surjection(1..c, S)
  BY <1>1, <1>4, <1>5, FS_Injection DEF c
<1> QED BY <1>2, <1>6 DEF Surjection, c, s

LEMMA OnConnackOrder ==
  ASSUME Tidy, SessionInv, OrderInv, OnConnack
  PROVE  OrderInv'
<1>1. /\ link = "open" /\ link' = "up" /\ toClient # <<>>
      /\ UNCHANGED <<wire, published, delivered>>
  BY DEF OnConnack, Receives, brokerVars
<1>2. toBroker = <<>>
  BY <1>1 DEF SessionInv, LinkInv
<1>3. store' = {} \/ (store' = store /\ discarded' = discarded /\ Send(Stored))
  BY DEF OnConnack
<1>4. OrderKept'
  <2>1. discarded \subseteq discarded'
    BY DEF OnConnack
  <2> QED BY <1>1, <2>1 DEF OrderInv, OrderKept
<1>5. CASE store' = {}
  BY <1>1, <1>4, <1>5 DEF OrderInv, ByAge, InTurn, OnWay
<1>6. CASE store' = store /\ discarded' = discarded /\ Send(Stored)
  <2> DEFINE c == Cardinality(store)
             s == Sorted(store)
  <2>1. Placed(store) /\ store \subseteq Entries(Msgs \cup {NoMsg}) /\ StoreInv
    BY DEF SessionInv, TypeInv
  <2>2. /\ c \in Nat
        /\ \A n \in 1..c : s[n] \in store
        /\ \A e \in store : \E n \in 1..c : s[n] = e
        /\ \A m, n \in 1..c : m < n => s[m].at < s[n].at
    BY <2>1, SortedCovers, SortedExists, FS_CardinalityType DEF Placed, ByPlace
  <2>3. Stored \in Seq(Packets) /\ Stored = [n \in 1..c |-> Resent(s[n])]
    BY StoredAsks DEF SessionInv, Stored, InOrder
  <2> HIDE DEF c, s
  <2>4. toBroker' = Stored \/ (toBroker' = <<>> /\ ~wire)
    <3>1. <<>> \o Stored = Stored
      BY <2>3
    <3>2. wire \in BOOLEAN
      BY DEF SessionInv, TypeInv
    <3> QED BY <1>1, <1>2, <1>6, <3>1, <3>2 DEF Send
  <2>5. /\ Len(Stored) = c
        /\ \A n \in 1..c : /\ Stored[n].kind = "publish" <=> s[n].expect # "pubcomp"
                           /\ Stored[n].kind = "publish" => Stored[n].msg = s[n].msg
    BY <2>2, <2>3 DEF Resent, Packet
  <2>6. ByAge'
    BY <1>1, <1>6 DEF OrderInv, ByAge
  <2>7. InTurn'
    <3> SUFFICES ASSUME NEW m \in Publishing', NEW n \in Publishing', NEW e \in store, NEW o \in store,
                        m < n, e.msg # NoMsg, o.msg # NoMsg,
                        e.msg = toBroker'[m].msg, o.msg = toBroker'[n].msg
                 PROVE  e.at < o.at
      BY <1>6 DEF InTurn
    <3>1. toBroker' = Stored
      BY <2>4 DEF Publishing
    <3>2. m \in 1..c /\ n \in 1..c /\ e.msg = s[m].msg /\ o.msg = s[n].msg
      BY <2>5, <3>1 DEF Publishing
    <3>3. e = s[m] /\ o = s[n]
      BY <2>1, <2>2, <3>2 DEF StoreInv
    <3> QED BY <2>2, <3>2, <3>3
  <2>8. OnWay'
    <3> SUFFICES ASSUME wire, NEW e \in store, e.msg # NoMsg
                 PROVE  \E n \in Publishing' : toBroker'[n].msg = e.msg
      BY <1>1, <1>6 DEF OnWay
    <3>1. e.expect # "pubcomp"
      BY <2>1 DEF StoreInv
    <3>2. PICK n \in 1..c : s[n] = e
      BY <2>2
    <3>3. toBroker' = Stored
      BY <2>4
    <3> QED BY <2>5, <3>1, <3>2, <3>3 DEF Publishing
  <2> QED BY <1>4, <2>6, <2>7, <2>8 DEF OrderInv
<1> QED BY <1>3, <1>5, <1>6

-----------------------------------------------------------------------------
(* The broker passes on the message that is the oldest it does not have.     *)
LEMMA BrokerPublishOrder ==
  ASSUME SessionInv, OnceDelivered, StoredUntilConfirmed, OrderInv, BrokerPublish
  PROVE  OrderInv'
<1> DEFINE x == toBroker[1].msg
<1>1. /\ link = "up" /\ wire /\ BrokerReads("publish") /\ 1 \in Asking
      /\ Head(toBroker) = toBroker[1] /\ toBroker[1] \in Packets
  BY PublishTaken
<1>2. PICK e \in store : /\ e.id = toBroker[1].id /\ e.msg = x /\ e.msg \in Msgs
                         /\ e.expect = AckFor(e.msg)
  BY PublishTaken
<1>3. /\ toBroker[1].kind = "publish" /\ Len(toBroker') = Len(toBroker) - 1 /\ Len(toBroker) \in Nat
      /\ \A n \in 1..Len(toBroker') : n + 1 \in 1..Len(toBroker) /\ toBroker'[n] = toBroker[n + 1]
  BY <1>1, Consumed DEF SessionInv, TypeInv, BrokerReads
<1>4. UNCHANGED <<link, wire, store, published, discarded>>
  BY <1>1 DEF BrokerReads, clientVars, senderVars
<1>5. /\ \A m : Contains(delivered', m) => Contains(delivered, m) \/ m = x
      /\ \A m : Contains(delivered, m) => Contains(delivered', m)
      /\ Contains(delivered', x)
  <2> DEFINE All == Msgs \cup InMsgs \cup {NoMsg}
  <2>1. delivered \in Seq(All) /\ x \in All
    BY <1>2 DEF SessionInv, TypeInv
  <2>2. \A m : Contains(Append(delivered, x), m) <=> Contains(delivered, m) \/ m = x
    <3> HIDE DEF All, x
    <3> QED BY <2>1, ContainsAppended
  <2>3. CASE delivered' = Append(delivered, x)
    BY <2>2, <2>3
  <2>4. CASE delivered' = delivered /\ e.id \in received
    <3>1. PICK o \in store : o.id = e.id /\ (o.expect = "pubcomp"
                                             \/ (o.expect = "pubrec" /\ Contains(delivered, o.msg)))
      BY <2>4 DEF SessionInv, ReceivedInv
    <3>2. o = e
      BY <3>1 DEF SessionInv, StoreInv, IdsAreUnique
    <3>3. e.expect # "pubcomp"
      BY <1>2 DEF AckFor
    <3> QED BY <1>2, <2>4, <3>1, <3>2, <3>3
  <2> QED BY <1>1, <1>2, <2>3, <2>4 DEF BrokerPublish
<1>6. ByAge'
  BY <1>4 DEF OrderInv, ByAge
<1>7. \A n \in Publishing' : n \in Int /\ n + 1 \in Publishing /\ toBroker'[n] = toBroker[n + 1]
  BY <1>3 DEF Publishing
<1>8. InTurn'
  <2> SUFFICES ASSUME NEW m \in Publishing', NEW n \in Publishing', NEW a \in store, NEW o \in store,
                      m < n, a.msg # NoMsg, o.msg # NoMsg,
                      a.msg = toBroker'[m].msg, o.msg = toBroker'[n].msg
               PROVE  a.at < o.at
    BY <1>4 DEF InTurn
  <2>1. m + 1 < n + 1
    BY <1>7
  <2> QED BY <1>7, <2>1 DEF OrderInv, InTurn
<1>9. OnWay'
  <2> SUFFICES ASSUME NEW o \in store, o.msg # NoMsg, ~Contains(delivered', o.msg)
               PROVE  \E n \in Publishing' : toBroker'[n].msg = o.msg
    BY <1>4 DEF OnWay
  <2>1. PICK n \in Publishing : toBroker[n].msg = o.msg
    BY <1>1, <1>5 DEF OrderInv, OnWay
  <2>2. n # 1
    BY <1>5, <2>1
  <2>3. n - 1 \in 1..Len(toBroker') /\ (n - 1) + 1 = n
    BY <1>3, <2>2 DEF Publishing
  <2>4. n - 1 \in Publishing' /\ toBroker'[n - 1] = toBroker[n]
    BY <1>3, <2>1, <2>3 DEF Publishing
  <2> QED BY <2>1, <2>4
\* An older message the broker does not have would be on its way, behind x: but
\* the connection has the messages in the order of the store.
<1>10. OrderKept'
  <2> SUFFICES ASSUME NEW j \in DOMAIN published, NEW k \in DOMAIN published,
                      j < k, published[k] = x,
                      ~Contains(delivered, published[j]), published[j] \notin discarded
               PROVE  FALSE
    BY <1>4, <1>5 DEF OrderInv, OrderKept
  <2>1. PICK o \in store : o.msg = published[j]
    BY DEF StoredUntilConfirmed
  <2>2. o.msg # NoMsg /\ e.msg # NoMsg /\ o.msg # x /\ j # k
    <3>1. published[j] \in Msgs /\ j # k
      BY DEF SessionInv, TypeInv
    <3> QED BY <1>2, <2>1, <3>1, EndpointAssumption DEF OrderInv, ByAge
  <2>3. PICK n \in Publishing : toBroker[n].msg = o.msg
    BY <1>1, <2>1, <2>2 DEF OrderInv, OnWay
  <2>4. 1 \in Publishing /\ 1 < n
    BY <1>3, <2>2, <2>3 DEF Publishing
  <2>5. e.at < o.at
    BY <1>2, <2>2, <2>3, <2>4 DEF OrderInv, InTurn
  <2>6. o.at < e.at
    BY <1>2, <2>1 DEF OrderInv, ByAge
  <2>7. e.at \in Nat /\ o.at \in Nat
    BY DEF SessionInv, TypeInv, Placed
  <2> QED BY <2>5, <2>6, <2>7
<1> QED BY <1>6, <1>8, <1>9, <1>10 DEF OrderInv

-----------------------------------------------------------------------------
LEMMA OrderStep ==
  ASSUME Tidy, SessionInv, OnceDelivered, StoredUntilConfirmed, OrderInv, [Next]_vars
  PROVE  OrderInv'
<1> USE DEF clientVars, senderVars, receiverVars, brokerVars, outVars, netVars
<1>0. TypeInv /\ NoMsg \notin Range(published)
  <2>1. TypeInv /\ published \in Seq(Msgs)
    BY DEF SessionInv, TypeInv
  <2>2. \A n \in DOMAIN published : published[n] \in Msgs
    BY <2>1
  <2> QED BY <2>1, <2>2, EndpointAssumption DEF Range
<1>1. CASE \E m \in Msgs : Publish(m)
  BY <1>1, PublishOrder
<1>2. CASE OnConnack
  BY <1>2, OnConnackOrder
<1>3. CASE BrokerPublish
  BY <1>3, BrokerPublishOrder
<1>4. CASE OnPuback \/ OnPubcomp \/ OnSuback
  <2>1. /\ UNCHANGED <<toBroker, published, delivered, discarded, link, wire>> /\ store' \subseteq store
    BY <1>4 DEF OnPuback, OnPubcomp, OnSuback
  <2> QED BY <1>0, <2>1, Unshifted, OrderFrame
<1>5. CASE Subscribe
  <2>1. PICK id \in LowestFree : Send(<<Packet("subscribe", id, NoMsg)>>)
    BY <1>5 DEF Subscribe
  <2>2. UNCHANGED <<published, delivered, discarded, link, wire, store>>
    BY <1>5 DEF Subscribe
  <2> DEFINE p == Packet("subscribe", id, NoMsg)
  <2>3. p \in Packets /\ p.kind # "publish"
    BY <1>0 DEF Packet, Packets, Kinds, LowestFree, TypeInv, Ids
  <2> HIDE DEF p
  <2>4. toBroker' = toBroker \/ Writes(p)
    BY <1>0, <2>1, <2>3, SendOne DEF Writes, p
  <2>5. Shifted(0)
    BY <1>0, <2>3, <2>4, WrittenBehind
  <2> QED BY <1>0, <2>2, <2>5, OrderFrame
<1>6. CASE OnPubrec \/ OnPublish \/ OnPubrel
  <2>1. PICK kind \in {"pubrec", "publish", "pubrel"},
             answer \in {"pubrel", "puback", "pubrec", "pubcomp"} :
          Receives(kind) /\ Send(<<Packet(answer, Head(toClient).id, NoMsg)>>)
    BY <1>6 DEF OnPubrec, OnPublish, OnPubrel, AckFor
  <2>2. /\ UNCHANGED <<published, delivered, discarded, link, wire>>
        /\ \A e \in store' : e.msg # NoMsg => e \in store
    BY <1>6 DEF OnPubrec, OnPublish, OnPubrel, Emplaced, Entry
  <2> DEFINE p == Packet(answer, Head(toClient).id, NoMsg)
  <2>3. p \in Packets /\ p.kind # "publish"
    <3>1. Head(toClient).id \in Nat
      BY <1>0, <2>1, ClientReads DEF Packets
    <3> QED BY <3>1 DEF Packet, Packets, Kinds
  <2> HIDE DEF p
  <2>4. toBroker' = toBroker \/ Writes(p)
    BY <1>0, <2>1, <2>3, SendOne DEF Writes, p
  <2>5. Shifted(0)
    BY <1>0, <2>3, <2>4, WrittenBehind
  <2> QED BY <1>0, <2>2, <2>5, OrderFrame
<1>7. CASE Connect \/ WireBreaks \/ ConnectionLost
  <2>1. /\ UNCHANGED <<published, delivered, discarded, store>>
        /\ ~ (link' = "up" /\ wire')
    BY <1>7 DEF Connect, WireBreaks, ConnectionLost
  <2>2. Publishing' = {} \/ UNCHANGED toBroker
    BY <1>7 DEF Publishing, Connect, WireBreaks, ConnectionLost, ConnectPacket, Packet
  <2>3. InTurn'
    BY <2>1, <2>2 DEF OrderInv, InTurn, Publishing
  <2>4. OnWay'
    BY <2>1 DEF OnWay
  <2>5. ByAge' /\ OrderKept'
    BY <2>1 DEF OrderInv, ByAge, OrderKept
  <2> QED BY <2>3, <2>4, <2>5 DEF OrderInv
<1>8. CASE BrokerForgets \/ (\E m \in InMsgs : BrokerSends(m)) \/ UNCHANGED vars
  <2>1. UNCHANGED <<toBroker, published, delivered, discarded, link, wire, store>>
    BY <1>8 DEF BrokerForgets, BrokerSends, vars
  <2> QED BY <1>0, <2>1, Unshifted, OrderFrame
<1>9. CASE BrokerConnect \/ BrokerPubrel \/ BrokerSubscribe \/ BrokerPubrec \/ BrokerAcked
  <2>1. PICK kind \in {"connect", "pubrel", "subscribe", "pubrec", "puback", "pubcomp"} :
          BrokerReads(kind)
    BY <1>9 DEF BrokerConnect, BrokerPubrel, BrokerSubscribe, BrokerPubrec, BrokerAcked
  <2>2. UNCHANGED <<published, delivered, discarded, link, wire, store>>
    BY <1>9 DEF BrokerReads, BrokerConnect, BrokerPubrel, BrokerSubscribe, BrokerPubrec, BrokerAcked
  <2>3. Shifted(1)
    BY <1>0, <2>1, TakenBefore
  <2> QED BY <1>0, <2>2, <2>3, OrderFrame
<1> QED BY <1>1, <1>2, <1>3, <1>4, <1>5, <1>6, <1>7, <1>8, <1>9 DEF Next, ClientHandles, BrokerHandles

\* Whatever breaks and is resent, no message reaches the broker before one that
\* was published earlier, unless that one was dropped with its session.
THEOREM OrderKeptAlways == ASSUME Tidy PROVE Spec => []OrderKept
<1>1. Init => OrderInv
  BY DEF Init, OrderInv, ByAge, InTurn, OnWay, OrderKept, Publishing, Contains
<1>2. SessionInv /\ OnceDelivered /\ StoredUntilConfirmed /\ OrderInv /\ [Next]_vars => OrderInv'
  BY OrderStep
<1>3. OrderInv => OrderKept
  BY DEF OrderInv
<1> QED BY <1>1, <1>2, <1>3, OnceDeliveredAlways, StoredUntilConfirmedAlways, PTL DEF Spec

-----------------------------------------------------------------------------
(* Messages for the client.                                                  *)

\* On their way: what the client is to answer, and its answers.
Offers == {n \in 1..Len(toClient) : toClient[n].kind \in {"publish", "pubrel"}}
Replies == {n \in 1..Len(toBroker) : toBroker[n].kind \in Acks}
Anything == Msgs \cup InMsgs \cup {NoMsg}

OutgoingInv ==
  /\ sent \in Seq(InMsgs) /\ handed \in Seq(Anything)
  /\ \A e \in outgoing : e.expect \in {AckFor(e.msg), "pubcomp"}
  /\ \A e, other \in outgoing : e.id = other.id => e = other
\* Each belongs to a message the broker waits for: it offers what was not
\* acknowledged, and an acknowledgement is of what the application was given.
OffersInv ==
  wire => \A n \in Offers :
    \E e \in outgoing : /\ e.id = toClient[n].id
                        /\ IF toClient[n].kind = "pubrel" THEN e.expect = "pubcomp"
                           ELSE e.expect # "pubcomp" /\ e.msg = toClient[n].msg
RepliesInv ==
  \A n \in Replies :
    \E e \in outgoing : /\ e.id = toBroker[n].id /\ e.expect = toBroker[n].kind
                        /\ e.expect # "pubcomp" => Contains(handed, e.msg)
\* No id is on its way twice, in either direction.
OnceOffered ==
  wire => /\ \A m, n \in Offers : toClient[m].id = toClient[n].id => m = n
          /\ \A m, n \in Replies : toBroker[m].id = toBroker[n].id => m = n
          /\ \A m \in Offers, n \in Replies : toClient[m].id # toBroker[n].id

InboundInv == OutgoingInv /\ OffersInv /\ RepliesInv /\ OnceOffered /\ AckedIsHanded

OffersFrom(d) == \A n \in Offers' : n + d \in Offers /\ toClient'[n] = toClient[n + d]
RepliesFrom(d) == \A n \in Replies' : n + d \in Replies /\ toBroker'[n] = toBroker[n + d]

LEMMA OffersKept == ASSUME UNCHANGED toClient PROVE OffersFrom(0)
BY DEF OffersFrom, Offers
LEMMA RepliesKept == ASSUME UNCHANGED toBroker PROVE RepliesFrom(0)
BY DEF RepliesFrom, Replies

LEMMA OffersRead == ASSUME TypeInv, NEW kind, Receives(kind) PROVE OffersFrom(1)
BY ClientReads DEF OffersFrom, Offers
LEMMA RepliesRead == ASSUME TypeInv, NEW kind, BrokerReads(kind) PROVE RepliesFrom(1)
BY BrokerTakes DEF RepliesFrom, Replies

LEMMA OffersWritten ==
  ASSUME TypeInv, NEW p \in Packets, toClient' = Append(toClient, p)
  PROVE  \A n \in Offers' : \/ n \in Offers /\ toClient'[n] = toClient[n]
                            \/ toClient'[n] = p /\ n = Len(toClient) + 1
BY BrokerWrites DEF Offers
LEMMA RepliesWritten ==
  ASSUME TypeInv, NEW p \in Packets, toBroker' = toBroker \/ Writes(p)
  PROVE  \A n \in Replies' : \/ n \in Replies /\ toBroker'[n] = toBroker[n]
                             \/ toBroker'[n] = p /\ n = Len(toBroker) + 1
BY ClientWrites DEF Replies

LEMMA InboundFrame ==
  ASSUME InboundInv, UNCHANGED <<outgoing, sent, handed, forgotten>>, wire' => wire,
         NEW c \in {0, 1}, OffersFrom(c), NEW d \in {0, 1}, RepliesFrom(d)
  PROVE  InboundInv'
<1>1. OutgoingInv' /\ AckedIsHanded'
  BY DEF InboundInv, OutgoingInv, AckedIsHanded
<1>2. OffersInv'
  BY DEF InboundInv, OffersInv, OffersFrom
<1>3. RepliesInv'
  BY DEF InboundInv, RepliesInv, RepliesFrom
<1>4. OnceOffered'
  <2> SUFFICES ASSUME wire PROVE OnceOffered'
    BY DEF OnceOffered
  <2>1. \A n \in Offers' : n \in Int
    BY DEF Offers
  <2>2. \A n \in Replies' : n \in Int
    BY DEF Replies
  <2>3. \A m, n \in Int : (m + c = n + c => m = n) /\ (m + d = n + d => m = n)
    OBVIOUS
  <2>4. \A m, n \in Offers' : toClient'[m].id = toClient'[n].id => m = n
    <3> SUFFICES ASSUME NEW m \in Offers', NEW n \in Offers', toClient'[m].id = toClient'[n].id
                 PROVE  m = n
      OBVIOUS
    <3>1. m + c = n + c
      BY DEF InboundInv, OnceOffered, OffersFrom
    <3> QED BY <2>1, <2>3, <3>1
  <2>5. \A m, n \in Replies' : toBroker'[m].id = toBroker'[n].id => m = n
    <3> SUFFICES ASSUME NEW m \in Replies', NEW n \in Replies', toBroker'[m].id = toBroker'[n].id
                 PROVE  m = n
      OBVIOUS
    <3>1. m + d = n + d
      BY DEF InboundInv, OnceOffered, RepliesFrom
    <3> QED BY <2>2, <2>3, <3>1
  <2>6. \A m \in Offers', n \in Replies' : toClient'[m].id # toBroker'[n].id
    BY DEF InboundInv, OnceOffered, OffersFrom, RepliesFrom
  <2> QED BY <2>4, <2>5, <2>6 DEF OnceOffered
<1> QED BY <1>1, <1>2, <1>3, <1>4 DEF InboundInv

-----------------------------------------------------------------------------
\* The client answers what it read.
LEMMA ReplyInbound ==
  ASSUME SessionInv, InboundInv, UNCHANGED <<outgoing, sent, forgotten, wire>>, wire,
         NEW kind \in {"publish", "pubrel"}, Receives(kind),
         NEW p \in Packets, p.id = toClient[1].id, toBroker' = toBroker \/ Writes(p),
         handed' \in Seq(Anything), \A x : Contains(handed, x) => Contains(handed', x),
         \A e \in outgoing : e.id = p.id =>
           e.expect = p.kind /\ (p.kind # "pubcomp" => Contains(handed', e.msg))
  PROVE  InboundInv'
<1>1. TypeInv
  BY DEF SessionInv
<1>2. 1 \in Offers
  BY <1>1, ClientReads DEF Offers
<1>3. \A n \in Offers' : n \in Int /\ n + 1 # 1 /\ n + 1 \in Offers /\ toClient'[n] = toClient[n + 1]
  BY <1>1, OffersRead, ClientReads DEF OffersFrom, Offers
<1>4. \A n \in Replies' :
        \/ n \in Replies /\ toBroker'[n] = toBroker[n]
        \/ toBroker'[n] = p /\ n = Len(toBroker) + 1
  BY <1>1, RepliesWritten
<1>5. OutgoingInv' /\ AckedIsHanded'
  BY DEF InboundInv, OutgoingInv, AckedIsHanded
<1>6. OffersInv'
  BY <1>3 DEF InboundInv, OffersInv
<1>7. RepliesInv'
  <2>1. \E e \in outgoing : e.id = p.id
    BY <1>2 DEF InboundInv, OffersInv
  <2>2. \E e \in outgoing : /\ e.id = p.id /\ e.expect = p.kind
                            /\ e.expect # "pubcomp" => Contains(handed', e.msg)
    BY <2>1
  <2>3. \A n \in Replies : \E e \in outgoing :
          /\ e.id = toBroker[n].id /\ e.expect = toBroker[n].kind
          /\ e.expect # "pubcomp" => Contains(handed', e.msg)
    BY DEF InboundInv, RepliesInv
  <2> SUFFICES ASSUME NEW n \in Replies'
               PROVE  \E e \in outgoing : /\ e.id = toBroker'[n].id /\ e.expect = toBroker'[n].kind
                                          /\ e.expect # "pubcomp" => Contains(handed', e.msg)
    BY DEF RepliesInv
  <2>4. CASE n \in Replies /\ toBroker'[n] = toBroker[n]
    BY <2>3, <2>4
  <2>5. CASE toBroker'[n] = p
    <3>1. toBroker'[n].id = p.id /\ toBroker'[n].kind = p.kind
      BY <2>5
    <3> QED BY <2>2, <3>1
  <2> QED BY <1>4, <2>4, <2>5
<1>8. OnceOffered'
  <2>1. \A m, n \in Offers' : toClient'[m].id = toClient'[n].id => m = n
    <3>1. \A m, n \in Offers' : m + 1 = n + 1 => m = n
      BY <1>3
    <3> QED BY <1>3, <3>1 DEF InboundInv, OnceOffered
  <2>2. \A m, n \in Replies' : toBroker'[m].id = toBroker'[n].id => m = n
    BY <1>2, <1>4 DEF InboundInv, OnceOffered
  <2>3. \A m \in Offers', n \in Replies' : toClient'[m].id # toBroker'[n].id
    BY <1>2, <1>3, <1>4 DEF InboundInv, OnceOffered
  <2> QED BY <2>1, <2>2, <2>3 DEF OnceOffered
<1> QED BY <1>5, <1>6, <1>7, <1>8 DEF InboundInv

LEMMA OnPublishInbound == ASSUME SessionInv, InboundInv, OnPublish PROVE InboundInv'
<1> USE DEF OnPublish, brokerVars, outVars
<1>0. TypeInv /\ wire \in BOOLEAN
  BY DEF SessionInv, TypeInv
<1>1. /\ Receives("publish") /\ Head(toClient) = toClient[1] /\ toClient[1].kind = "publish"
      /\ toClient[1] \in Packets /\ 1 \in 1..Len(toClient)
  BY <1>0, ClientReads
<1> DEFINE x == toClient[1].msg
           p == Packet(AckFor(x), toClient[1].id, NoMsg)
<1>2. p \in Packets /\ p.id = toClient[1].id /\ p.kind = AckFor(x) /\ p.kind # "pubcomp"
  BY <1>1 DEF Packet, Packets, Kinds, AckFor
<1>3. /\ handed' = Append(handed, x) /\ x \in Anything /\ handed \in Seq(Anything)
      /\ Send(<<p>>) /\ UNCHANGED <<outgoing, sent, forgotten, wire>>
  BY <1>1 DEF InboundInv, OutgoingInv, Packets, Anything
<1>4. toBroker' = toBroker \/ Writes(p)
  BY <1>0, <1>2, <1>3, SendOne DEF Writes
<1> HIDE DEF p, x
<1>5. handed' \in Seq(Anything) /\ \A m : Contains(handed', m) <=> Contains(handed, m) \/ m = x
  <2>1. Append(handed, x) \in Seq(Anything)
    BY <1>3, Appended
  <2>2. \A m : Contains(Append(handed, x), m) <=> Contains(handed, m) \/ m = x
    BY <1>3, ContainsAppended
  <2> QED BY <1>3, <2>1, <2>2
<1>6. CASE wire
  <2>1. PICK e \in outgoing : e.id = p.id /\ e.expect # "pubcomp" /\ e.msg = x
    BY <1>1, <1>2, <1>6 DEF InboundInv, OffersInv, Offers, x
  <2>2. \A o \in outgoing : o.id = p.id => o.expect = p.kind /\ Contains(handed', o.msg)
    BY <1>2, <1>5, <2>1 DEF InboundInv, OutgoingInv
  <2> QED BY <1>1, <1>2, <1>3, <1>4, <1>5, <1>6, <2>2, ReplyInbound
<1>7. CASE ~wire
  <2>1. toBroker = <<>> /\ toBroker' = toBroker
    BY <1>4, <1>7 DEF SessionInv, LinkInv, Writes
  <2>2. RepliesInv' /\ OffersInv' /\ OnceOffered'
    BY <1>3, <1>7, <2>1 DEF RepliesInv, Replies, OffersInv, OnceOffered
  <2>3. OutgoingInv' /\ AckedIsHanded'
    BY <1>3, <1>5 DEF InboundInv, OutgoingInv, AckedIsHanded
  <2> QED BY <2>2, <2>3 DEF InboundInv
<1> QED BY <1>0, <1>6, <1>7

LEMMA OnPubrelInbound == ASSUME SessionInv, InboundInv, OnPubrel PROVE InboundInv'
<1> USE DEF OnPubrel, brokerVars, outVars
<1>0. TypeInv /\ wire \in BOOLEAN
  BY DEF SessionInv, TypeInv
<1>1. /\ Receives("pubrel") /\ Head(toClient) = toClient[1] /\ toClient[1].kind = "pubrel"
      /\ toClient[1] \in Packets /\ 1 \in 1..Len(toClient)
  BY <1>0, ClientReads
<1> DEFINE p == Packet("pubcomp", toClient[1].id, NoMsg)
<1>2. p \in Packets /\ p.id = toClient[1].id /\ p.kind = "pubcomp"
  BY <1>1 DEF Packet, Packets, Kinds
<1>3. Send(<<p>>) /\ UNCHANGED <<outgoing, sent, handed, forgotten, wire>>
  BY <1>1
<1>4. toBroker' = toBroker \/ Writes(p)
  BY <1>0, <1>2, <1>3, SendOne DEF Writes
<1> HIDE DEF p
<1>5. handed' \in Seq(Anything)
  BY <1>3 DEF InboundInv, OutgoingInv
<1>6. CASE wire
  <2>1. PICK e \in outgoing : e.id = p.id /\ e.expect = "pubcomp"
    BY <1>1, <1>2, <1>6 DEF InboundInv, OffersInv, Offers
  <2>2. \A o \in outgoing : o.id = p.id => o.expect = p.kind
    BY <1>2, <2>1 DEF InboundInv, OutgoingInv
  <2> QED BY <1>1, <1>2, <1>3, <1>4, <1>5, <1>6, <2>2, ReplyInbound
<1>7. CASE ~wire
  <2>1. toBroker = <<>> /\ toBroker' = toBroker
    BY <1>4, <1>7 DEF SessionInv, LinkInv, Writes
  <2>2. RepliesFrom(0) /\ OffersFrom(1) /\ wire' = wire
    BY <1>0, <1>1, <1>3, <2>1, RepliesKept, OffersRead
  <2> QED BY <1>3, <2>2, InboundFrame
<1> QED BY <1>0, <1>6, <1>7

-----------------------------------------------------------------------------
(* The broker: a message, and what it reads of the client.                   *)
LEMMA BrokerSendsInbound ==
  ASSUME SessionInv, InboundInv, NEW m \in InMsgs, BrokerSends(m)
  PROVE  InboundInv'
<1>1. PICK id \in Ids :
        /\ \A e \in outgoing : e.id # id
        /\ outgoing' = outgoing \cup {Entry(id, AckFor(m), m, PlaceAfter(outgoing))}
        /\ toClient' = IF Accepted THEN Append(toClient, Packet("publish", id, m)) ELSE toClient
  BY DEF BrokerSends
<1> DEFINE p == Packet("publish", id, m)
           new == Entry(id, AckFor(m), m, PlaceAfter(outgoing))
<1>2. /\ p \in Packets /\ p.kind = "publish" /\ p.id = id /\ p.msg = m
      /\ new.id = id /\ new.msg = m /\ new.expect = AckFor(m) /\ AckFor(m) # "pubcomp"
  BY EndpointAssumption DEF Packet, Packets, Kinds, Ids, Entry, AckFor
<1>3. /\ outgoing' = outgoing \cup {new} /\ sent' = Append(sent, m)
      /\ toClient' = toClient \/ toClient' = Append(toClient, p)
      /\ UNCHANGED <<wire, toBroker, handed, forgotten>>
  BY <1>1 DEF BrokerSends, clientVars, receiverVars
<1> HIDE DEF p, new
<1>4. /\ sent \in Seq(InMsgs) /\ sent' \in Seq(InMsgs) /\ Len(sent') = Len(sent) + 1 /\ Len(sent) \in Nat
      /\ sent'[Len(sent) + 1] = m /\ \A n \in 1..Len(sent) : sent'[n] = sent[n]
      /\ \A n \in 1..(Len(sent) + 1) : n \in 1..Len(sent) \/ n = Len(sent) + 1
  <2>1. sent \in Seq(InMsgs)
    BY DEF InboundInv, OutgoingInv
  <2> QED BY <1>3, <2>1, Appended
<1>5. OutgoingInv'
  BY <1>1, <1>2, <1>3, <1>4 DEF InboundInv, OutgoingInv
<1>6. \A n \in Offers' : \/ n \in Offers /\ toClient'[n] = toClient[n]
                         \/ toClient'[n] = p /\ n = Len(toClient) + 1
  <2>1. TypeInv
    BY DEF SessionInv
  <2>2. CASE toClient' = toClient
    BY <2>2 DEF Offers
  <2>3. CASE toClient' = Append(toClient, p)
    BY <1>2, <2>1, <2>3, OffersWritten
  <2> QED BY <1>3, <2>2, <2>3
<1>7. OffersInv'
  <2> SUFFICES ASSUME wire', NEW n \in Offers'
               PROVE  \E e \in outgoing' :
                        /\ e.id = toClient'[n].id
                        /\ IF toClient'[n].kind = "pubrel" THEN e.expect = "pubcomp"
                           ELSE e.expect # "pubcomp" /\ e.msg = toClient'[n].msg
    BY DEF OffersInv
  <2>1. wire
    BY <1>3
  <2>2. CASE n \in Offers /\ toClient'[n] = toClient[n]
    BY <1>3, <2>1, <2>2 DEF InboundInv, OffersInv
  <2>3. CASE toClient'[n] = p
    <3>1. toClient'[n].id = id /\ toClient'[n].kind = "publish" /\ toClient'[n].msg = m
      BY <1>2, <2>3
    <3> QED BY <1>2, <1>3, <3>1
  <2> QED BY <1>6, <2>2, <2>3
<1>8. RepliesInv'
  BY <1>3 DEF InboundInv, RepliesInv, Replies
<1>9. OnceOffered'
  <2> SUFFICES ASSUME wire' PROVE OnceOffered'
    BY DEF OnceOffered
  <2>0. wire
    BY <1>3
  <2>1. \A n \in Offers : toClient[n].id # id
    BY <1>1, <2>0 DEF InboundInv, OffersInv
  <2>2. \A n \in Replies : toBroker[n].id # id
    BY <1>1 DEF InboundInv, RepliesInv
  <2>3. Replies' = Replies /\ toBroker' = toBroker
    BY <1>3 DEF Replies
  <2>4. \A n, k \in Offers' : toClient'[n].id = toClient'[k].id => n = k
    <3>1. \A n, k \in Offers : toClient[n].id = toClient[k].id => n = k
      BY <2>0 DEF InboundInv, OnceOffered
    <3> SUFFICES ASSUME NEW n \in Offers', NEW k \in Offers', toClient'[n].id = toClient'[k].id
                 PROVE  n = k
      OBVIOUS
    <3>2. CASE n \in Offers /\ toClient'[n] = toClient[n]
      BY <1>2, <1>6, <2>1, <3>1, <3>2
    <3>3. CASE toClient'[n] = p /\ n = Len(toClient) + 1
      BY <1>2, <1>6, <2>1, <3>3
    <3> QED BY <1>6, <3>2, <3>3
  <2>5. \A n \in Offers', k \in Replies' : toClient'[n].id # toBroker'[k].id
    <3>1. \A n \in Offers, k \in Replies : toClient[n].id # toBroker[k].id
      BY <2>0 DEF InboundInv, OnceOffered
    <3> QED BY <1>2, <1>6, <2>2, <2>3, <3>1
  <2>6. \A n, k \in Replies' : toBroker'[n].id = toBroker'[k].id => n = k
    BY <2>0, <2>3 DEF InboundInv, OnceOffered
  <2> QED BY <2>4, <2>5, <2>6 DEF OnceOffered
<1>10. AckedIsHanded'
  <2> SUFFICES ASSUME NEW n \in DOMAIN sent'
               PROVE  \/ Contains(handed, sent'[n]) \/ sent'[n] \in forgotten
                      \/ \E e \in outgoing' : e.msg = sent'[n] /\ e.expect # "pubcomp"
    BY <1>3 DEF AckedIsHanded
  <2>1. CASE n \in 1..Len(sent)
    BY <1>3, <1>4, <2>1 DEF InboundInv, AckedIsHanded
  <2>2. CASE n = Len(sent) + 1
    BY <1>2, <1>3, <1>4, <2>2
  <2> QED BY <1>4, <2>1, <2>2
<1> QED BY <1>5, <1>7, <1>8, <1>9, <1>10 DEF InboundInv

LEMMA BrokerPubrecInbound == ASSUME SessionInv, InboundInv, BrokerPubrec PROVE InboundInv'
<1>0. TypeInv
  BY DEF SessionInv
<1>1. /\ BrokerReads("pubrec") /\ Head(toBroker) = toBroker[1] /\ toBroker[1].kind = "pubrec"
      /\ toBroker[1] \in Packets /\ 1 \in Replies
  BY <1>0, BrokerTakes DEF BrokerPubrec, Replies, Acks
<1> DEFINE id == toBroker[1].id
           p == Packet("pubrel", id, NoMsg)
           acked == {e \in outgoing : e.id = id /\ e.expect = "pubrec"}
           Turned(e) == [e EXCEPT !.expect = "pubcomp"]
<1>2. p \in Packets /\ p.kind = "pubrel" /\ p.id = id
  BY <1>1 DEF Packet, Packets, Kinds
<1>3. /\ outgoing' = (outgoing \ acked) \cup {Turned(e) : e \in acked}
      /\ toClient' = Append(toClient, p) /\ UNCHANGED <<wire, handed, sent, forgotten>>
  BY <1>1 DEF BrokerPubrec, BrokerReads, clientVars, receiverVars
<1>4. \A e \in outgoing : Turned(e).id = e.id /\ Turned(e).msg = e.msg /\ Turned(e).expect = "pubcomp"
  BY <1>0 DEF TypeInv, Entries
<1>5. PICK asked \in outgoing : /\ asked.id = id /\ asked.expect = "pubrec"
                                /\ Contains(handed, asked.msg)
  BY <1>1 DEF InboundInv, RepliesInv
<1>6. acked = {asked}
  BY <1>5 DEF InboundInv, OutgoingInv
<1> DEFINE turned == Turned(asked)
<1>7. /\ outgoing' = (outgoing \ {asked}) \cup {turned}
      /\ turned.id = id /\ turned.msg = asked.msg /\ turned.expect = "pubcomp"
      /\ \A e \in outgoing : e.id = id => e = asked
  <2>1. {Turned(e) : e \in acked} = {turned}
    BY <1>6
  <2>2. \A e \in outgoing : e.id = id => e = asked
    BY <1>5 DEF InboundInv, OutgoingInv
  <2> QED BY <1>3, <1>4, <1>5, <1>6, <2>1, <2>2
<1> HIDE DEF p, turned, acked, Turned, id
<1>8. OutgoingInv'
  BY <1>3, <1>7 DEF InboundInv, OutgoingInv
<1>9. \A n \in Offers' :
        \/ n \in Offers /\ toClient'[n] = toClient[n]
        \/ toClient'[n] = p /\ n = Len(toClient) + 1
  BY <1>0, <1>2, <1>3, OffersWritten
<1>10. \A n \in Replies' : n \in Int /\ n + 1 # 1 /\ n + 1 \in Replies /\ toBroker'[n] = toBroker[n + 1]
  BY <1>0, <1>1, RepliesRead, BrokerTakes DEF RepliesFrom, Replies
<1>11. wire
  BY <1>1 DEF SessionInv, LinkInv, BrokerReads
<1>12. /\ \A n \in Offers : toClient[n].id # id
       /\ \A n \in Replies : n # 1 => toBroker[n].id # id
  BY <1>1, <1>11 DEF InboundInv, OnceOffered, id
<1>13. OffersInv'
  <2>1. \A n \in Offers : \E e \in outgoing' :
          /\ e.id = toClient[n].id
          /\ IF toClient[n].kind = "pubrel" THEN e.expect = "pubcomp"
             ELSE e.expect # "pubcomp" /\ e.msg = toClient[n].msg
    BY <1>5, <1>7, <1>11, <1>12 DEF InboundInv, OffersInv
  <2> SUFFICES ASSUME NEW n \in Offers'
               PROVE  \E e \in outgoing' :
                        /\ e.id = toClient'[n].id
                        /\ IF toClient'[n].kind = "pubrel" THEN e.expect = "pubcomp"
                           ELSE e.expect # "pubcomp" /\ e.msg = toClient'[n].msg
    BY DEF OffersInv
  <2>2. CASE n \in Offers /\ toClient'[n] = toClient[n]
    BY <2>1, <2>2
  <2>3. CASE toClient'[n] = p
    <3>1. toClient'[n].id = id /\ toClient'[n].kind = "pubrel"
      BY <1>2, <2>3
    <3> QED BY <1>7, <3>1
  <2> QED BY <1>9, <2>2, <2>3
<1>14. RepliesInv'
  <2>1. \A n \in Replies : n # 1 => \E e \in outgoing' :
          /\ e.id = toBroker[n].id /\ e.expect = toBroker[n].kind
          /\ e.expect # "pubcomp" => Contains(handed, e.msg)
    BY <1>5, <1>7, <1>12 DEF InboundInv, RepliesInv
  <2> QED BY <1>3, <1>10, <2>1 DEF RepliesInv
<1>15. OnceOffered'
  <2>1. \A m, n \in Offers' : toClient'[m].id = toClient'[n].id => m = n
    BY <1>2, <1>9, <1>11, <1>12 DEF InboundInv, OnceOffered
  <2>2. \A m, n \in Replies' : toBroker'[m].id = toBroker'[n].id => m = n
    <3>1. \A m, n \in Replies' : m + 1 = n + 1 => m = n
      BY <1>10
    <3> QED BY <1>10, <1>11, <3>1 DEF InboundInv, OnceOffered
  <2>3. \A m \in Offers', n \in Replies' : toClient'[m].id # toBroker'[n].id
    <3>1. \A m \in Offers, n \in Replies : toClient[m].id # toBroker[n].id
      BY <1>11 DEF InboundInv, OnceOffered
    <3>2. \A n \in Replies' : toBroker'[n].id # id
      BY <1>10, <1>12
    <3>3. \A m \in Offers, n \in Replies' : toClient[m].id # toBroker'[n].id
      BY <1>10, <3>1
    <3> QED BY <1>2, <1>9, <3>2, <3>3
  <2> QED BY <2>1, <2>2, <2>3 DEF OnceOffered
<1>16. AckedIsHanded'
  BY <1>3, <1>5, <1>7 DEF InboundInv, AckedIsHanded
<1> QED BY <1>8, <1>13, <1>14, <1>15, <1>16 DEF InboundInv

LEMMA BrokerAckedInbound == ASSUME SessionInv, InboundInv, BrokerAcked PROVE InboundInv'
<1>0. TypeInv
  BY DEF SessionInv
<1>1. PICK kind \in {"puback", "pubcomp"} : BrokerReads(kind)
  BY DEF BrokerAcked
<1>2. Head(toBroker) = toBroker[1] /\ toBroker[1].kind = kind /\ 1 \in Replies
  BY <1>0, <1>1, BrokerTakes DEF Replies, Acks
<1> DEFINE id == toBroker[1].id
<1>3. /\ outgoing' = {e \in outgoing : e.id # id \/ e.expect # kind}
      /\ UNCHANGED <<toClient, wire, handed, sent, forgotten>>
  BY <1>1, <1>2 DEF BrokerAcked, BrokerReads, clientVars, receiverVars
<1>4. PICK asked \in outgoing : /\ asked.id = id /\ asked.expect = kind
                                /\ kind # "pubcomp" => Contains(handed, asked.msg)
  BY <1>2 DEF InboundInv, RepliesInv
<1>5. outgoing' = outgoing \ {asked} /\ \A e \in outgoing : e.id = id => e = asked
  <2>1. \A e \in outgoing : e.id = id => e = asked
    BY <1>4 DEF InboundInv, OutgoingInv
  <2>2. \A e \in outgoing : e.id # id \/ e.expect # kind <=> e # asked
    BY <1>4, <2>1
  <2> QED BY <1>3, <2>1, <2>2
<1> HIDE DEF id
<1>6. \A n \in Replies' : n \in Int /\ n + 1 # 1 /\ n + 1 \in Replies /\ toBroker'[n] = toBroker[n + 1]
  BY <1>0, <1>1, RepliesRead, BrokerTakes DEF RepliesFrom, Replies
<1>7. wire /\ Offers' = Offers
  BY <1>1, <1>3 DEF SessionInv, LinkInv, BrokerReads, Offers
<1>8. /\ \A n \in Offers : toClient[n].id # id
      /\ \A n \in Replies : n # 1 => toBroker[n].id # id
  BY <1>2, <1>7 DEF InboundInv, OnceOffered, id
<1>9. OutgoingInv'
  BY <1>3, <1>5 DEF InboundInv, OutgoingInv
<1>10. OffersInv'
  BY <1>3, <1>4, <1>5, <1>7, <1>8 DEF InboundInv, OffersInv
<1>11. RepliesInv'
  BY <1>3, <1>4, <1>5, <1>6, <1>8 DEF InboundInv, RepliesInv
<1>12. OnceOffered'
  <2>1. \A m, n \in Replies' : toBroker'[m].id = toBroker'[n].id => m = n
    <3>1. \A m, n \in Replies' : m + 1 = n + 1 => m = n
      BY <1>6
    <3> QED BY <1>6, <1>7, <3>1 DEF InboundInv, OnceOffered
  <2> QED BY <1>3, <1>6, <1>7, <2>1 DEF InboundInv, OnceOffered
<1>13. AckedIsHanded'
  BY <1>3, <1>4, <1>5 DEF InboundInv, AckedIsHanded
<1> QED BY <1>9, <1>10, <1>11, <1>12, <1>13 DEF InboundInv

\* A session that is resumed: the broker goes on with each message it waits for, once.
LEMMA BrokerConnectInbound ==
  ASSUME ~CleanSession, SessionInv, InboundInv, BrokerConnect PROVE InboundInv'
<1> DEFINE rest == InOrder(outgoing)
           connack == Connack(session /\ ~CleanSession)
           at == Sorted(outgoing)
<1>1. /\ BrokerReads("connect") /\ outgoing' = outgoing /\ toClient' = <<connack>> \o rest
      /\ UNCHANGED <<wire, handed, sent, forgotten>>
  BY DEF BrokerConnect, BrokerReads, clientVars, receiverVars
<1>2. toBroker = <<ConnectPacket>>
  BY <1>1, BrokerTakes, OpenSaysConnect DEF SessionInv, LinkInv, BrokerReads
<1>3. Replies' = {}
  BY <1>1, <1>2 DEF BrokerReads, Replies
<1>4. Placed(outgoing) /\ outgoing \subseteq Entries(InMsgs)
  BY DEF SessionInv, TypeInv
<1>5. /\ rest \in Seq({Resent(e) : e \in outgoing}) /\ Len(rest) \in Nat
      /\ \A n \in 1..Len(rest) : rest[n] = Resent(at[n]) /\ at[n] \in outgoing
      /\ \A m, n \in 1..Len(rest) : at[m] = at[n] => m = n
  BY <1>4, InOrderResends
<1>6. connack.kind = "connack"
  BY DEF Connack
<1> DEFINE all == {Resent(e) : e \in outgoing} \cup {connack}
<1>7. <<connack>> \in Seq(all) /\ Len(<<connack>>) = 1 /\ <<connack>>[1] = connack
  OBVIOUS
<1>8. rest \in Seq(all)
  <2> DEFINE resent == {Resent(e) : e \in outgoing}
  <2>1. resent \subseteq all /\ rest \in Seq(resent)
    BY <1>5
  <2> HIDE DEF resent, rest, all
  <2> QED BY <2>1
<1> HIDE DEF rest, connack, at, all
<1>9. Len(toClient') = Len(rest) + 1 /\ toClient'[1] = connack
  BY <1>1, <1>5, <1>7, <1>8
<1>10. \A n \in 1..Len(toClient') : n # 1 => n - 1 \in 1..Len(rest) /\ toClient'[n] = rest[n - 1]
  BY <1>1, <1>5, <1>7, <1>8, <1>9
<1>11. \A n \in Offers' : /\ n \in Int /\ n - 1 \in 1..Len(rest) /\ at[n - 1] \in outgoing
                          /\ toClient'[n] = Resent(at[n - 1])
  <2>1. \A n \in Offers' : n \in 1..Len(toClient') /\ n \in Int /\ n # 1
    BY <1>6, <1>9 DEF Offers
  <2> QED BY <1>5, <1>10, <2>1
<1>12. \A e \in outgoing :
         /\ Resent(e).id = e.id
         /\ IF Resent(e).kind = "pubrel" THEN e.expect = "pubcomp"
            ELSE e.expect # "pubcomp" /\ e.msg = Resent(e).msg
  BY DEF Resent, Packet
<1>13. OffersInv'
  <2> SUFFICES ASSUME NEW n \in Offers'
               PROVE  \E e \in outgoing :
                        /\ e.id = toClient'[n].id
                        /\ IF toClient'[n].kind = "pubrel" THEN e.expect = "pubcomp"
                           ELSE e.expect # "pubcomp" /\ e.msg = toClient'[n].msg
    BY <1>1 DEF OffersInv
  <2> QED BY <1>11, <1>12
<1>14. OnceOffered'
  <2>1. ASSUME NEW m \in Offers', NEW n \in Offers', toClient'[m].id = toClient'[n].id PROVE m = n
    <3>1. at[m - 1] = at[n - 1]
      BY <1>11, <1>12, <2>1 DEF InboundInv, OutgoingInv
    <3>2. m - 1 = n - 1 /\ m \in Int /\ n \in Int
      BY <1>5, <1>11, <3>1
    <3> QED BY <3>2
  <2> QED BY <1>3, <2>1 DEF OnceOffered
<1>15. RepliesInv' /\ OutgoingInv' /\ AckedIsHanded'
  BY <1>1, <1>3 DEF InboundInv, RepliesInv, OutgoingInv, AckedIsHanded
<1> QED BY <1>13, <1>14, <1>15 DEF InboundInv

LEMMA InboundStep ==
  ASSUME ~CleanSession, SessionInv, InboundInv, [Next]_vars PROVE InboundInv'
<1>0. TypeInv
  BY DEF SessionInv
<1>1. CASE OnPublish \/ OnPubrel
  BY <1>1, OnPublishInbound, OnPubrelInbound
<1>2. CASE \E m \in InMsgs : BrokerSends(m)
  BY <1>2, BrokerSendsInbound
<1>3. CASE BrokerConnect \/ BrokerPubrec \/ BrokerAcked
  BY <1>3, BrokerConnectInbound, BrokerPubrecInbound, BrokerAckedInbound
<1>4. CASE Connect
  <2>1. /\ toBroker' = <<ConnectPacket>> /\ toClient' = <<>>
        /\ UNCHANGED <<outgoing, sent, handed, forgotten>>
    BY <1>4 DEF Connect, receiverVars, brokerVars, outVars
  <2>2. Offers' = {} /\ Replies' = {}
    BY <2>1 DEF Offers, Replies, ConnectPacket, Packet, Acks
  <2> QED BY <2>1, <2>2 DEF InboundInv, OutgoingInv, OffersInv, RepliesInv, OnceOffered, AckedIsHanded
<1>5. CASE WireBreaks \/ ConnectionLost
  <2>1. ~wire' /\ toBroker' = <<>> /\ UNCHANGED <<outgoing, sent, handed, forgotten>>
    BY <1>5 DEF WireBreaks, ConnectionLost, SessionInv, LinkInv,
       clientVars, receiverVars, brokerVars, outVars
  <2>2. Replies' = {}
    BY <2>1 DEF Replies
  <2> QED BY <2>1, <2>2 DEF InboundInv, OutgoingInv, OffersInv, RepliesInv, OnceOffered, AckedIsHanded
<1>6. CASE BrokerForgets
  <2>1. /\ ~wire' /\ ~wire /\ outgoing' = {} /\ forgotten' = Range(published) \cup Range(sent)
        /\ UNCHANGED <<toBroker, sent, handed>>
    BY <1>6 DEF BrokerForgets, clientVars, receiverVars, netVars
  <2>2. Replies' = {}
    BY <2>1 DEF Replies, SessionInv, LinkInv
  <2>3. AckedIsHanded'
    BY <2>1 DEF AckedIsHanded, Range
  <2> QED BY <2>1, <2>2, <2>3 DEF InboundInv, OutgoingInv, OffersInv, RepliesInv, OnceOffered
<1>7. CASE \/ \E m \in Msgs : Publish(m)
           \/ Subscribe
  <2>1. PICK kind \in {"publish", "subscribe"}, id \in Ids, m \in Msgs \cup {NoMsg} :
          Send(<<Packet(kind, id, m)>>)
    BY <1>0, <1>7 DEF Publish, Subscribe, LowestFree, TypeInv
  <2>2. UNCHANGED <<outgoing, sent, handed, forgotten, wire, toClient>>
    BY <1>7 DEF Publish, Subscribe, receiverVars, brokerVars, outVars
  <2> DEFINE p == Packet(kind, id, m)
  <2>3. p \in Packets /\ p.kind \notin Acks
    BY DEF Packet, Packets, Kinds, Ids, Acks
  <2> HIDE DEF p
  <2>4. toBroker' = toBroker \/ Writes(p)
    BY <1>0, <2>1, <2>3, SendOne DEF Writes, p
  <2>5. RepliesFrom(0) /\ OffersFrom(0)
    BY <1>0, <2>2, <2>3, <2>4, RepliesWritten, OffersKept DEF RepliesFrom, Replies
  <2> QED BY <2>2, <2>5, InboundFrame
<1>8. CASE OnConnack
  <2>1. /\ link = "open" /\ toClient # <<>> /\ Receives("connack")
        /\ UNCHANGED <<outgoing, sent, handed, forgotten, wire>>
        /\ toBroker' = toBroker \/ Send(Stored)
    BY <1>8 DEF OnConnack, Receives, receiverVars, brokerVars, outVars
  <2>2. toBroker = <<>>
    BY <2>1 DEF SessionInv, LinkInv
  <2>3. toBroker' = <<>> \/ toBroker' = Stored
    <3>1. <<>> \o Stored = Stored
      BY StoredAsks DEF SessionInv
    <3> QED BY <2>1, <2>2, <3>1 DEF Send
  <2>4. ASSUME NEW n \in 1..Len(Stored) PROVE Stored[n].kind \in {"publish", "pubrel"}
    <3>1. PICK e \in store : \/ Stored[n] = Packet("pubrel", e.id, NoMsg)
                             \/ Stored[n] = Packet("publish", e.id, e.msg)
      BY StoredAsks DEF SessionInv
    <3> QED BY <3>1 DEF Packet
  <2>5. Replies' = {}
    BY <2>3, <2>4 DEF Replies, Acks
  <2>6. RepliesFrom(0) /\ OffersFrom(1)
    BY <1>0, <2>1, <2>5, OffersRead DEF RepliesFrom
  <2> QED BY <2>1, <2>6, InboundFrame
<1>9. CASE OnPubrec
  <2> DEFINE p == Packet("pubrel", Head(toClient).id, NoMsg)
  <2>1. /\ Receives("pubrec") /\ Send(<<p>>) /\ UNCHANGED <<outgoing, sent, handed, forgotten, wire>>
    BY <1>9 DEF OnPubrec, receiverVars, brokerVars, outVars
  <2>2. p \in Packets /\ p.kind = "pubrel"
    <3>1. Head(toClient).id \in Nat
      BY <1>0, <2>1, ClientReads DEF Packets
    <3> QED BY <3>1 DEF Packet, Packets, Kinds
  <2> HIDE DEF p
  <2>3. toBroker' = toBroker \/ Writes(p)
    BY <1>0, <2>1, <2>2, SendOne DEF Writes
  <2>4. RepliesFrom(0) /\ OffersFrom(1)
    BY <1>0, <2>1, <2>2, <2>3, RepliesWritten, OffersRead DEF RepliesFrom, Replies, Acks
  <2> QED BY <2>1, <2>4, InboundFrame
<1>10. CASE OnPuback \/ OnPubcomp \/ OnSuback
  <2>1. PICK kind \in {"puback", "pubcomp", "suback"} : Receives(kind)
    BY <1>10 DEF OnPuback, OnPubcomp, OnSuback
  <2>2. UNCHANGED <<outgoing, sent, handed, forgotten, wire, toBroker>>
    BY <1>10 DEF OnPuback, OnPubcomp, OnSuback, receiverVars, brokerVars, outVars
  <2>3. RepliesFrom(0) /\ OffersFrom(1)
    BY <1>0, <2>1, <2>2, RepliesKept, OffersRead
  <2> QED BY <2>2, <2>3, InboundFrame
<1>11. CASE BrokerPublish \/ BrokerPubrel \/ BrokerSubscribe
  <2>1. PICK kind \in {"publish", "pubrel", "subscribe"},
             answer \in {"puback", "pubrec", "pubcomp", "suback"} :
          /\ BrokerReads(kind)
          /\ toClient' = Append(toClient, Packet(answer, Head(toBroker).id, NoMsg))
    BY <1>11 DEF BrokerPublish, BrokerPubrel, BrokerSubscribe
  <2>2. UNCHANGED <<outgoing, sent, handed, forgotten, wire>>
    BY <1>11 DEF BrokerReads, BrokerPublish, BrokerPubrel, BrokerSubscribe, clientVars, receiverVars,
       brokerVars, outVars
  <2> DEFINE p == Packet(answer, Head(toBroker).id, NoMsg)
  <2>3. p \in Packets /\ p.kind \notin {"publish", "pubrel"}
    <3>1. Head(toBroker).id \in Nat
      BY <1>0, <2>1, BrokerTakes DEF Packets
    <3> QED BY <3>1 DEF Packet, Packets, Kinds
  <2>4. toClient' = Append(toClient, p)
    BY <2>1
  <2> HIDE DEF p
  <2>5. OffersFrom(0) /\ RepliesFrom(1)
    BY <1>0, <2>1, <2>3, <2>4, OffersWritten, RepliesRead DEF OffersFrom, Offers
  <2> QED BY <2>2, <2>5, InboundFrame
<1>12. CASE UNCHANGED vars
  <2>1. UNCHANGED <<outgoing, sent, handed, forgotten, wire, toBroker, toClient>>
    BY <1>12 DEF vars, clientVars, receiverVars, netVars, brokerVars, outVars
  <2> QED BY <2>1, OffersKept, RepliesKept, InboundFrame
<1> QED BY <1>1, <1>2, <1>3, <1>4, <1>5, <1>6, <1>7, <1>8, <1>9, <1>10, <1>11, <1>12
        DEF Next, ClientHandles, BrokerHandles

\* As long as the client asks for its session to be kept, no message is
\* acknowledged to the broker before the application was given it.
THEOREM AckedIsHandedAlways == ASSUME Tidy, ~CleanSession PROVE Spec => []AckedIsHanded
<1>1. Init => InboundInv
  BY DEF Init, InboundInv, OutgoingInv, OffersInv, RepliesInv, OnceOffered, AckedIsHanded,
     Offers, Replies
<1>2. SessionInv /\ InboundInv /\ [Next]_vars => InboundInv'
  BY InboundStep
<1>3. InboundInv => AckedIsHanded
  BY DEF InboundInv
<1> QED BY <1>1, <1>2, <1>3, SessionAlways, PTL DEF Spec
=============================================================================
