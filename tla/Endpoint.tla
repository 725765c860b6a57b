------------------------------ MODULE Endpoint ------------------------------
(***************************************************************************)
(* The session a client keeps in src/vrpc/mqtt/endpoint.hpp: packet ids,   *)
(* the store of messages that are resent after a reconnection, the         *)
(* subscriptions in flight and what it receives; with the network and the  *)
(* broker as its environment.                                              *)
(*                                                                         *)
(* Handlers and API calls run one at a time on the event loop. The store   *)
(* and the packet ids outlive a connection; the application connects       *)
(* again when it was told that the connection is gone, and its handlers of *)
(* messages return true, as those of the agent do.                         *)
(***************************************************************************)
EXTENDS Naturals, FiniteSets, Sequences, SequencesExt

CONSTANTS
  Msgs,          \* messages the application publishes, each once
  InMsgs,        \* messages the broker has for the application, each once
  Qos,           \* Qos[m]: 1 (at_least_once) or 2 (exactly_once)
  MaxId,         \* packet ids are 1..MaxId (65535 in the code)
  CleanSession,  \* whether the client asks for a clean session
  PublishIn,     \* the states of the link in which the application publishes,
  SubscribeIn,   \* and those in which it subscribes or unsubscribes
  MaxSubs,       \* bound: subscribe and unsubscribe requests
  MaxBreaks,     \* bound: connections that break
  NoMsg          \* the message of a packet that carries none

ASSUME EndpointAssumption ==
  /\ Qos \in [Msgs \cup InMsgs -> {1, 2}]
  /\ Msgs \cap InMsgs = {} /\ NoMsg \notin Msgs \cup InMsgs
  /\ MaxId \in Nat \ {0} /\ MaxSubs \in Nat /\ MaxBreaks \in Nat
  /\ CleanSession \in BOOLEAN
  /\ PublishIn \subseteq {"down", "open", "up"} /\ SubscribeIn \subseteq {"down", "open", "up"}

VARIABLES
  link,          \* "down", "open" (connected_) or "up" (and mqtt_connected_)
  store,         \* store_: what to resend; at is the place in its order
  free,          \* ids pid_man_ may hand out (see IdPool)
  subUnsubInflight, \* sub_unsub_inflight_
  pending,       \* ids of the requests really sent on this connection, unanswered
  published,     \* messages published so far, in order
  subRequests,   \* requests so far
  discarded,     \* messages dropped with a session the broker did not have
  handled,       \* qos2_publish_handled_
  handed,        \* messages given to the application, in order
  wire, toBroker, toClient, \* the connection and what is in flight on it
  session,       \* the broker keeps the client's session
  received,      \* broker: ids of QoS 2 messages between PUBLISH and PUBREL
  delivered,     \* broker: messages passed on, in order
  outgoing,      \* broker: messages for the client that are not acknowledged
  sent,          \* broker: messages for the client so far, in order
  forgotten,     \* messages of both sides before the broker last forgot the session
  breaks         \* connections broken so far

senderVars == <<store, free, subUnsubInflight, pending, published, subRequests, discarded>>
receiverVars == <<handled, handed>>
clientVars == <<link, senderVars, receiverVars>>
netVars == <<wire, toBroker, toClient>>
outVars == <<outgoing, sent>>
brokerVars == <<session, received, delivered, outVars, forgotten>>
vars == <<clientVars, netVars, brokerVars, breaks>>

Ids == 1..MaxId
Acks == {"puback", "pubrec", "pubcomp"}

Packet(kind, id, m) == [kind |-> kind, id |-> id, msg |-> m]
ConnectPacket == Packet("connect", 0, NoMsg)
Connack(present) == [kind |-> "connack", present |-> present]

-----------------------------------------------------------------------------
(* The store: ordered by insertion, unique in id and expected packet.        *)
Entry(id, ack, m, at) == [id |-> id, expect |-> ack, msg |-> m, at |-> at]
PlaceAfter(entries) == 1 + Max({0} \cup {e.at : e \in entries})
NextPlace == PlaceAfter(store)
\* Mutant: an acknowledgement finds no entry.
FindNothing(id, ack) == {}
\* Mutant: a PUBREC leaves the publish in the store.
FindAcked(id, ack) == {e \in store : e.id = id /\ e.expect = ack /\ ack # "pubrec"}
Find(id, ack) == {e \in store : e.id = id /\ e.expect = ack}

\* Mutant: nothing is stored while offline.
EmplacedOnline(s, id, ack, m) ==
  IF link = "down" THEN s ELSE s \cup {Entry(id, ack, m, NextPlace)}
\* emplace: an entry with the same id and expected packet stays as it is.
Emplaced(s, id, ack, m) ==
  IF Find(id, ack) = {} THEN s \cup {Entry(id, ack, m, NextPlace)} ELSE s

\* What is written when an entry is resent.
Resent(e) == IF e.expect = "pubcomp" THEN Packet("pubrel", e.id, NoMsg)
                                     ELSE Packet("publish", e.id, e.msg)
Sorted(entries) ==
  CHOOSE s \in [1..Cardinality(entries) -> entries] :
    \A m, n \in DOMAIN s : m < n => s[m].at < s[n].at
InOrder(entries) == [n \in 1..Cardinality(entries) |-> Resent(Sorted(entries)[n])]
\* Mutant: nothing is resent.
StoredNothing == <<>>
\* Mutant: the newest entry is resent first.
StoredByRecency == Reverse(InOrder(store))
Stored == InOrder(store)

\* A write without a TCP connection is dropped; one on a connection that is
\* gone fails without a word, the pending read will report it.
Send(packets) ==
  toBroker' = IF wire /\ link # "down" THEN toBroker \o packets ELSE toBroker

\* Mutant: the ids start over when they are exhausted.
LowestFreeOrFirst ==
  IF free = {} THEN {1} ELSE {id \in free : \A other \in free : id <= other}
LowestFree == {id \in free : \A other \in free : id <= other}

-----------------------------------------------------------------------------
Init ==
  /\ link = "down" /\ store = {} /\ free = Ids /\ subUnsubInflight = {}
  /\ pending = {} /\ published = <<>> /\ subRequests = 0 /\ discarded = {}
  /\ wire = FALSE /\ toBroker = <<>> /\ toClient = <<>>
  /\ handled = {} /\ handed = <<>>
  /\ session = FALSE /\ received = {} /\ delivered = <<>> /\ forgotten = {}
  /\ outgoing = {} /\ sent = <<>>
  /\ breaks = 0

(***************************************************************************)
(* The application's calls.                                                *)
(***************************************************************************)
\* connect(): the socket, then the CONNECT packet.
Connect ==
  /\ link = "down"
  /\ link' = "open"
  /\ wire' = TRUE /\ toBroker' = <<ConnectPacket>> /\ toClient' = <<>>
  /\ UNCHANGED <<senderVars, receiverVars, brokerVars, breaks>>

AckFor(m) == IF Qos[m] = 1 THEN "puback" ELSE "pubrec"

\* publish(): without a free id it throws and changes nothing. Offline too the
\* message is stored.
Publish(m) ==
  /\ link \in PublishIn /\ ~Contains(published, m)
  /\ published' = Append(published, m)
  /\ \E id \in LowestFree :
       /\ free' = free \ {id}
       /\ store' = Emplaced(store, id, AckFor(m), m)
       /\ Send(<<Packet("publish", id, m)>>)
  /\ UNCHANGED <<link, subUnsubInflight, pending, subRequests, discarded, receiverVars, wire,
                 toClient, brokerVars, breaks>>

\* subscribe() and unsubscribe(), which treat the id alike.
Subscribe ==
  /\ link \in SubscribeIn /\ subRequests < MaxSubs
  /\ subRequests' = subRequests + 1
  /\ \E id \in LowestFree :
       /\ free' = free \ {id}
       /\ subUnsubInflight' = subUnsubInflight \cup {id}
       /\ pending' = IF wire /\ link # "down" THEN pending \cup {id} ELSE pending
       /\ Send(<<Packet("subscribe", id, NoMsg)>>)
  /\ UNCHANGED <<link, store, published, discarded, receiverVars, wire, toClient, brokerVars,
                 breaks>>

(***************************************************************************)
(* The handlers of what the broker sends.                                  *)
(***************************************************************************)
Receives(kind) ==
  /\ link = (IF kind = "connack" THEN "open" ELSE "up")
  /\ toClient # <<>> /\ Head(toClient).kind = kind
  /\ toClient' = Tail(toClient)

OnConnack ==
  /\ Receives("connack")
  /\ link' = "up"
  /\ IF Head(toClient).present
     THEN /\ Send(Stored)
          /\ UNCHANGED <<store, free, discarded>>
     ELSE /\ store' = {} /\ free' = Ids
          /\ discarded' = discarded \cup ({e.msg : e \in store} \ {NoMsg})
          /\ UNCHANGED toBroker
  /\ UNCHANGED <<subUnsubInflight, pending, published, subRequests, receiverVars, wire,
                 brokerVars, breaks>>

OnPuback ==
  /\ Receives("puback")
  /\ LET id == Head(toClient).id IN
       /\ store' = store \ Find(id, "puback")
       /\ free' = free \cup {id}
  /\ UNCHANGED <<link, subUnsubInflight, pending, published, subRequests, discarded,
                 receiverVars, wire, toBroker, brokerVars, breaks>>

\* Mutant: the id comes back with the PUBREC.
OnPubrecReleases ==
  /\ Receives("pubrec")
  /\ LET id == Head(toClient).id IN
       /\ store' = Emplaced(store, id, "pubcomp", NoMsg) \ Find(id, "pubrec")
       /\ free' = free \cup {id}
       /\ Send(<<Packet("pubrel", id, NoMsg)>>)
  /\ UNCHANGED <<link, subUnsubInflight, pending, published, subRequests, discarded,
                 receiverVars, wire, brokerVars, breaks>>
\* The answer is sent, and stored in place of the publish. An answer that is
\* already stored is overwritten where it is.
OnPubrec ==
  /\ Receives("pubrec")
  /\ LET id == Head(toClient).id IN
       /\ store' = Emplaced(store, id, "pubcomp", NoMsg) \ Find(id, "pubrec")
       /\ free' = free \ {id}
       /\ Send(<<Packet("pubrel", id, NoMsg)>>)
  /\ UNCHANGED <<link, subUnsubInflight, pending, published, subRequests, discarded,
                 receiverVars, wire, brokerVars, breaks>>

OnPubcomp ==
  /\ Receives("pubcomp")
  /\ LET id == Head(toClient).id IN
       /\ store' = store \ Find(id, "pubcomp")
       /\ free' = free \cup {id}
  /\ UNCHANGED <<link, subUnsubInflight, pending, published, subRequests, discarded,
                 receiverVars, wire, toBroker, brokerVars, breaks>>

OnSuback ==
  /\ Receives("suback")
  /\ LET id == Head(toClient).id IN
       /\ free' = free \cup {id}
       /\ subUnsubInflight' = subUnsubInflight \ {id}
       /\ pending' = pending \ {id}
  /\ UNCHANGED <<link, store, published, subRequests, discarded, receiverVars, wire, toBroker,
                 brokerVars, breaks>>

\* Mutant: a QoS 2 message whose id is noted is taken for a repetition.
OnPublishOnce ==
  /\ Receives("publish")
  /\ LET p == Head(toClient) IN
       /\ handed' = IF p.id \in handled THEN handed ELSE Append(handed, p.msg)
       /\ handled' = IF Qos[p.msg] = 2 THEN handled \cup {p.id} ELSE handled
       /\ Send(<<Packet(AckFor(p.msg), p.id, NoMsg)>>)
  /\ UNCHANGED <<link, senderVars, wire, brokerVars, breaks>>
\* A message: it is handed to the application, then acknowledged. The id of a
\* QoS 2 message is noted; nothing looks it up.
OnPublish ==
  /\ Receives("publish")
  /\ LET p == Head(toClient) IN
       /\ handed' = Append(handed, p.msg)
       /\ handled' = IF Qos[p.msg] = 2 THEN handled \cup {p.id} ELSE handled
       /\ Send(<<Packet(AckFor(p.msg), p.id, NoMsg)>>)
  /\ UNCHANGED <<link, senderVars, wire, brokerVars, breaks>>

OnPubrel ==
  /\ Receives("pubrel")
  /\ handled' = handled \ {Head(toClient).id}
  /\ Send(<<Packet("pubcomp", Head(toClient).id, NoMsg)>>)
  /\ UNCHANGED <<link, senderVars, handed, wire, brokerVars, breaks>>

\* The read ends. The ids of the requests in flight are released; the set that
\* names them is not emptied.
ConnectionLost ==
  /\ link # "down" /\ ~wire
  /\ link' = "down"
  /\ free' = free \cup subUnsubInflight
  /\ pending' = {}
  /\ toClient' = <<>>
  /\ UNCHANGED <<store, subUnsubInflight, published, subRequests, discarded, receiverVars, wire,
                 toBroker, brokerVars, breaks>>

-----------------------------------------------------------------------------
(* The environment.                                                          *)

\* What was not read by the broker is lost; what it wrote may still arrive.
WireBreaks ==
  /\ wire /\ breaks < MaxBreaks
  /\ breaks' = breaks + 1
  /\ wire' = FALSE /\ toBroker' = <<>>
  /\ UNCHANGED <<clientVars, toClient, brokerVars>>

\* A restart or the expiry of the session.
BrokerForgets ==
  /\ session /\ ~wire
  /\ session' = FALSE /\ received' = {} /\ outgoing' = {}
  /\ forgotten' = Range(published) \cup Range(sent)
  /\ UNCHANGED <<clientVars, netVars, delivered, sent, breaks>>

\* The broker has read the CONNECT of this connection.
Accepted == wire /\ ConnectPacket \notin Range(toBroker)

\* A message for the client. Without a connection it waits for the next one.
BrokerSends(m) ==
  /\ session /\ ~Contains(sent, m)
  /\ sent' = Append(sent, m)
  /\ \E id \in Ids :
       /\ \A e \in outgoing : e.id # id
       /\ \A other \in 1..(id - 1) : \E e \in outgoing : e.id = other
       /\ outgoing' = outgoing \cup {Entry(id, AckFor(m), m, PlaceAfter(outgoing))}
       /\ toClient' = IF Accepted THEN Append(toClient, Packet("publish", id, m)) ELSE toClient
  /\ UNCHANGED <<clientVars, wire, toBroker, session, received, delivered, forgotten, breaks>>

BrokerReads(kind) ==
  /\ toBroker # <<>> /\ Head(toBroker).kind = kind
  /\ toBroker' = Tail(toBroker)
  /\ UNCHANGED <<clientVars, wire, breaks>>

\* A session that is resumed goes on with what was not acknowledged.
BrokerConnect ==
  /\ BrokerReads("connect")
  /\ session' = TRUE
  /\ received' = IF CleanSession THEN {} ELSE received
  /\ outgoing' = IF CleanSession THEN {} ELSE outgoing
  /\ toClient' = <<Connack(session /\ ~CleanSession)>> \o InOrder(outgoing')
  /\ UNCHANGED <<delivered, sent, forgotten>>

\* QoS 1: pass on and acknowledge, whatever was received before. QoS 2: pass on
\* what is not a repetition.
BrokerPublish ==
  /\ BrokerReads("publish")
  /\ LET p == Head(toBroker) IN
       IF Qos[p.msg] = 1
       THEN /\ delivered' = Append(delivered, p.msg)
            /\ toClient' = Append(toClient, Packet("puback", p.id, NoMsg))
            /\ UNCHANGED received
       ELSE /\ delivered' = IF p.id \in received THEN delivered ELSE Append(delivered, p.msg)
            /\ received' = received \cup {p.id}
            /\ toClient' = Append(toClient, Packet("pubrec", p.id, NoMsg))
  /\ UNCHANGED <<session, outVars, forgotten>>

BrokerPubrel ==
  /\ BrokerReads("pubrel")
  /\ received' = received \ {Head(toBroker).id}
  /\ toClient' = Append(toClient, Packet("pubcomp", Head(toBroker).id, NoMsg))
  /\ UNCHANGED <<session, delivered, outVars, forgotten>>

BrokerSubscribe ==
  /\ BrokerReads("subscribe")
  /\ toClient' = Append(toClient, Packet("suback", Head(toBroker).id, NoMsg))
  /\ UNCHANGED brokerVars

\* A PUBREC is answered; until the PUBCOMP the message goes on as a PUBREL.
BrokerPubrec ==
  /\ BrokerReads("pubrec")
  /\ LET id == Head(toBroker).id
         acked == {e \in outgoing : e.id = id /\ e.expect = "pubrec"} IN
       /\ outgoing' = (outgoing \ acked) \cup {[e EXCEPT !.expect = "pubcomp"] : e \in acked}
       /\ toClient' = Append(toClient, Packet("pubrel", id, NoMsg))
  /\ UNCHANGED <<session, received, delivered, sent, forgotten>>

\* What ends the delivery of a message.
BrokerAcked ==
  /\ BrokerReads("puback") \/ BrokerReads("pubcomp")
  /\ outgoing' = {e \in outgoing : e.id # Head(toBroker).id \/ e.expect # Head(toBroker).kind}
  /\ UNCHANGED <<toClient, session, received, delivered, sent, forgotten>>

-----------------------------------------------------------------------------
ClientHandles ==
  OnConnack \/ OnPuback \/ OnPubrec \/ OnPubcomp \/ OnSuback \/ OnPublish \/ OnPubrel
BrokerHandles ==
  \/ BrokerConnect \/ BrokerPublish \/ BrokerPubrel \/ BrokerSubscribe
  \/ BrokerPubrec \/ BrokerAcked

Next ==
  \/ Connect \/ (\E m \in Msgs : Publish(m)) \/ Subscribe
  \/ ClientHandles \/ ConnectionLost
  \/ WireBreaks \/ BrokerForgets \/ (\E m \in InMsgs : BrokerSends(m)) \/ BrokerHandles

Spec == Init /\ [][Next]_vars

\* The application connects again; the event loop and the broker process what
\* arrives. Nothing makes the application publish or the network fail.
Fairness ==
  /\ WF_vars(Connect) /\ WF_vars(ConnectionLost)
  /\ WF_vars(ClientHandles) /\ WF_vars(BrokerHandles)

FairSpec == Spec /\ Fairness

-----------------------------------------------------------------------------
\* An id names one operation at a time: no id that is stored or awaits a SUBACK
\* may be handed out again, no two operations share one ("Acquire the new
\* unique packet id", endpoint.hpp:4248).
IdsAreUnique ==
  /\ \A e \in store : e.id \notin free \cup pending
  /\ \A e, other \in store : e.id = other.id => e = other
  /\ pending \cap free = {}

\* "the library will store this publish internally until the broker has
\* confirmed delivery" (endpoint.hpp:935): whatever breaks, a message is with
\* the broker or in the store, unless the broker reported the session lost.
StoredUntilConfirmed ==
  \A n \in DOMAIN published :
    \/ Contains(delivered, published[n]) \/ published[n] \in discarded
    \/ \E e \in store : e.msg = published[n]

\* Exactly once: the retransmissions of PUBLISH and PUBREL never make the
\* broker pass a QoS 2 message on twice, as long as the broker has not forgotten
\* the message's session.
ExactlyOnce ==
  \A n, k \in DOMAIN delivered :
    delivered[n] = delivered[k] /\ Qos[delivered[n]] = 2 =>
      n = k \/ delivered[n] \in forgotten

\* Messages first reach the broker in the order they were published, across
\* reconnections: the store is resent in its sequence (send_store, 9492-9498).
OrderKept ==
  \A n, k \in DOMAIN published :
    n < k /\ Contains(delivered, published[k]) =>
      Contains(delivered, published[n]) \/ published[n] \in discarded

\* "This function is called just after puback sent on QoS1, or pubcomp sent on
\* QoS2" (endpoint.hpp:723): the broker is never told that a message arrived
\* which the application was not given, in whatever session its id was used before.
AckedIsHanded ==
  \A n \in DOMAIN sent :
    \/ Contains(handed, sent[n]) \/ sent[n] \in forgotten
    \/ \E e \in outgoing : e.msg = sent[n] /\ e.expect # "pubcomp"

\* A session that has come to rest holds no id and no message, on either side:
\* nothing that was acquired is ever leaked.
AllReleased == <>[](store = {} /\ free = Ids /\ outgoing = {})

\* Every message a publish() took arrives, unless the session is lost.
Delivered ==
  \A m \in Msgs : Contains(published, m) ~> (Contains(delivered, m) \/ m \in discarded)

\* Every message the broker has for the session reaches the application, unless
\* the session is lost.
Received ==
  \A m \in InMsgs : Contains(sent, m) ~> (Contains(handed, m) \/ m \in forgotten)
=============================================================================
