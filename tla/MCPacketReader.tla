--------------------------- MODULE MCPacketReader ---------------------------
\* Packets of every type, with and without each part that may be missing, in
\* both versions and in both directions.
EXTENDS PacketReader

Letters(n) == [k \in 1..n |-> 96 + (k % 26)]
A == <<97>>
BC == <<98, 99>>
Prop(id, val) == [id |-> id, val |-> val]

\* A property of every kind, and lengths around those where a length takes a
\* second byte: 127 and 128.
EveryKind == <<Prop(1, 1), Prop(35, 258), Prop(2, 16909060), Prop(11, 300), Prop(3, BC),
               Prop(38, <<A, BC>>), Prop(38, <<BC, <<>>>>)>>
OfLength(n) == <<Prop(3, Letters(n - 3))>>
Few == <<Prop(31, BC)>>

CON(clean, will, user, password, props) ==
  [type |-> "connect", clean |-> clean, keepAlive |-> 258, clientId |-> BC, will |-> will,
   user |-> user, password |-> password, props |-> props]
WillMessage(qos, retain, props) ==
  <<[topic |-> A, message |-> BC, qos |-> qos, retain |-> retain, props |-> props]>>
CONNACK(present, reason, props) ==
  [type |-> "connack", sessionPresent |-> present, reason |-> reason, props |-> props]
PUB(dup, qos, retain, topic, id, payload, props) ==
  [type |-> "publish", dup |-> dup, qos |-> qos, retain |-> retain, topic |-> topic, id |-> id,
   payload |-> payload, props |-> props]
ACK(type, id, reason, props) == [type |-> type, id |-> id, reason |-> reason, props |-> props]
SUB(id, filters, options, props) ==
  [type |-> "subscribe", id |-> id, filters |-> filters, options |-> options, props |-> props]
UNSUB(id, filters, props) == [type |-> "unsubscribe", id |-> id, filters |-> filters, props |-> props]
CODES(type, id, codes, props) == [type |-> type, id |-> id, codes |-> codes, props |-> props]
BARE(type) == [type |-> type, props |-> <<>>]
REASON(type, reason, props) == [type |-> type, reason |-> reason, props |-> props]

Publishes4 ==
  <<PUB(FALSE, 0, FALSE, A, 0, <<>>, <<>>), PUB(FALSE, 0, TRUE, BC, 0, Letters(123), <<>>),
    PUB(FALSE, 1, FALSE, A, 258, Letters(123), <<>>), PUB(TRUE, 1, FALSE, BC, 1, A, <<>>),
    PUB(TRUE, 2, TRUE, BC, 65535, <<>>, <<>>)>>
Acks4 == <<ACK("puback", 1, 0, <<>>), ACK("pubrec", 258, 0, <<>>), ACK("pubrel", 65535, 0, <<>>),
           ACK("pubcomp", 256, 0, <<>>)>>
ToServer4 ==
  <<CON(TRUE, <<>>, <<>>, <<>>, <<>>), CON(FALSE, WillMessage(1, TRUE, <<>>), <<A>>, <<BC>>, <<>>),
    CON(FALSE, WillMessage(2, FALSE, <<>>), <<>>, <<>>, <<>>), CON(TRUE, <<>>, <<BC>>, <<>>, <<>>),
    SUB(258, <<A>>, <<1>>, <<>>), SUB(1, <<BC, A>>, <<46, 2>>, <<>>),
    UNSUB(1, <<BC>>, <<>>), UNSUB(258, <<A, BC>>, <<>>),
    BARE("pingreq"), REASON("disconnect", 0, <<>>)>> \o Publishes4 \o Acks4
ToClient4 ==
  <<CONNACK(TRUE, 0, <<>>), CONNACK(FALSE, 5, <<>>), CODES("suback", 1, <<0>>, <<>>),
    CODES("suback", 258, <<128, 1>>, <<>>), CODES("unsuback", 258, <<>>, <<>>),
    BARE("pingresp")>> \o Publishes4 \o Acks4

Publishes5 ==
  <<PUB(FALSE, 0, FALSE, A, 0, <<>>, <<>>), PUB(FALSE, 0, FALSE, <<>>, 0, A, <<Prop(35, 258)>>),
    PUB(FALSE, 1, TRUE, BC, 258, A, EveryKind), PUB(TRUE, 1, FALSE, A, 1, <<>>, OfLength(127)),
    PUB(TRUE, 2, FALSE, A, 256, BC, OfLength(128)), PUB(TRUE, 2, FALSE, A, 256, BC, EveryKind)>>
Acks5 ==
  <<ACK("puback", 258, 0, <<>>), ACK("puback", 1, 0, Few), ACK("puback", 1, 16, <<>>),
    ACK("puback", 1, 16, EveryKind), ACK("pubrec", 258, 0, <<>>), ACK("pubrec", 1, 128, Few),
    ACK("pubrel", 258, 0, <<>>), ACK("pubrel", 1, 0, Few), ACK("pubrel", 1, 146, <<>>),
    ACK("pubrel", 1, 146, EveryKind), ACK("pubrel", 1, 146, OfLength(128)),
    ACK("pubcomp", 1, 146, <<>>), ACK("pubcomp", 258, 146, Few)>>
Endings5 ==
  <<REASON("auth", 0, <<>>), REASON("auth", 24, <<>>), REASON("auth", 25, Few),
    REASON("disconnect", 0, Few), REASON("disconnect", 4, <<>>), REASON("disconnect", 130, EveryKind)>>
ToServer5 ==
  <<CON(TRUE, <<>>, <<>>, <<>>, <<>>), CON(FALSE, WillMessage(1, TRUE, <<>>), <<A>>, <<BC>>, EveryKind),
    CON(FALSE, WillMessage(2, FALSE, EveryKind), <<>>, <<BC>>, OfLength(127)),
    SUB(258, <<A>>, <<1>>, <<>>), SUB(1, <<BC, A>>, <<0, 46>>, <<Prop(11, 16384)>>),
    UNSUB(1, <<BC>>, <<>>), UNSUB(258, <<A, BC>>, EveryKind), BARE("pingreq")>>
    \o Publishes5 \o Acks5 \o Endings5
ToClient5 ==
  <<CONNACK(TRUE, 0, <<>>), CONNACK(FALSE, 135, EveryKind), CONNACK(FALSE, 0, OfLength(128)),
    CODES("suback", 1, <<0>>, <<>>), CODES("suback", 258, <<128, 1>>, Few),
    CODES("unsuback", 1, <<0>>, <<>>), CODES("unsuback", 258, <<17, 128>>, EveryKind),
    BARE("pingresp")>> \o Publishes5 \o Acks5 \o Endings5

SentToServer == [v \in {4, 5} |-> IF v = 4 THEN ToServer4 ELSE ToServer5]
SentToClient == [v \in {4, 5} |-> IF v = 4 THEN ToClient4 ELSE ToClient5]
Second == {BARE("pingreq"), BARE("pingresp"), ACK("pubrec", 258, 0, <<>>)}
=============================================================================
