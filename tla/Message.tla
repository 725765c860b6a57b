------------------------------- MODULE Message -------------------------------
(***************************************************************************)
(* The packets of MQTT 3.1.1, src/vrpc/mqtt/message.hpp: for each class,   *)
(* the bytes const_buffer_sequence gives for what its constructor was      *)
(* given. A field that may be missing is a sequence of at most one value.  *)
(***************************************************************************)
EXTENDS Wire

HeaderOnly(type) == Framed(FixedHeader(type, 0), 0, <<>>)
HeaderPacketId(type, p) == Framed(FixedHeader(type, ReservedBits(type)), 2, BigEndian(p.id, 2))

Puback(p) == HeaderPacketId("puback", p)
Pubrec(p) == HeaderPacketId("pubrec", p)
Pubrel(p) == HeaderPacketId("pubrel", p)
Pubcomp(p) == HeaderPacketId("pubcomp", p)
Unsuback(p) == HeaderPacketId("unsuback", p)
Pingreq(p) == HeaderOnly("pingreq")
Pingresp(p) == HeaderOnly("pingresp")
Disconnect(p) == HeaderOnly("disconnect")

Connack(p) ==
  Framed(FixedHeader("connack", 0), 2, <<IF p.sessionPresent THEN 1 ELSE 0, p.reason>>)

\* Mutant: every will is retained.
ConnectFlagsRetain(p) ==
  (IF p.clean THEN 2 ELSE 0) + (IF p.will # <<>> THEN 4 + 8 * p.will[1].qos + 32 ELSE 0)
    + (IF p.password # <<>> THEN 64 ELSE 0) + (IF p.user # <<>> THEN 128 ELSE 0)
\* connect_flags_
ConnectFlags(p) ==
  (IF p.clean THEN 2 ELSE 0) + (IF p.will # <<>> THEN 4 + 8 * p.will[1].qos ELSE 0)
    + (IF p.will # <<>> /\ p.will[1].retain THEN 32 ELSE 0)
    + (IF p.password # <<>> THEN 64 ELSE 0) + (IF p.user # <<>> THEN 128 ELSE 0)
ProtocolName == <<0, 4, 77, 81, 84, 84>>    \* "MQTT"

WillTexts(p) == IF p.will = <<>> THEN <<>> ELSE <<p.will[1].topic, p.will[1].message>>
Connect(p) ==
  Framed(FixedHeader("connect", 0),
         2 + 4 + 1 + 1 + 2 + 2 + Len(p.clientId) + TextsSize(p.user \o p.password \o WillTexts(p)),
         ProtocolName \o <<4, ConnectFlags(p)>> \o BigEndian(p.keepAlive, 2) \o Text(p.clientId)
           \o Texts(WillTexts(p) \o p.user \o p.password))

PublishOptions(p) == (IF p.dup THEN 8 ELSE 0) + 2 * p.qos + (IF p.retain THEN 1 ELSE 0)
PublishId(p) == IF p.qos > 0 THEN BigEndian(p.id, 2) ELSE <<>>
Publish(p) ==
  Framed(FixedHeader("publish", PublishOptions(p)),
         2 + Len(p.topic) + (IF p.qos > 0 THEN 2 ELSE 0) + Len(p.payload),
         Text(p.topic) \o PublishId(p) \o p.payload)

\* Of a filter's options only the QoS is kept, get_qos; the other bits are dropped.
Subscribe(p) ==
  Framed(FixedHeader("subscribe", 2),
         2 + SumOf([k \in DOMAIN p.filters |-> 2 + Len(p.filters[k]) + 1]),
         BigEndian(p.id, 2) \o FlattenSeq([k \in DOMAIN p.filters |-> Text(p.filters[k]) \o <<p.options[k] % 4>>]))

Suback(p) == Framed(FixedHeader("suback", 0), Len(p.codes) + 2, BigEndian(p.id, 2) \o p.codes)

Unsubscribe(p) ==
  Framed(FixedHeader("unsubscribe", 2), 2 + TextsSize(p.filters), BigEndian(p.id, 2) \o Texts(p.filters))
=============================================================================
