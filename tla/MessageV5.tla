------------------------------ MODULE MessageV5 ------------------------------
(***************************************************************************)
(* The packets of MQTT 5, src/vrpc/mqtt/v5_message.hpp, as in Message. An  *)
(* acknowledgement has a reason code only when it is not success, and      *)
(* properties only when it has a reason code: the ones given with success  *)
(* are dropped ("TODO: This is wrong", v5_message.hpp:1077).               *)
(***************************************************************************)
EXTENDS Message

\* What follows the packet id of an acknowledgement.
ReasonLength(p) ==
  IF p.reason = 0 THEN 0
  ELSE IF p.props = <<>> THEN 1 ELSE 1 + PropertiesSize(p.props)
Reason(p) ==
  IF p.reason = 0 THEN <<>>
  ELSE <<p.reason>> \o (IF p.props = <<>> THEN <<>> ELSE Properties(p.props))

PubackV5(p) ==
  Framed(FixedHeader("puback", 0), 2 + ReasonLength(p), BigEndian(p.id, 2) \o Reason(p))
PubrecV5(p) ==
  Framed(FixedHeader("pubrec", 0), 2 + ReasonLength(p), BigEndian(p.id, 2) \o Reason(p))
PubrelV5(p) ==
  Framed(FixedHeader("pubrel", 2), 2 + ReasonLength(p), BigEndian(p.id, 2) \o Reason(p))
PubcompV5(p) ==
  Framed(FixedHeader("pubcomp", 0), 2 + ReasonLength(p), BigEndian(p.id, 2) \o Reason(p))

ConnackV5(p) ==
  Framed(FixedHeader("connack", 0), 2 + PropertiesSize(p.props),
         <<IF p.sessionPresent THEN 1 ELSE 0, p.reason>> \o Properties(p.props))

WillBytes(p) ==
  IF p.will = <<>> THEN <<>> ELSE Properties(p.will[1].props) \o Texts(WillTexts(p))
WillLength(p) ==
  IF p.will = <<>> THEN 0 ELSE PropertiesSize(p.will[1].props) + TextsSize(WillTexts(p))
ConnectV5(p) ==
  Framed(FixedHeader("connect", 0),
         2 + 4 + 1 + 1 + 2 + 2 + Len(p.clientId) + PropertiesSize(p.props)
           + TextsSize(p.user \o p.password) + WillLength(p),
         ProtocolName \o <<5, ConnectFlags(p)>> \o BigEndian(p.keepAlive, 2) \o Properties(p.props)
           \o Text(p.clientId) \o WillBytes(p) \o Texts(p.user \o p.password))

PublishV5(p) ==
  Framed(FixedHeader("publish", PublishOptions(p)),
         2 + Len(p.topic) + (IF p.qos > 0 THEN 2 ELSE 0) + Len(p.payload) + PropertiesSize(p.props),
         Text(p.topic) \o PublishId(p) \o Properties(p.props) \o p.payload)

SubscribeV5(p) ==
  Framed(FixedHeader("subscribe", 2),
         2 + PropertiesSize(p.props) + SumOf([k \in DOMAIN p.filters |-> 2 + Len(p.filters[k]) + 1]),
         BigEndian(p.id, 2) \o Properties(p.props)
           \o FlattenSeq([k \in DOMAIN p.filters |-> Text(p.filters[k]) \o <<p.options[k]>>]))

SubackV5(p) ==
  Framed(FixedHeader("suback", 0), Len(p.codes) + 2 + PropertiesSize(p.props),
         BigEndian(p.id, 2) \o Properties(p.props) \o p.codes)

UnsubscribeV5(p) ==
  Framed(FixedHeader("unsubscribe", 2), 2 + PropertiesSize(p.props) + TextsSize(p.filters),
         BigEndian(p.id, 2) \o Properties(p.props) \o Texts(p.filters))

UnsubackV5(p) ==
  Framed(FixedHeader("unsuback", 0), Len(p.codes) + 2 + PropertiesSize(p.props),
         BigEndian(p.id, 2) \o Properties(p.props) \o p.codes)

PingreqV5(p) == HeaderOnly("pingreq")
PingrespV5(p) == HeaderOnly("pingresp")

\* Nothing at all for normal_disconnection and success.
DisconnectV5(p) ==
  Framed(FixedHeader("disconnect", 0), IF p.reason = 0 THEN 0 ELSE 1 + PropertiesSize(p.props),
         IF p.reason = 0 THEN <<>> ELSE <<p.reason>> \o Properties(p.props))
AuthV5(p) ==
  Framed(FixedHeader("auth", 0), IF p.reason = 0 THEN 0 ELSE 1 + PropertiesSize(p.props),
         IF p.reason = 0 THEN <<>> ELSE <<p.reason>> \o Properties(p.props))
=============================================================================
