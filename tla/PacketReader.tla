---------------------------- MODULE PacketReader ----------------------------
(***************************************************************************)
(* How an endpoint reads packets (src/vrpc/mqtt/endpoint.hpp) that another *)
(* endpoint of this library has written: the fixed header, the remaining   *)
(* length, and then the coroutine of the packet's type, process_*. pc is   *)
(* where that coroutine goes on. A read takes its bytes from the stream    *)
(* or, when there is one, from a block that was read ahead: the whole      *)
(* packet if it is shorter than packet_bulk_read_limit_, the properties if *)
(* they are shorter than props_bulk_read_limit_.                           *)
(*                                                                         *)
(* All strings are well-formed UTF-8 and no topic filter is a shared one.  *)
(***************************************************************************)
EXTENDS Serialized

CONSTANTS
  ToServer, ToClient, \* ToServer[v], ToClient[v]: the packets sent in version v, a sequence
  Followers,    \* the packets sent while another is on its way
  PacketLimits, PropsLimits, \* values of the two limits
  Reasons       \* reason codes a variable that was never set may hold

VARIABLES
  version,      \* 4 for MQTT 3.1.1, 5
  asServer,     \* the reader is a server: it learns the version from CONNECT
  packetLimit, propsLimit,
  begun, ended, \* the first packet and the last one were sent
  stream,       \* bytes that have been sent and not read
  known,        \* version_ of the reader, 0 for undetermined
  mqttConnected, \* mqtt_connected_
  pc,           \* what is read next
  header, rem,  \* fixed_header_ and remaining_length_
  left,         \* property_length_rest, 0 when no properties are being read
  buf,          \* what is left of the block that was read ahead
  got,          \* the fields read so far: a sequence for each
  inFlight, last \* packets sent and not handed over; the last that was, if it came last

config == <<version, asServer, packetLimit, propsLimit>>
sender == <<begun, ended, inFlight>>
reader == <<known, mqttConnected, header, rem, left, buf, got>>
vars == <<config, sender, stream, pc, reader, last>>

Fields == {"clean", "flags", "keepAlive", "clientId", "willProps", "willTopic", "willMessage", "user",
           "password", "props", "sessionPresent", "reason", "id", "topic", "payload", "filters",
           "options", "codes"}
Nothing == [f \in Fields |-> <<>>]
Nobody == [type |-> "none"]

\* What a packet is on the wire.
Encoded(v, p) ==
  IF v = 4
  THEN CASE p.type = "connect" -> Connect(p) [] p.type = "connack" -> Connack(p)
         [] p.type = "publish" -> Publish(p) [] p.type = "puback" -> Puback(p)
         [] p.type = "pubrec" -> Pubrec(p) [] p.type = "pubrel" -> Pubrel(p)
         [] p.type = "pubcomp" -> Pubcomp(p) [] p.type = "subscribe" -> Subscribe(p)
         [] p.type = "suback" -> Suback(p) [] p.type = "unsubscribe" -> Unsubscribe(p)
         [] p.type = "unsuback" -> Unsuback(p) [] p.type = "pingreq" -> Pingreq(p)
         [] p.type = "pingresp" -> Pingresp(p) [] p.type = "disconnect" -> Disconnect(p)
  ELSE CASE p.type = "connect" -> ConnectV5(p) [] p.type = "connack" -> ConnackV5(p)
         [] p.type = "publish" -> PublishV5(p) [] p.type = "puback" -> PubackV5(p)
         [] p.type = "pubrec" -> PubrecV5(p) [] p.type = "pubrel" -> PubrelV5(p)
         [] p.type = "pubcomp" -> PubcompV5(p) [] p.type = "subscribe" -> SubscribeV5(p)
         [] p.type = "suback" -> SubackV5(p) [] p.type = "unsubscribe" -> UnsubscribeV5(p)
         [] p.type = "unsuback" -> UnsubackV5(p) [] p.type = "pingreq" -> PingreqV5(p)
         [] p.type = "pingresp" -> PingrespV5(p) [] p.type = "disconnect" -> DisconnectV5(p)
         [] p.type = "auth" -> AuthV5(p)

-----------------------------------------------------------------------------
(***************************************************************************)
(* The packets of version v: what the constructors of its classes accept,  *)
(* given packet ids other than 0, a topic filter at least, and options     *)
(* with one of the three values of enum qos. (Options can also be made of  *)
(* any byte: the constructors write a PUBLISH or SUBSCRIBE with both bits  *)
(* of the QoS set, and a SUBSCRIBE or UNSUBSCRIBE of no filter, and the    *)
(* reader refuses them.) What a version does not have is empty or 0.       *)
(***************************************************************************)
AtMostOne(S) == {s \in Seq(S) : Len(s) <= 1}
AtLeastOne(S) == {s \in Seq(S) : Len(s) >= 1}
Ids == TwoBytes \ {0}

PropsOf(v) == IF v = 5 THEN Seq(PropertyValues) ELSE {<<>>}
ReasonsOf(v) == IF v = 5 THEN Byte ELSE {0}

Wills(v) ==
  [topic : Strings, message : Strings, qos : 0..2, retain : BOOLEAN, props : PropsOf(v)]
Connects(v) ==
  [type : {"connect"}, clean : BOOLEAN, keepAlive : TwoBytes, clientId : Strings,
   will : AtMostOne(Wills(v)), user : AtMostOne(Strings), password : AtMostOne(Strings), props : PropsOf(v)]
Connacks(v) == [type : {"connack"}, sessionPresent : BOOLEAN, reason : Byte, props : PropsOf(v)]
Publishes(v) ==
  {p \in [type : {"publish"}, dup : BOOLEAN, qos : 0..2, retain : BOOLEAN, topic : Strings,
          id : TwoBytes, payload : Seq(Byte), props : PropsOf(v)] : p.id = 0 <=> p.qos = 0}
Acknowledgements(v) ==
  [type : {"puback", "pubrec", "pubrel", "pubcomp"}, id : Ids, reason : ReasonsOf(v), props : PropsOf(v)]
Subscribes(v) ==
  {p \in [type : {"subscribe"}, id : Ids, filters : AtLeastOne(Strings), options : Seq(Byte),
          props : PropsOf(v)] :
     Len(p.options) = Len(p.filters) /\ \A k \in DOMAIN p.options : p.options[k] % 4 # 3}
Unsubscribes(v) ==
  [type : {"unsubscribe"}, id : Ids, filters : AtLeastOne(Strings), props : PropsOf(v)]
Subacks(v) == [type : {"suback"}, id : Ids, codes : Seq(Byte), props : PropsOf(v)]
Unsubacks(v) ==
  [type : {"unsuback"}, id : Ids, codes : IF v = 5 THEN Seq(Byte) ELSE {<<>>}, props : PropsOf(v)]
Pings == [type : {"pingreq", "pingresp"}, props : {<<>>}]
Endings(v) ==
  [type : {"disconnect"} \cup (IF v = 5 THEN {"auth"} ELSE {}), reason : ReasonsOf(v), props : PropsOf(v)]
\* (Four more bytes than the greatest length are the header and the length.)
Packets(v) ==
  {p \in Connects(v) \cup Connacks(v) \cup Publishes(v) \cup Acknowledgements(v) \cup Subscribes(v)
         \cup Unsubscribes(v) \cup Subacks(v) \cup Unsubacks(v) \cup Pings \cup Endings(v) :
     Len(Encoded(v, p)) <= LengthLimit + 4}

\* Only a client sends CONNECT, and only a server CONNACK.
PacketsAssumption ==
  /\ \A v \in {4, 5} :
       /\ \A k \in DOMAIN ToServer[v] :
            ToServer[v][k] \in Packets(v) /\ ToServer[v][k].type # "connack"
       /\ \A k \in DOMAIN ToClient[v] :
            ToClient[v][k] \in Packets(v) /\ ToClient[v][k].type # "connect"
  /\ PacketLimits \subseteq Nat /\ PropsLimits \subseteq Nat
ASSUME PacketsAssumption

-----------------------------------------------------------------------------
Sends == IF asServer THEN ToServer[version] ELSE ToClient[version]
Opens(p) == p.type \in {"connect", "connack"}

-----------------------------------------------------------------------------
(***************************************************************************)
(* The primitive reads. Each gives what it read and the cursor behind it,  *)
(* or refuses the packet, or waits for bytes that have not come.           *)
(***************************************************************************)
Cursor == [stream |-> stream, buf |-> buf, rem |-> rem, left |-> left]
Took(cursor, value) == [status |-> "ok", cursor |-> cursor, value |-> value]
Refused == [status |-> "refused"]
Waits == [status |-> "wait"]
\* (A bound variable, so that TLC evaluates what was taken only once.)
Only(S) == CHOOSE element \in S : TRUE
Then(taken, Continue(_, _)) ==
  Only({IF t.status = "ok" THEN Continue(t.cursor, t.value) ELSE t : t \in {taken}})

\* n bytes of the block, or of the stream when there is no block.
FromBlock(c, n) == Took([c EXCEPT !.buf = Behind(@, n)], First(c.buf, n))
FromStream(c, n) ==
  IF Len(c.stream) < n THEN Waits ELSE Took([c EXCEPT !.stream = Behind(@, n)], First(c.stream, n))

\* process_nbytes
TakeBytes(c, n) ==
  LET counted == [c EXCEPT !.rem = @ - n] IN
    IF c.rem < n THEN Refused
    ELSE IF c.buf = <<>> THEN FromStream(counted, n)
    ELSE IF Len(c.buf) < n THEN Refused ELSE FromBlock(counted, n)

\* process_fixed_length does not look whether the block is long enough.
TakeFixed(c, n) ==
  LET counted == [c EXCEPT !.rem = @ - n] IN
    IF c.rem < n THEN Refused
    ELSE Then(IF c.buf = <<>> THEN FromStream(counted, n) ELSE FromBlock(counted, n),
              LAMBDA d, bytes : Took(d, Number(bytes)))

\* The cursor n bytes further on, whichever of them were read ahead.
Past(c, n) ==
  [stream |-> IF n <= Len(c.buf) THEN c.stream ELSE Behind(c.stream, n - Len(c.buf)),
   buf |-> Behind(c.buf, n), rem |-> c.rem - n, left |-> c.left]

\* Mutant: the bytes of a length are not taken off remaining_length_.
TakeVariableUncounted(c) ==
  LET bytes == c.buf \o c.stream
      size == LengthEnd(bytes)
  IN IF size # 0 /\ size <= c.rem
     THEN Took([Past(c, size) EXCEPT !.rem = c.rem], LengthValue(bytes, size))
     ELSE IF size = 0 /\ Len(bytes) < 5 /\ Len(bytes) < c.rem THEN Waits ELSE Refused
\* process_variable_length: byte by byte, which may end the block.
TakeVariable(c) ==
  LET bytes == c.buf \o c.stream
      size == LengthEnd(bytes)
  IN IF size # 0 /\ size <= c.rem THEN Took(Past(c, size), LengthValue(bytes, size))
     ELSE IF size = 0 /\ Len(bytes) < 5 /\ Len(bytes) < c.rem THEN Waits ELSE Refused

TakePacketId(c) ==
  Then(TakeFixed(c, 2), LAMBDA d, id : IF id = 0 THEN Refused ELSE Took(d, id))

\* process_binary, and process_string, which looks at the contents as well.
TakeText(c) ==
  Then(TakeFixed(c, 2), LAMBDA d, size : IF d.rem < size THEN Refused ELSE TakeBytes(d, size))

TakePairValue(c, key) == Then(TakeText(c), LAMBDA d, val : Took(d, <<key, val>>))

\* The value of a property, of which at most rest bytes are left.
TakePropertyBody(c, id, rest) ==
  IF rest = 0 THEN Refused
  ELSE CASE id \in TextIds -> TakeText(c)
         [] id \in VariableIds -> TakeVariable(c)
         [] id \in PairIds -> Then(TakeText(c), TakePairValue)
         [] OTHER -> IF rest < NumberSize(id) THEN Refused
                     ELSE Then(TakeBytes(c, NumberSize(id)), LAMBDA d, bytes : Took(d, Number(bytes)))

\* process_properties: a block of their own, or of one byte, when there is none.
OpenProperties(c, length) ==
  LET opened == [c EXCEPT !.left = length] IN
    IF length > c.rem THEN Refused
    ELSE IF length = 0 \/ c.buf # <<>> THEN Took(opened, length)
    ELSE Then(FromStream(opened, IF length < propsLimit THEN length ELSE 1),
              LAMBDA d, block : Took([d EXCEPT !.buf = block], length))
TakePropertiesLength(c) == Then(TakeVariable(c), OpenProperties)

\* process_property_id: the next property, c being where it begins.
TakePropertyOf(c, d, id) ==
  Then(TakePropertyBody(d, id, c.left - 1), LAMBDA e, val :
    Took([e EXCEPT !.left = c.left - (c.rem - e.rem)], [id |-> id, val |-> val]))
TakeProperty(c) ==
  LET counted == [c EXCEPT !.rem = @ - 1] IN
    Then(IF c.buf = <<>> THEN FromStream(counted, 1) ELSE FromBlock(counted, 1),
         LAMBDA d, id : TakePropertyOf(c, d, id[1]))

TakeByte(c) == Then(TakeBytes(c, 1), LAMBDA d, bytes : Took(d, bytes[1]))
\* The options of a topic filter, which must not ask for a QoS of 3.
TakeOptions(c) == Then(TakeByte(c), LAMBDA d, options : IF options % 4 = 3 THEN Refused ELSE Took(d, options))
TakeRest(c) == TakeBytes(c, c.rem)

-----------------------------------------------------------------------------
Init ==
  /\ version \in {4, 5} /\ asServer \in BOOLEAN
  /\ packetLimit \in PacketLimits /\ propsLimit \in PropsLimits
  /\ begun = FALSE /\ ended = FALSE /\ inFlight = <<>> /\ stream = <<>>
  /\ known = (IF asServer THEN 0 ELSE version) /\ mqttConnected = FALSE
  /\ pc = "header" /\ header = 0 /\ rem = 0 /\ left = 0 /\ buf = <<>> /\ got = Nothing
  /\ last = Nobody

(***************************************************************************)
(* The sender. CONNECT or CONNACK comes first and DISCONNECT last.         *)
(***************************************************************************)
MaySend(p) ==
  /\ ~ended /\ (Opens(p) <=> ~begun)
  /\ inFlight = <<>> \/ (Len(inFlight) = 1 /\ p \in Followers)

SendsAs(p, bytes) ==
  /\ MaySend(p)
  /\ inFlight' = Append(inFlight, p) /\ stream' = stream \o bytes
  /\ begun' = TRUE /\ ended' = (p.type = "disconnect") /\ last' = Nobody
  /\ UNCHANGED <<config, pc, reader>>

Send(p) == SendsAs(p, Encoded(version, p))

\* A message that was stored in an earlier run of the program.
SendRestored(p) ==
  \/ p.type = "publish" /\ p.dup
       /\ SendsAs(p, IF version = 4 THEN RestoredPublish(Encoded(4, p)) ELSE RestoredPublishV5(Encoded(5, p)))
  \/ p.type = "pubrel"
       /\ SendsAs(p, IF version = 4 THEN RestoredPubrel(Encoded(4, p)) ELSE RestoredPubrelV5(Encoded(5, p)))

-----------------------------------------------------------------------------
(***************************************************************************)
(* The reader: the fixed header, and what may be refused already there.    *)
(***************************************************************************)
Acks == {"puback", "pubrec", "pubrel", "pubcomp"}

ReadControlPacketType ==
  /\ pc = "header" /\ stream # <<>>
  /\ header' = Head(stream) /\ stream' = Tail(stream) /\ pc' = "length"
  /\ UNCHANGED <<config, sender, known, mqttConnected, rem, left, buf, got, last>>

\* Mutant: the lengths of MQTT 3.1.1 are demanded in every version.
LengthAllowedOfV3(type, length) ==
  /\ type \in Acks \cup {"connack", "unsuback"} => length = 2
  /\ type \in {"disconnect", "pingreq", "pingresp"} => length = 0
\* The application's check_is_valid_length accepts every length.
LengthAllowed(type, length) ==
  /\ known = 4 => type # "auth"
  /\ known = 4 /\ type \in Acks \cup {"connack", "unsuback"} => length = 2
  /\ known = 4 /\ type = "disconnect" => length = 0
  /\ type \in {"pingreq", "pingresp"} => length = 0
\* process_payload
TypeAllowed(type) == mqttConnected \/ type \in {"connect", "connack", "disconnect", "auth"}
\* header_len_, which a packet with a coroutine must have at least
HeaderLength(type) ==
  CASE type = "connect" -> 10
    [] type \in {"publish", "pingreq", "pingresp"} -> 0
    [] OTHER -> 2
LeastLength(type) ==
  CASE type = "publish" -> 2 [] type \in {"disconnect", "auth"} -> 0 [] OTHER -> HeaderLength(type)

HandleRemainingLength ==
  /\ pc = "length" /\ (LengthEnd(stream) # 0 \/ Len(stream) > 4)
  /\ LET size == LengthEnd(stream)
         length == LengthValue(stream, size)
         type == TypeOf(header)
         allowed == size # 0 /\ ValidHeader(header) /\ LengthAllowed(type, length)
                      /\ TypeAllowed(type) /\ length >= LeastLength(type)
     IN /\ rem' = length /\ stream' = Behind(stream, size)
        /\ pc' = IF ~ allowed THEN "refused" ELSE IF length = 0 THEN "done" ELSE "block"
  /\ UNCHANGED <<config, sender, known, mqttConnected, header, left, buf, got, last>>

\* process_header: the bytes read here stay in remaining_length_.
FirstField ==
  CASE TypeOf(header) \in {"connect", "connack"} -> "flags"
    [] TypeOf(header) = "publish" -> "topic"
    [] TypeOf(header) \in {"disconnect", "auth"} -> "reason"
    [] OTHER -> "id"
ProcessHeader ==
  /\ pc = "block"
  /\ LET size == IF rem < packetLimit THEN rem ELSE HeaderLength(TypeOf(header)) IN
       /\ Len(stream) >= size
       /\ buf' = First(stream, size) /\ stream' = Behind(stream, size)
  /\ pc' = FirstField
  /\ UNCHANGED <<config, sender, known, mqttConnected, header, rem, left, got, last>>

(***************************************************************************)
(* The coroutines, a read at a time.                                       *)
(***************************************************************************)
Proceeds(taken, Next(_)) ==
  LET ok == taken.status = "ok"
      cursor == IF ok THEN taken.cursor ELSE Cursor
  IN /\ taken.status # "wait"
     /\ stream' = cursor.stream /\ buf' = cursor.buf /\ rem' = cursor.rem /\ left' = cursor.left
     /\ pc' = IF ok THEN Next(cursor) ELSE "refused"
     /\ UNCHANGED <<config, sender, known, mqttConnected, header, last>>
With(field, taken) ==
  IF taken.status = "ok" THEN [got EXCEPT ![field] = Append(@, taken.value)] ELSE got

Reads(field, Take(_), Next(_)) ==
  /\ pc = field
  /\ LET taken == Take(Cursor)
     IN Proceeds(taken, LAMBDA cursor : Next(cursor.rem)) /\ got' = With(field, taken)

ReadsProperties(field, next) ==
  LET Next(cursor) == IF cursor.left = 0 THEN next ELSE field IN
    /\ pc = field
    /\ \/ left = 0 /\ Proceeds(TakePropertiesLength(Cursor), Next) /\ got' = got
       \/ left # 0 /\ LET taken == TakeProperty(Cursor) IN Proceeds(taken, Next) /\ got' = With(field, taken)

Reading(type) == TypeOf(header) = type
IfV5(field, otherwise) == IF known = 5 THEN field ELSE otherwise

Flag(bit) == (got.flags[1] \div bit) % 2 = 1
AfterUser == IF Flag(64) THEN "password" ELSE "done"
AfterWill == IF Flag(128) THEN "user" ELSE AfterUser

\* The first ten bytes are not taken off remaining_length_.
ConnectHeader ==
  /\ pc = "flags"
  /\ LET level == buf[7]
         allowed == First(buf, 6) = ProtocolName /\ level \in {4, 5} /\ known \in {0, level}
     IN /\ known' = IF allowed THEN level ELSE known
        /\ pc' = IF ~ allowed THEN "refused" ELSE IF level = 5 THEN "props" ELSE "clientId"
  /\ got' = [got EXCEPT !.flags = <<buf[8]>>, !.keepAlive = <<Number(SubSeq(buf, 9, 10))>>]
  /\ buf' = Behind(buf, 10)
  /\ UNCHANGED <<config, sender, stream, mqttConnected, header, rem, left, last>>

ProcessConnect ==
  Reading("connect") /\
    \/ ConnectHeader
    \/ ReadsProperties("props", "clientId")
    \/ Reads("clientId", TakeText,
             LAMBDA rest : IF Flag(4) THEN IfV5("willProps", "willTopic") ELSE AfterWill)
    \/ ReadsProperties("willProps", "willTopic")
    \/ Reads("willTopic", TakeText, LAMBDA rest : "willMessage")
    \/ Reads("willMessage", TakeText, LAMBDA rest : AfterWill)
    \/ Reads("user", TakeText, LAMBDA rest : AfterUser)
    \/ Reads("password", TakeText, LAMBDA rest : "done")

\* Nor are these two.
ConnackHeader ==
  /\ pc = "flags"
  /\ got' = [got EXCEPT !.sessionPresent = <<buf[1] % 2 = 1>>, !.reason = <<buf[2]>>]
  /\ buf' = Behind(buf, 2) /\ pc' = IfV5("props", "done")
  /\ UNCHANGED <<config, sender, stream, known, mqttConnected, header, rem, left, last>>
ProcessConnack ==
  Reading("connack") /\ (ConnackHeader \/ ReadsProperties("props", "done"))

ProcessPublish ==
  Reading("publish") /\
    \/ Reads("topic", TakeText, LAMBDA rest : CASE QosOf(header) = 0 -> IfV5("props", "payload")
                                                [] QosOf(header) \in {1, 2} -> "id"
                                                [] OTHER -> "refused")
    \/ Reads("id", TakePacketId, LAMBDA rest : IfV5("props", "payload"))
    \/ ReadsProperties("props", "payload")
    \/ Reads("payload", TakeRest, LAMBDA rest : "done")

\* A reason code and properties are there if bytes are left for them.
ReadAck ==
  \/ Reads("id", TakePacketId, LAMBDA rest : IF rest = 0 THEN "done" ELSE "reason")
  \/ Reads("reason", TakeByte, LAMBDA rest : IF rest > 0 THEN "props" ELSE "done")
  \/ ReadsProperties("props", "done")
ProcessPuback == Reading("puback") /\ ReadAck
ProcessPubrec == Reading("pubrec") /\ ReadAck
ProcessPubrel == Reading("pubrel") /\ ReadAck
ProcessPubcomp == Reading("pubcomp") /\ ReadAck

ProcessSubscribe ==
  Reading("subscribe") /\
    \/ Reads("id", TakePacketId, LAMBDA rest : IfV5("props", "filters"))
    \/ ReadsProperties("props", "filters")
    \/ Reads("filters", TakeText, LAMBDA rest : "options")
    \/ Reads("options", TakeOptions, LAMBDA rest : IF rest = 0 THEN "done" ELSE "filters")

ProcessSuback ==
  Reading("suback") /\
    \/ Reads("id", TakePacketId, LAMBDA rest : IfV5("props", "codes"))
    \/ ReadsProperties("props", "codes")
    \/ Reads("codes", TakeRest, LAMBDA rest : "done")

ProcessUnsubscribe ==
  Reading("unsubscribe") /\
    \/ Reads("id", TakePacketId, LAMBDA rest : IfV5("props", "filters"))
    \/ ReadsProperties("props", "filters")
    \/ Reads("filters", TakeText, LAMBDA rest : IF rest = 0 THEN "done" ELSE "filters")

ProcessUnsuback ==
  Reading("unsuback") /\
    \/ Reads("id", TakePacketId, LAMBDA rest : IfV5("props", "done"))
    \/ ReadsProperties("props", "codes")
    \/ Reads("codes", TakeRest, LAMBDA rest : "done")

ProcessDisconnect ==
  Reading("disconnect") /\
    \/ Reads("reason", TakeByte, LAMBDA rest : IF rest > 0 THEN "props" ELSE "done")
    \/ ReadsProperties("props", "done")

ProcessAuth ==
  Reading("auth") /\
    \/ Reads("reason", TakeByte, LAMBDA rest : "props")
    \/ ReadsProperties("props", "done")

-----------------------------------------------------------------------------
(***************************************************************************)
(* What the handler is given. The reason code of a DISCONNECT or an AUTH   *)
(* without one is a member that was never set.                             *)
(***************************************************************************)
One(field, default) == IF got[field] = <<>> THEN default ELSE got[field][1]
Will ==
  [topic |-> One("willTopic", <<>>), message |-> One("willMessage", <<>>),
   qos |-> (got.flags[1] \div 8) % 4, retain |-> Flag(32), props |-> got.willProps]

Received ==
  LET type == TypeOf(header)
      reasons == IF type \in {"disconnect", "auth"} /\ known = 5 /\ got.reason = <<>> THEN Reasons
                 ELSE {One("reason", 0)}
  IN CASE type = "connect" ->
            {[type |-> type, clean |-> Flag(2), keepAlive |-> got.keepAlive[1],
              clientId |-> got.clientId[1], will |-> IF Flag(4) THEN <<Will>> ELSE <<>>,
              user |-> got.user, password |-> got.password, props |-> got.props]}
       [] type = "connack" ->
            {[type |-> type, sessionPresent |-> got.sessionPresent[1], reason |-> got.reason[1],
              props |-> got.props]}
       [] type = "publish" ->
            {[type |-> type, dup |-> FlagsOf(header) >= 8, qos |-> QosOf(header),
              retain |-> header % 2 = 1, topic |-> got.topic[1], id |-> One("id", 0),
              payload |-> got.payload[1], props |-> got.props]}
       [] type \in Acks ->
            {[type |-> type, id |-> got.id[1], reason |-> r, props |-> got.props] : r \in reasons}
       [] type = "subscribe" ->
            {[type |-> type, id |-> got.id[1], filters |-> got.filters, options |-> got.options,
              props |-> got.props]}
       [] type = "unsubscribe" ->
            {[type |-> type, id |-> got.id[1], filters |-> got.filters, props |-> got.props]}
       [] type \in {"suback", "unsuback"} ->
            {[type |-> type, id |-> got.id[1], codes |-> One("codes", <<>>), props |-> got.props]}
       [] type \in {"pingreq", "pingresp"} -> {[type |-> type, props |-> <<>>]}
       [] type \in {"disconnect", "auth"} ->
            {[type |-> type, reason |-> r, props |-> got.props] : r \in reasons}

\* The end of a coroutine: the handler, and the next read unless the connection was shut down.
HandOver ==
  /\ pc = "done"
  /\ last' \in Received
  /\ inFlight' = Tail(inFlight)
  /\ mqttConnected' = (mqttConnected \/ TypeOf(header) \in {"connect", "connack"})
  /\ pc' = IF TypeOf(header) = "disconnect" THEN "closed" ELSE "header"
  /\ header' = 0 /\ rem' = 0 /\ left' = 0 /\ buf' = <<>> /\ got' = Nothing
  /\ UNCHANGED <<config, begun, ended, stream, known>>

Read ==
  \/ ReadControlPacketType \/ HandleRemainingLength \/ ProcessHeader \/ HandOver
  \/ ProcessConnect \/ ProcessConnack \/ ProcessPublish
  \/ ProcessPuback \/ ProcessPubrec \/ ProcessPubrel \/ ProcessPubcomp
  \/ ProcessSubscribe \/ ProcessSuback \/ ProcessUnsubscribe \/ ProcessUnsuback
  \/ ProcessDisconnect \/ ProcessAuth

Next == Read \/ \E k \in DOMAIN Sends : Send(Sends[k]) \/ SendRestored(Sends[k])
\* The event loop goes on reading.
Spec == Init /\ [][Next]_vars /\ WF_vars(Read)

-----------------------------------------------------------------------------
OnTheWire(packets) == FlattenSeq([k \in DOMAIN packets |-> Encoded(version, packets[k])])

\* A packet of Packets that this library wrote is never refused by it, whatever
\* parts it has and however much of it is read ahead: the length the constructor
\* computed and every check of the coroutines fit together.
NeverRefused == pc # "refused"

\* Where a coroutine ends, and hands over to the next read, exactly the bytes
\* of its packet are used up, so that a packet never runs into the next one.
BoundaryKept ==
  /\ pc = "header" => stream = OnTheWire(inFlight)
  /\ pc = "done" => buf = <<>> /\ stream = OnTheWire(Tail(inFlight))

\* remaining_length_, which the checks of a field's length rely on, is what is
\* left of the packet: in the block, and behind it in the stream. Only the
\* header of a CONNECT (10 bytes) or CONNACK (2) is never taken off it.
Counted ==
  LET ahead == Len(buf) + Len(stream) - Len(OnTheWire(Tail(inFlight)))
      header_len == CASE Reading("connect") -> 10 [] Reading("connack") -> 2 [] OTHER -> 0
  IN pc \in Fields \cup {"block", "done"} =>
       rem = ahead + (IF pc \in {"block", "flags"} THEN 0 ELSE header_len)

\* What the constructors keep of a packet: in version 3.1.1, only the QoS of the
\* options in a SUBSCRIBE.
Kept(v, p) ==
  IF v = 4 /\ p.type = "subscribe" THEN [p EXCEPT !.options = [k \in DOMAIN @ |-> @[k] % 4]] ELSE p

\* The forms in which a packet is handed over. With success, v5_message drops
\* the properties of an acknowledgement, a DISCONNECT or an AUTH, and the
\* reason code that the last two are handed over with was never set. (MQTT
\* 3.1.1 has neither.)
ReadingsOf(v, p) ==
  IF p.type \in Acks \cup {"disconnect", "auth"} /\ p.reason = 0
  THEN {[p EXCEPT !.props = <<>>, !.reason = r] :
          r \in {0} \cup (IF p.type \in Acks THEN {} ELSE Reasons)}
  ELSE {Kept(v, p)}

Channel == INSTANCE PacketChannel WITH queue <- inFlight, Readings <- ReadingsOf
\* The handlers are given all packets that were sent, once and in order, each
\* with every field and property it was sent with, but for what Kept and
\* ReadingsOf say is dropped on the way, and each eventually.
ImplementsChannel == Channel!ChannelSpec
=============================================================================
