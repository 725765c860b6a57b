---------------------------- MODULE PacketReaderProofs ----------------------------
EXTENDS PacketProofs

\* The reader of endpoint.hpp takes every packet off the wire as it was sent: the inductive invariant
\* of PacketReader, step by step.

\* The stages of a packet that is read.

\* What is read of a packet for each field.
Value(p, f) ==
  CASE f = "flags" -> <<ConnectFlags(p)>> [] f = "keepAlive" -> <<p.keepAlive>>
    [] f = "clientId" -> <<p.clientId>> [] f = "willProps" -> p.will[1].props
    [] f = "willTopic" -> <<p.will[1].topic>> [] f = "willMessage" -> <<p.will[1].message>>
    [] f = "user" -> p.user [] f = "password" -> p.password [] f = "props" -> p.props
    [] f = "sessionPresent" -> <<p.sessionPresent>> [] f = "reason" -> <<p.reason>>
    [] f = "id" -> (IF p.id = 0 THEN <<>> ELSE <<p.id>>) [] f = "topic" -> <<p.topic>>
    [] f = "payload" -> <<p.payload>> [] f = "filters" -> p.filters [] f = "options" -> p.options
    [] f = "codes" -> <<p.codes>>
\* The fields in S were read, and j values of f, and those of the topic filters.
Filled(p, S) == [f \in Fields |-> IF f \in S THEN Value(p, f) ELSE <<>>]
Partly(p, S, f, j) == [Filled(p, S) EXCEPT ![f] = First(Value(p, f), j)]
Listed(p, i, j) ==
  [f \in Fields |-> CASE f = "filters" -> First(p.filters, i) [] f = "options" -> First(p.options, j)
                      [] OTHER -> Filled(p, {"id", "props"})[f]]

\* R of the packet is left to read, and T lies behind it; x bytes more are still counted in rem. The
\* block is used up, or holds all of R, or is of one of the sizes in N.
Spot(g, R, T, x, N) ==
  /\ left = 0 /\ got = g /\ R \in Seq(Byte) /\ Placed(Cursor, R, T) /\ rem = Len(R) + x
  /\ Len(buf) \in {0, Len(R)} \cup N

\* Between two properties of field f: j were read, others are left, and A comes behind them.
Between(f, p, S, j, A, T, x) ==
  LET Q == RestOf(Pieces(Value(p, f)), j) IN
    /\ left = Len(Q) /\ left # 0 /\ got = Partly(p, S, f, j)
    /\ Q \o A \in Seq(Byte) /\ Placed(Cursor, Q \o A, T) /\ rem = Len(Q \o A) + x
    /\ Len(buf) \in {0, 1, Len(Q), Len(Q \o A)}

\* At the properties of field f: their length comes next, or one of them.
AtProps(f, p, S, A, T, x, N) ==
  /\ pc = f
  /\ \/ Spot(Filled(p, S), Properties(Value(p, f)) \o A, T, x, N)
     \/ \E j \in 0..Len(Value(p, f)) : Between(f, p, S, j, A, T, x)

-----------------------------------------------------------------------------
\* The fields that a packet of each type fills, and what the coroutine leaves counted.
WillFields(p) == IF p.will = <<>> THEN {} ELSE {"willProps", "willTopic", "willMessage"}
Opening == {"flags", "keepAlive", "props", "clientId"}
AllFields(v, p) ==
  CASE p.type = "connect" -> Opening \cup WillFields(p) \cup {"user", "password"}
    [] p.type = "connack" -> {"sessionPresent", "reason", "props"}
    [] p.type = "publish" -> {"topic", "id", "props", "payload"}
    [] p.type \in Acks -> IF p.reason = 0 THEN {"id"} ELSE {"id", "reason", "props"}
    [] p.type = "subscribe" -> {"id", "props", "filters", "options"}
    [] p.type = "unsubscribe" -> {"id", "props", "filters"}
    [] p.type = "suback" -> {"id", "props", "codes"}
    [] p.type = "unsuback" -> IF v = 5 THEN {"id", "props", "codes"} ELSE {"id", "props"}
    [] p.type \in {"disconnect", "auth"} -> IF p.reason = 0 THEN {} ELSE {"reason", "props"}
    [] OTHER -> {}
Uncounted(p) == IF p.type = "connect" THEN 10 ELSE IF p.type = "connack" THEN 2 ELSE 0

\* What comes behind the will topic, the will properties and the properties of CONNECT.
AfterTopic(p) == Text(p.will[1].message) \o UserPart(p)
AfterWillProps(p) == Text(p.will[1].topic) \o AfterTopic(p)
AfterProps(v, p) == Text(p.clientId) \o (WillPart(v, p) \o UserPart(p))

\* Where the coroutine of each packet can be suspended: which field comes next, which fields were read,
\* what is left. The part of CONNECT and CONNACK that process_header reads with the block stays counted
\* in rem.
MidConnect(v, p, T) ==
  \/ pc = "flags" /\ Spot(Nothing, Body(v, p), T, 0, {10}) /\ buf # <<>>
  \/ v = 5 /\ AtProps("props", p, {"flags", "keepAlive"}, AfterProps(v, p), T, 10, {})
  \/ pc = "clientId" /\ Spot(Filled(p, {"flags", "keepAlive", "props"}), AfterProps(v, p), T, 10, {})
  \/ p.will # <<>> /\ v = 5 /\ AtProps("willProps", p, Opening, AfterWillProps(p), T, 10, {})
  \/ p.will # <<>> /\ pc = "willTopic" /\ Spot(Filled(p, Opening \cup {"willProps"}), AfterWillProps(p), T, 10, {})
  \/ p.will # <<>> /\ pc = "willMessage"
       /\ Spot(Filled(p, Opening \cup {"willProps", "willTopic"}), AfterTopic(p), T, 10, {})
  \/ p.user # <<>> /\ pc = "user" /\ Spot(Filled(p, Opening \cup WillFields(p)), UserPart(p), T, 10, {})
  \/ p.password # <<>> /\ pc = "password"
       /\ Spot(Filled(p, Opening \cup WillFields(p) \cup {"user"}), Texts(p.password), T, 10, {})

MidConnack(v, p, T) ==
  \/ pc = "flags" /\ Spot(Nothing, Body(v, p), T, 0, {2}) /\ buf # <<>>
  \/ v = 5 /\ AtProps("props", p, {"sessionPresent", "reason"}, <<>>, T, 2, {})

MidPublish(v, p, T) ==
  \/ pc = "topic" /\ Spot(Nothing, Body(v, p), T, 0, {})
  \/ p.qos # 0 /\ pc = "id" /\ Spot(Filled(p, {"topic"}), PublishId(p) \o (PropBytes(v, p.props) \o p.payload), T, 0, {})
  \/ v = 5 /\ AtProps("props", p, {"topic", "id"}, p.payload, T, 0, {})
  \/ pc = "payload" /\ Spot(Filled(p, {"topic", "id", "props"}), p.payload, T, 0, {})

MidAck(v, p, T) ==
  \/ pc = "id" /\ Spot(Nothing, Body(v, p), T, 0, {2})
  \/ p.reason # 0 /\ pc = "reason" /\ Spot(Filled(p, {"id"}), ReasonPart(p), T, 0, {})
  \/ p.reason # 0 /\ p.props # <<>> /\ AtProps("props", p, {"id", "reason"}, <<>>, T, 0, {})

MidSubscribe(v, p, T) ==
  \/ pc = "id" /\ Spot(Nothing, Body(v, p), T, 0, {2})
  \/ v = 5 /\ AtProps("props", p, {"id"}, FlattenSeq(FilterPieces(p)), T, 0, {})
  \/ pc = "filters" /\ \E j \in 0..Len(p.filters) :
       j < Len(p.filters) /\ Spot(Listed(p, j, j), RestOf(FilterPieces(p), j), T, 0, {})
  \/ pc = "options" /\ \E j \in 0..Len(p.filters) :
       /\ j < Len(p.filters)
       /\ Spot(Listed(p, j + 1, j), <<p.options[j + 1]>> \o RestOf(FilterPieces(p), j + 1), T, 0, {})

MidUnsubscribe(v, p, T) ==
  \/ pc = "id" /\ Spot(Nothing, Body(v, p), T, 0, {2})
  \/ v = 5 /\ AtProps("props", p, {"id"}, Texts(p.filters), T, 0, {})
  \/ pc = "filters" /\ \E j \in 0..Len(p.filters) :
       /\ j < Len(p.filters)
       /\ Spot(Partly(p, {"id", "props"}, "filters", j), RestOf(TextPieces(p.filters), j), T, 0, {})

MidSuback(v, p, T) ==
  \/ pc = "id" /\ Spot(Nothing, Body(v, p), T, 0, {2})
  \/ v = 5 /\ AtProps("props", p, {"id"}, p.codes, T, 0, {})
  \/ (v = 5 \/ p.type = "suback") /\ pc = "codes" /\ Spot(Filled(p, {"id", "props"}), p.codes, T, 0, {})

MidEnding(v, p, T) ==
  /\ p.reason # 0
  /\ \/ pc = "reason" /\ Spot(Nothing, Body(v, p), T, 0, {2})
     \/ AtProps("props", p, {"reason"}, <<>>, T, 0, {1})

\* The coroutine of the packet is suspended.
Mid(v, p, T) ==
  \/ p.type = "connect" /\ MidConnect(v, p, T)
  \/ p.type = "connack" /\ MidConnack(v, p, T)
  \/ p.type = "publish" /\ MidPublish(v, p, T)
  \/ p.type \in Acks /\ MidAck(v, p, T)
  \/ p.type = "subscribe" /\ MidSubscribe(v, p, T)
  \/ p.type = "unsubscribe" /\ MidUnsubscribe(v, p, T)
  \/ p.type \in {"suback", "unsuback"} /\ MidSuback(v, p, T)
  \/ p.type \in {"disconnect", "auth"} /\ MidEnding(v, p, T)
\* The packet was read to its end, and nothing but it.
Done(v, p, T) == pc = "done" /\ Spot(Filled(p, AllFields(v, p)), <<>>, T, Uncounted(p), {})

\* No packet is being read.
Idle == buf = <<>> /\ left = 0 /\ got = Nothing
\* The reader is at packet p of version v, and T is what the sender has put behind it.
ReadingPacket(v, p, T) ==
  \/ /\ pc = "length" /\ Idle /\ header = HeaderOf(p)
     /\ stream = VarBytes(Len(Body(v, p))) \o (Body(v, p) \o T)
  \/ /\ pc = "block" /\ Idle /\ header = HeaderOf(p) /\ rem = Len(Body(v, p)) /\ rem # 0
     /\ stream = Body(v, p) \o T
  \/ header = HeaderOf(p) /\ (Mid(v, p, T) \/ Done(v, p, T))

-----------------------------------------------------------------------------
\* A read.

\* What every read does with what it took.
Moves(taken, field) ==
  LET ok == taken.status = "ok"
      cursor == IF ok THEN taken.cursor ELSE Cursor
  IN /\ taken.status # "wait"
     /\ stream' = cursor.stream /\ buf' = cursor.buf /\ rem' = cursor.rem /\ left' = cursor.left
     /\ UNCHANGED <<config, sender, known, mqttConnected, header, last>>
     /\ got' = With(field, taken)

\* The cursor is the state of the reader.
LEMMA CursorIs ==
  /\ Cursor.stream = stream /\ Cursor.buf = buf /\ Cursor.rem = rem /\ Cursor.left = left
  /\ Cursor = [stream |-> stream, buf |-> buf, rem |-> rem, left |-> left]
BY DEF Cursor

\* What the reader's state is behind a read.
LEMMA MovesTo ==
  ASSUME NEW CONSTANT d, NEW CONSTANT val, NEW CONSTANT R, NEW CONSTANT T, NEW CONSTANT g, NEW CONSTANT f,
         got = g, Placed(d, R, T), Moves(Took(d, val), f)
  PROVE  /\ stream' = d.stream /\ buf' = d.buf /\ rem' = d.rem /\ left' = d.left
         /\ got' = [g EXCEPT ![f] = Append(@, val)]
         /\ Placed(Cursor, R, T)'
         /\ UNCHANGED <<config, sender, known, mqttConnected, header, last>>
<1> DEFINE t == Took(d, val)
<1>1. t.status = "ok" /\ t.cursor = d /\ t.value = val
  BY TookIs
<1>2. /\ stream' = d.stream /\ buf' = d.buf /\ rem' = d.rem /\ left' = d.left
      /\ UNCHANGED <<config, sender, known, mqttConnected, header, last>>
      /\ got' = With(f, t)
  BY <1>1, Zenon DEF Moves
<1>3. got' = [g EXCEPT ![f] = Append(@, val)]
  BY <1>1, <1>2, Zenon DEF With
<1>4. d = [stream |-> d.stream, buf |-> d.buf, rem |-> d.rem, left |-> d.left]
  BY Zenon DEF Placed
<1>5. Cursor' = d
  BY <1>2, <1>4, Zenon DEF Cursor
<1>6. Placed(Cursor, R, T)'
  BY <1>5
<1> QED BY <1>1, <1>2, <1>3, <1>6

\* Behind a read, the reader is where the next field begins.
LEMMA SpotIs ==
  ASSUME NEW CONSTANT g, NEW CONSTANT R \in Seq(Byte), NEW CONSTANT T, NEW CONSTANT x, NEW CONSTANT N,
         left' = 0, got' = g, Placed(Cursor, R, T)', rem' = Len(R) + x, Len(buf') \in {0, Len(R)} \cup N
  PROVE  Spot(g, R, T, x, N)'
BY Zenon DEF Spot

\* The blocks of the sizes in N hold n bytes, and then are of the sizes in M.
Blocks(N, n, M) == \A m \in N : m \in Nat /\ m >= n /\ m - n \in {0} \cup M

\* No block is of an odd size.
LEMMA NoBlocks ==
  ASSUME NEW n, NEW M
  PROVE  Blocks({}, n, M)
BY DEF Blocks

\* What is known before a read of X.
LEMMA SpotFits ==
  ASSUME NEW CONSTANT g, NEW CONSTANT X \in Seq(Byte), NEW CONSTANT R \in Seq(Byte), NEW CONSTANT T \in Seq(Byte),
         NEW CONSTANT x \in Nat, NEW CONSTANT N, NEW CONSTANT M, Blocks(N, Len(X), M),
         Spot(g, X \o R, T, x, N)
  PROVE  /\ Placed(Cursor, X \o R, T) /\ Fits(Cursor, Len(X)) /\ left = 0 /\ got = g
         /\ rem = Len(X) + Len(R) + x /\ Len(X) \in Nat /\ Len(R) \in Nat
         /\ Len(buf) \in {0, Len(X) + Len(R)} \cup N /\ buf \in Seq(Byte)
<1>1. /\ left = 0 /\ got = g /\ Placed(Cursor, X \o R, T) /\ rem = Len(X \o R) + x
      /\ Len(buf) \in {0, Len(X \o R)} \cup N
  BY Zenon DEF Spot
<1>2. Len(X \o R) = Len(X) + Len(R) /\ Len(X) \in Nat /\ Len(R) \in Nat
  BY OfJoined
<1>3. Cursor.buf \in Seq(Byte)
  BY <1>1, Zenon DEF Placed
<1>4. buf \in Seq(Byte)
  BY <1>3, CursorIs, Zenon
<1>5. Len(buf) = 0 \/ Len(X) <= Len(buf)
  <2> DEFINE b == Len(buf)
             k == Len(X)
             l == Len(R)
  <2>1. b \in {0, k + l} \cup N /\ k \in Nat /\ l \in Nat /\ (\A n \in N : n \in Nat /\ n >= k)
    BY <1>1, <1>2 DEF Blocks
  <2> HIDE DEF b, k, l
  <2>2. b = 0 \/ k <= b
    BY ONLY <2>1
  <2> QED BY <2>2 DEF b, k
<1>6. Fits(Cursor, Len(X))
  BY <1>3, <1>5, CursorIs, FitsIs, Zenon
<1> QED BY <1>1, <1>2, <1>4, <1>6

\* A read of X, at the beginning of what is left.
LEMMA OneRead ==
  ASSUME NEW CONSTANT g, NEW CONSTANT X \in Seq(Byte), NEW CONSTANT R \in Seq(Byte), NEW CONSTANT T \in Seq(Byte),
         NEW CONSTANT x \in Nat, NEW CONSTANT N, NEW CONSTANT M,
         Blocks(N, Len(X), M),
         Spot(g, X \o R, T, x, N), NEW CONSTANT d, Placed(d, R, T), Advanced(Cursor, d, Len(X)),
         NEW CONSTANT val, NEW CONSTANT f, Moves(Took(d, val), f)
  PROVE  /\ Took(d, val).status = "ok" /\ Took(d, val).cursor.rem = Len(R) + x
         /\ Spot([g EXCEPT ![f] = Append(@, val)], R, T, x, M)'
         /\ UNCHANGED <<config, sender, known, mqttConnected, header, last>>
<1>1. Blocks(N, Len(X), M)
  OBVIOUS
<1>2. /\ left = 0 /\ got = g /\ rem = Len(X) + Len(R) + x /\ Len(X) \in Nat /\ Len(R) \in Nat
      /\ Len(buf) \in {0, Len(X) + Len(R)} \cup N /\ buf \in Seq(Byte)
  BY <1>1, SpotFits, SMT
<1>3. /\ stream' = d.stream /\ buf' = d.buf /\ rem' = d.rem /\ left' = d.left
      /\ got' = [g EXCEPT ![f] = Append(@, val)]
      /\ Placed(Cursor, R, T)'
      /\ UNCHANGED <<config, sender, known, mqttConnected, header, last>>
  BY <1>2, MovesTo
<1>4. d.rem = rem - Len(X) /\ d.left = left /\ Len(d.buf) = IF Len(X) <= Len(buf) THEN Len(buf) - Len(X) ELSE 0
  BY CursorIs, Zenon DEF Advanced
<1>5. d.rem = Len(R) + x /\ Len(d.buf) \in {0, Len(R)} \cup M
  <2> DEFINE b == Len(buf)
             k == Len(X)
             l == Len(R)
             dr == d.rem
             db == Len(d.buf)
             r == rem
  <2>1. /\ b \in {0, k + l} \cup N /\ k \in Nat /\ l \in Nat /\ b \in Nat
        /\ r = k + l + x /\ x \in Nat /\ dr = r - k /\ db = IF k <= b THEN b - k ELSE 0
        /\ \A n \in N : n \in Nat /\ n >= k /\ n - k \in {0} \cup M
    BY <1>2, <1>4, LenProperties DEF Blocks
  <2> HIDE DEF b, k, l, dr, db, r
  <2>2. dr = l + x /\ db \in {0, l} \cup M
    BY ONLY <2>1
  <2> QED BY <2>2 DEF dr, db, l
<1>6. left' = 0 /\ rem' = Len(R) + x /\ Len(buf') \in {0, Len(R)} \cup M
  BY <1>2, <1>3, <1>4, <1>5
<1>7. Spot([g EXCEPT ![f] = Append(@, val)], R, T, x, M)'
  BY <1>3, <1>6, SpotIs
<1> QED BY <1>3, <1>5, <1>7, TookIs

\* A text is read.
LEMMA TextStep ==
  ASSUME NEW CONSTANT g, NEW CONSTANT s \in Strings, NEW CONSTANT R \in Seq(Byte), NEW CONSTANT T \in Seq(Byte),
         NEW CONSTANT x \in Nat, NEW CONSTANT f,
         Spot(g, Text(s) \o R, T, x, {}), Moves(TakeText(Cursor), f)
  PROVE  /\ TakeText(Cursor).status = "ok" /\ TakeText(Cursor).cursor.rem = Len(R) + x
         /\ Spot([g EXCEPT ![f] = Append(@, s)], R, T, x, {})'
         /\ UNCHANGED <<config, sender, known, mqttConnected, header, last>>
<1> DEFINE X == Text(s)
           t == TakeText(Cursor)
<1>1. X \in Seq(Byte)
  BY TextIs
<1>4. Spot(g, X \o R, T, x, {}) /\ Moves(t, f) /\ Blocks({}, Len(X), {})
  BY NoBlocks, Zenon
<1>2. Placed(Cursor, X \o R, T) /\ Fits(Cursor, Len(X))
  <2> HIDE DEF X
  <2> QED BY <1>1, <1>4, SpotFits, Zenon
<1>3. PICK d : t = Took(d, s) /\ Placed(d, R, T) /\ Advanced(Cursor, d, Len(X))
  BY <1>2, TakesText, Zenon
<1>5. Moves(Took(d, s), f)
  BY <1>3, <1>4
<1> HIDE DEF X
<1>6. /\ Took(d, s).status = "ok" /\ Took(d, s).cursor.rem = Len(R) + x
      /\ Spot([g EXCEPT ![f] = Append(@, s)], R, T, x, {})'
      /\ UNCHANGED <<config, sender, known, mqttConnected, header, last>>
  BY <1>1, <1>3, <1>4, <1>5, OneRead, Zenon
<1> QED BY <1>3, <1>6

\* A packet id is read.
LEMMA IdStep ==
  ASSUME NEW CONSTANT g, NEW CONSTANT i \in Ids, NEW CONSTANT R \in Seq(Byte), NEW CONSTANT T \in Seq(Byte),
         NEW CONSTANT f, NEW CONSTANT N, N \in SUBSET {2},
         Spot(g, BigEndian(i, 2) \o R, T, 0, N), Moves(TakePacketId(Cursor), f)
  PROVE  /\ TakePacketId(Cursor).status = "ok" /\ TakePacketId(Cursor).cursor.rem = Len(R)
         /\ Spot([g EXCEPT ![f] = Append(@, i)], R, T, 0, {})'
         /\ UNCHANGED <<config, sender, known, mqttConnected, header, last>>
<1> DEFINE X == BigEndian(i, 2)
           t == TakePacketId(Cursor)
<1>1. X \in Seq(Byte) /\ Len(X) = 2
  BY IdsAreTwoBytes, WiredId, Zenon DEF Wired
<1>2. 0 \in Nat /\ Blocks(N, Len(X), {})
  <2>1. \A n \in N : n \in Nat /\ n >= 2 /\ n - 2 = 0
    OBVIOUS
  <2> HIDE DEF X
  <2> QED BY <1>1, <2>1 DEF Blocks
<1>3. Placed(Cursor, X \o R, T) /\ Fits(Cursor, Len(X))
  BY <1>1, <1>2, SpotFits, Zenon
<1>4. Fits(Cursor, 2)
  BY <1>1, <1>3
<1>5. t = Took(Past(Cursor, 2), i) /\ Placed(Past(Cursor, 2), R, T) /\ Advanced(Cursor, Past(Cursor, 2), 2)
  BY <1>3, <1>4, TakesPacketId, Zenon
<1>6. PICK d : t = Took(d, i) /\ Placed(d, R, T) /\ Advanced(Cursor, d, Len(X))
  BY <1>1, <1>5, Zenon
<1>7. Spot(g, X \o R, T, 0, N) /\ Moves(t, f)
  OBVIOUS
<1> HIDE DEF X
<1>10. Moves(Took(d, i), f)
  BY <1>6, <1>7
<1>8. /\ Took(d, i).status = "ok" /\ Took(d, i).cursor.rem = Len(R) + 0
      /\ Spot([g EXCEPT ![f] = Append(@, i)], R, T, 0, {})'
      /\ UNCHANGED <<config, sender, known, mqttConnected, header, last>>
  BY <1>1, <1>2, <1>6, <1>7, <1>10, OneRead, Zenon
<1>9. Len(R) + 0 = Len(R)
  BY LenProperties
<1> QED BY <1>6, <1>8, <1>9

\* A byte is read.
LEMMA ByteStep ==
  ASSUME NEW CONSTANT g, NEW CONSTANT b \in Byte, NEW CONSTANT R \in Seq(Byte), NEW CONSTANT T \in Seq(Byte),
         NEW CONSTANT f, NEW CONSTANT N, NEW CONSTANT M, Blocks(N, 1, M),
         Spot(g, <<b>> \o R, T, 0, N), Moves(TakeByte(Cursor), f)
  PROVE  /\ TakeByte(Cursor).status = "ok" /\ TakeByte(Cursor).cursor.rem = Len(R)
         /\ Spot([g EXCEPT ![f] = Append(@, b)], R, T, 0, M)'
         /\ UNCHANGED <<config, sender, known, mqttConnected, header, last>>
<1> DEFINE X == <<b>>
           t == TakeByte(Cursor)
<1>1. X \in Seq(Byte) /\ Len(X) = 1
  BY IsOneSeq
<1>2. Spot(g, X \o R, T, 0, N) /\ Moves(t, f)
  OBVIOUS
<1>11. Spot(g, <<b>> \o R, T, 0, N)
  OBVIOUS
<1> HIDE DEF X
<1>3. 0 \in Nat /\ Blocks(N, Len(X), M)
  BY <1>1
<1>4. Placed(Cursor, X \o R, T) /\ Fits(Cursor, Len(X))
  BY <1>1, <1>2, <1>3, SpotFits, Zenon
<1>5. Placed(Cursor, <<b>> \o R, T) /\ Fits(Cursor, 1)
  BY <1>1, <1>4 DEF X
<1>6. t = Took(Past(Cursor, 1), b) /\ Placed(Past(Cursor, 1), R, T) /\ Advanced(Cursor, Past(Cursor, 1), 1)
  BY <1>5, TakesByte, Zenon
<1>7. PICK d : t = Took(d, b) /\ Placed(d, R, T) /\ Advanced(Cursor, d, Len(X))
  BY <1>1, <1>6, Zenon
<1>10. Moves(Took(d, b), f)
  BY <1>2, <1>7
<1>8. /\ Took(d, b).status = "ok" /\ Took(d, b).cursor.rem = Len(R) + 0
      /\ Spot([g EXCEPT ![f] = Append(@, b)], R, T, 0, M)'
      /\ UNCHANGED <<config, sender, known, mqttConnected, header, last>>
  BY <1>1, <1>2, <1>3, <1>7, <1>10, OneRead, Zenon
<1>9. Len(R) + 0 = Len(R)
  BY LenProperties
<1> QED BY <1>7, <1>8, <1>9

\* All that is left is read.
LEMMA RestStep ==
  ASSUME NEW CONSTANT g, NEW CONSTANT R \in Seq(Byte), NEW CONSTANT T \in Seq(Byte), NEW CONSTANT f,
         Spot(g, R, T, 0, {}), Moves(TakeRest(Cursor), f)
  PROVE  /\ TakeRest(Cursor).status = "ok"
         /\ Spot([g EXCEPT ![f] = Append(@, R)], <<>>, T, 0, {})'
         /\ UNCHANGED <<config, sender, known, mqttConnected, header, last>>
<1> DEFINE E == <<>>
           t == TakeRest(Cursor)
<1>1. R \o E = R /\ E \in Seq(Byte) /\ Len(E) = 0
  BY WiredEmpty, Zenon DEF Wired
<1> HIDE DEF E
<1>2. Spot(g, R \o E, T, 0, {}) /\ Moves(t, f)
  BY <1>1
<1>3. 0 \in Nat /\ Blocks({}, Len(R), {})
  BY NoBlocks, Zenon
<1>12. R \in Seq(Byte) /\ T \in Seq(Byte) /\ E \in Seq(Byte)
  BY <1>1
<1>4. Placed(Cursor, R \o E, T) /\ Fits(Cursor, Len(R)) /\ rem = Len(R) + Len(E) + 0 /\ Len(R) \in Nat
  BY ONLY <1>2, <1>3, <1>12, SpotFits
<1>5. Placed(Cursor, R, T) /\ Cursor.rem = Len(R)
  BY <1>1, <1>4, CursorIs, SMT
<1>6. t = Took(Past(Cursor, Len(R)), R) /\ Placed(Past(Cursor, Len(R)), E, T)
      /\ Advanced(Cursor, Past(Cursor, Len(R)), Len(R))
  BY <1>4, <1>5, TakesRest, Zenon DEF E
<1>7. PICK d : t = Took(d, R) /\ Placed(d, E, T) /\ Advanced(Cursor, d, Len(R))
  BY <1>6, Zenon
<1>10. Moves(Took(d, R), f)
  BY <1>2, <1>7
<1>8. /\ Took(d, R).status = "ok" /\ Took(d, R).cursor.rem = Len(E) + 0
      /\ Spot([g EXCEPT ![f] = Append(@, R)], E, T, 0, {})'
      /\ UNCHANGED <<config, sender, known, mqttConnected, header, last>>
  BY <1>2, <1>3, <1>7, <1>10, <1>12, OneRead, Zenon
<1> QED BY <1>7, <1>8 DEF E

-----------------------------------------------------------------------------
\* The fields that were read.

\* One more value of a field.
Appended(g, f, v) == [g EXCEPT ![f] = Append(@, v)]

\* No field was read.
LEMMA FilledEmpty ==
  ASSUME NEW p
  PROVE  Filled(p, {}) = Nothing
BY Zenon DEF Filled, Nothing

\* A field of one value is read.
LEMMA FilledMore ==
  ASSUME NEW p, NEW S, NEW f \in Fields, f \notin S, NEW v, Value(p, f) = <<v>>
  PROVE  Appended(Filled(p, S), f, v) = Filled(p, S \cup {f})
<1> DEFINE g == Filled(p, S)
           h == Filled(p, S \cup {f})
           V(e) == Value(p, e)
           W(e) == IF e \in S THEN V(e) ELSE <<>>
<1>1. g = [e \in Fields |-> W(e)] /\ W(f) = <<>>
  BY Zenon DEF Filled
<1>2. h = [e \in Fields |-> IF e = f THEN <<v>> ELSE W(e)]
  <2>1. \A e \in Fields : (IF e \in S \cup {f} THEN V(e) ELSE <<>>) = IF e = f THEN <<v>> ELSE W(e)
    OBVIOUS
  <2> QED BY <2>1, Zenon DEF Filled
<1>3. Append(<<>>, v) = <<v>>
  OBVIOUS
<1>4. g[f] = <<>>
  BY <1>1, Zenon
<1> HIDE DEF g, h, V, W
<1>5. [g EXCEPT ![f] = Append(@, v)] = [g EXCEPT ![f] = <<v>>]
  BY <1>3, <1>4
<1>6. [g EXCEPT ![f] = <<v>>] = h
  BY <1>1, <1>2
<1>7. Appended(g, f, v) = h
  BY <1>5, <1>6 DEF Appended
<1> QED BY <1>7 DEF g, h

\* A field without a value is not read.
LEMMA FilledSame ==
  ASSUME NEW p, NEW S, NEW f, Value(p, f) = <<>>
  PROVE  Filled(p, S \cup {f}) = Filled(p, S)
<1>1. \A e \in Fields : (IF e \in S \cup {f} THEN Value(p, e) ELSE <<>>) = IF e \in S THEN Value(p, e) ELSE <<>>
  OBVIOUS
<1> QED BY <1>1, Zenon DEF Filled

\* No value of a field of several was read.
LEMMA PartlyNone ==
  ASSUME NEW p, NEW S, NEW f \in Fields, f \notin S, NEW Q, Value(p, f) \in Seq(Q)
  PROVE  Partly(p, S, f, 0) = Filled(p, S)
<1> DEFINE V == Value(p, f)
           g == Filled(p, S)
           h == Filled(p, S \cup {f})
           U(e) == Value(p, e)
           W(e) == IF e \in S THEN U(e) ELSE <<>>
<1>1. g = [e \in Fields |-> W(e)] /\ W(f) = <<>>
  BY Zenon DEF Filled
<1>2. h = [e \in Fields |-> IF e = f THEN V ELSE W(e)]
  <2>1. \A e \in Fields : (IF e \in S \cup {f} THEN U(e) ELSE <<>>) = IF e = f THEN V ELSE W(e)
    OBVIOUS
  <2> QED BY <2>1, Zenon DEF Filled
<1>3. First(V, 0) = <<>> /\ First(V, Len(V)) = V
  BY BehindEnds, Zenon
<1>4. /\ Partly(p, S, f, 0) = [g EXCEPT ![f] = First(V, 0)]
      /\ Partly(p, S, f, Len(V)) = [g EXCEPT ![f] = First(V, Len(V))]
  BY DEF Partly
<1> HIDE DEF g, h, U, W, V
<1>5. [g EXCEPT ![f] = <<>>] = g
  BY <1>1
<1>6. [g EXCEPT ![f] = V] = h
  BY <1>1, <1>2
<1> QED BY <1>3, <1>4, <1>5, <1>6 DEF g, h, V

\* All of them were read.
LEMMA PartlyAll ==
  ASSUME NEW p, NEW S, NEW f \in Fields, f \notin S, NEW Q, Value(p, f) \in Seq(Q)
  PROVE  Partly(p, S, f, Len(Value(p, f))) = Filled(p, S \cup {f})
<1> DEFINE V == Value(p, f)
           g == Filled(p, S)
           h == Filled(p, S \cup {f})
           U(e) == Value(p, e)
           W(e) == IF e \in S THEN U(e) ELSE <<>>
<1>1. g = [e \in Fields |-> W(e)] /\ W(f) = <<>>
  BY Zenon DEF Filled
<1>2. h = [e \in Fields |-> IF e = f THEN V ELSE W(e)]
  <2>1. \A e \in Fields : (IF e \in S \cup {f} THEN U(e) ELSE <<>>) = IF e = f THEN V ELSE W(e)
    OBVIOUS
  <2> QED BY <2>1, Zenon DEF Filled
<1>3. First(V, 0) = <<>> /\ First(V, Len(V)) = V
  BY BehindEnds, Zenon
<1>4. /\ Partly(p, S, f, 0) = [g EXCEPT ![f] = First(V, 0)]
      /\ Partly(p, S, f, Len(V)) = [g EXCEPT ![f] = First(V, Len(V))]
  BY DEF Partly
<1> HIDE DEF g, h, U, W, V
<1>5. [g EXCEPT ![f] = <<>>] = g
  BY <1>1
<1>6. [g EXCEPT ![f] = V] = h
  BY <1>1, <1>2
<1> QED BY <1>3, <1>4, <1>5, <1>6 DEF g, h, V

\* One more of them was read.
LEMMA PartlyNext ==
  ASSUME NEW p, NEW S, NEW f \in Fields, f \notin S, NEW Q, Value(p, f) \in Seq(Q),
         NEW j \in Nat, j < Len(Value(p, f))
  PROVE  Appended(Partly(p, S, f, j), f, Value(p, f)[j + 1]) = Partly(p, S, f, j + 1)
<1> DEFINE V == Value(p, f)
           g == Filled(p, S)
           U(e) == Value(p, e)
           W(e) == IF e \in S THEN U(e) ELSE <<>>
           a == First(V, j)
           b == First(V, j + 1)
           e == Value(p, f)[j + 1]
           k == Partly(p, S, f, j)
<1>1. g = [d \in Fields |-> W(d)]
  BY Zenon DEF Filled
<1>2. b = Append(a, e)
  BY BehindNext, Zenon
<1>3. k = [g EXCEPT ![f] = a] /\ Partly(p, S, f, j + 1) = [g EXCEPT ![f] = b]
  BY DEF Partly
<1> HIDE DEF g, U, W, a, b, e, k
<1>4. k[f] = a
  BY <1>1, <1>3
<1>5. [k EXCEPT ![f] = Append(@, e)] = [k EXCEPT ![f] = b]
  BY <1>2, <1>4
<1>6. [k EXCEPT ![f] = b] = [g EXCEPT ![f] = b]
  BY ONLY <1>1, <1>3, f \in Fields
<1>7. Appended(k, f, e) = [g EXCEPT ![f] = b]
  BY <1>5, <1>6 DEF Appended
<1> QED BY <1>3, <1>7 DEF k, e

-----------------------------------------------------------------------------
\* Reads of properties.

\* What a read of properties does with what it took, but for its value.
Goes(taken, field, next) ==
  LET ok == taken.status = "ok"
      cursor == IF ok THEN taken.cursor ELSE Cursor
  IN /\ stream' = cursor.stream /\ buf' = cursor.buf /\ rem' = cursor.rem /\ left' = cursor.left
     /\ pc' = IF ok THEN (IF cursor.left = 0 THEN next ELSE field) ELSE "refused"
     /\ UNCHANGED <<config, sender, known, mqttConnected, header, last>>

\* What the reader's state is behind a read of properties.
LEMMA ProceedsTo ==
  ASSUME NEW CONSTANT d, NEW CONSTANT val, NEW CONSTANT R, NEW CONSTANT T, NEW CONSTANT f, NEW CONSTANT next,
         Placed(d, R, T), Goes(Took(d, val), f, next)
  PROVE  /\ stream' = d.stream /\ buf' = d.buf /\ rem' = d.rem /\ left' = d.left
         /\ pc' = IF left' = 0 THEN next ELSE f
         /\ Placed(Cursor, R, T)'
         /\ UNCHANGED <<config, sender, known, mqttConnected, header, last>>
<1> DEFINE t == Took(d, val)
<1>1. t.status = "ok" /\ t.cursor = d /\ t.value = val
  BY TookIs
<1>2. /\ stream' = d.stream /\ buf' = d.buf /\ rem' = d.rem /\ left' = d.left
      /\ pc' = IF d.left = 0 THEN next ELSE f
      /\ UNCHANGED <<config, sender, known, mqttConnected, header, last>>
  BY <1>1, Zenon DEF Goes
<1>4. d = [stream |-> d.stream, buf |-> d.buf, rem |-> d.rem, left |-> d.left]
  BY Zenon DEF Placed
<1>5. Cursor' = d
  BY <1>2, <1>4, Zenon DEF Cursor
<1>6. Placed(Cursor, R, T)'
  BY <1>5
<1>7. pc' = IF left' = 0 THEN next ELSE f
  BY <1>2
<1> QED BY <1>2, <1>6, <1>7

\* The pieces of the properties.
LEMMA PieceIs ==
  ASSUME NEW V \in Seq(PropertyValues)
  PROVE  /\ Pieces(V) \in Seq(Seq(Byte)) /\ Len(Pieces(V)) = Len(V) /\ Len(V) \in Nat
         /\ RestOf(Pieces(V), 0) = PropertyBytes(V) /\ RestOf(Pieces(V), Len(V)) = <<>>
         /\ Len(PropertyBytes(V)) = 0 => V = <<>>
         /\ \A j \in 0..Len(V) : RestOf(Pieces(V), j) \in Seq(Byte)
         /\ \A j \in 0..Len(V) : j # Len(V) =>
              /\ j + 1 \in 1..Len(V) /\ V[j + 1] \in PropertyValues
              /\ RestOf(Pieces(V), j) = Property(V[j + 1]).bytes \o RestOf(Pieces(V), j + 1)
              /\ RestOf(Pieces(V), j + 1) \in Seq(Byte) /\ Property(V[j + 1]).bytes \in Seq(Byte)
              /\ Len(RestOf(Pieces(V), j)) = Len(Property(V[j + 1]).bytes) + Len(RestOf(Pieces(V), j + 1))
              /\ Len(Property(V[j + 1]).bytes) >= 2 /\ Len(Property(V[j + 1]).bytes) \in Nat
              /\ Len(RestOf(Pieces(V), j + 1)) \in Nat
              /\ Len(RestOf(Pieces(V), j + 1)) = 0 => j + 1 = Len(V)
<1> DEFINE x == Pieces(V)
<1>1. /\ x \in Seq(Seq(Byte)) /\ Len(x) = Len(V) /\ Len(V) \in Nat
      /\ \A k \in 1..Len(V) : x[k] = Property(V[k]).bytes
      /\ PropertyBytes(V) = FlattenSeq(x)
  BY PiecesType, LenProperties, Zenon
<1>2. RestOf(x, 0) = PropertyBytes(V) /\ RestOf(x, Len(V)) = <<>>
  BY <1>1, RestEnds, Zenon
<1>3. \A j \in 0..Len(V) : RestOf(x, j) \in Seq(Byte) /\ Len(RestOf(x, j)) \in Nat
  BY <1>1, RestShorter, Zenon
<1>4. ASSUME NEW j \in 0..Len(V), j # Len(V)
      PROVE  /\ j + 1 \in 1..Len(V) /\ V[j + 1] \in PropertyValues
             /\ RestOf(x, j) = Property(V[j + 1]).bytes \o RestOf(x, j + 1)
             /\ RestOf(x, j + 1) \in Seq(Byte) /\ Property(V[j + 1]).bytes \in Seq(Byte)
             /\ Len(RestOf(x, j)) = Len(Property(V[j + 1]).bytes) + Len(RestOf(x, j + 1))
             /\ Len(Property(V[j + 1]).bytes) >= 2 /\ Len(Property(V[j + 1]).bytes) \in Nat
             /\ Len(RestOf(x, j + 1)) \in Nat
  <2>1. j \in Nat /\ j < Len(V) /\ j + 1 \in 1..Len(V)
    BY <1>1, <1>4, SMT
  <2>2. V[j + 1] \in PropertyValues
    BY <2>1, BehindNext, Zenon
  <2>3. x[j + 1] = Property(V[j + 1]).bytes
    BY <1>1, <2>1, Zenon
  <2>4. /\ RestOf(x, j) = x[j + 1] \o RestOf(x, j + 1)
        /\ RestOf(x, j + 1) \in Seq(Byte)
        /\ Len(RestOf(x, j)) = Len(x[j + 1]) + Len(RestOf(x, j + 1))
    <3>1. j < Len(x)
      BY <1>1, <2>1
    <3> QED BY <1>1, <2>1, <3>1, RestNext, Zenon
  <2> DEFINE b == Property(V[j + 1]).bytes
             l == Len(ValueBytes(V[j + 1]))
  <2>5. b \in Seq(Byte) /\ Len(b) = 1 + l /\ l \in Nat /\ l >= 1
    BY <2>2, PropertyIs, Zenon
  <2> HIDE DEF l, b
  <2>6. Len(b) >= 2 /\ Len(b) \in Nat
    BY ONLY <2>5, SMT
  <2>7. Len(RestOf(x, j + 1)) \in Nat
    BY <2>4, LenProperties, Zenon
  <2> QED BY <2>1, <2>2, <2>3, <2>4, <2>5, <2>6, <2>7, Zenon DEF b
<1> DEFINE l(j) == Len(RestOf(x, j))
           b(j) == Len(Property(V[j + 1]).bytes)
           n == Len(V)
<1>5. \A j \in 0..n : l(j) \in Nat
  BY <1>3, Zenon
<1>6. \A j \in 0..n : j # n => l(j) = b(j) + l(j + 1) /\ b(j) >= 2 /\ b(j) \in Nat /\ j + 1 \in 1..n /\ l(j + 1) \in Nat
  BY <1>4, Zenon
<1>7. n \in Nat
  BY <1>1
<1>8. n = 0 <=> V = <<>>
  BY EmptyIs, Zenon
<1>9. l(0) = Len(PropertyBytes(V))
  BY <1>2, Zenon
<1> HIDE DEF l, b, n
<1>10. \A j \in 0..n : l(j) = 0 => j = n
  BY ONLY <1>5, <1>6, <1>7
<1>11. \A j \in 0..n : j # n => (l(j + 1) = 0 => j + 1 = n)
  BY ONLY <1>6, <1>7, <1>10
<1>12. l(0) = 0 => n = 0
  BY ONLY <1>7, <1>10
<1>13. \A j \in 0..Len(V) : j # Len(V) => (Len(RestOf(x, j + 1)) = 0 => j + 1 = Len(V))
  BY <1>11, Zenon DEF l, n
<1>14. Len(PropertyBytes(V)) = 0 => V = <<>>
  BY <1>8, <1>9, <1>12, Zenon
<1> HIDE DEF x
<1> QED BY <1>1, <1>2, <1>3, <1>4, <1>13, <1>14, Zenon DEF x

\* The read of the length of the properties.
LEMMA PropsOpen ==
  ASSUME NEW CONSTANT p, NEW CONSTANT f \in Fields, NEW CONSTANT S, f \notin S,
         NEW CONSTANT A \in Seq(Byte), NEW CONSTANT T \in Seq(Byte), NEW CONSTANT x \in Nat, NEW CONSTANT N,
         N \in SUBSET {1}, NEW CONSTANT next, NEW CONSTANT V, V = Value(p, f), V \in Seq(PropertyValues),
         propsLimit \in Nat, Spot(Filled(p, S), Properties(V) \o A, T, x, N),
         Goes(TakePropertiesLength(Cursor), f, next), got' = got
  PROVE  /\ \/ pc' = f /\ Between(f, p, S, 0, A, T, x)'
            \/ pc' = next /\ Spot(Filled(p, S \cup {f}), A, T, x, {})'
         /\ UNCHANGED <<config, sender, known, mqttConnected, header, last>>
<1> DEFINE Q == PropertyBytes(V)
           w == VarBytes(Len(Q))
           t == TakePropertiesLength(Cursor)
           P == Properties(V)
<1>1. /\ left = 0 /\ got = Filled(p, S) /\ Placed(Cursor, P \o A, T) /\ rem = Len(P \o A) + x
      /\ Len(buf) \in {0, Len(P \o A)} \cup N
  BY Zenon DEF Spot
<1>2. PICK e : /\ t = Took(e, Len(Q)) /\ Placed(e, Q \o A, T)
               /\ e.rem = Cursor.rem - Len(w) /\ e.left = Len(Q)
               /\ \/ Len(e.buf) # 0 /\ Len(w) <= Len(Cursor.buf) /\ Len(e.buf) = Len(Cursor.buf) - Len(w)
                  \/ Len(Q) # 0 /\ Len(e.buf) \in {1, Len(Q)}
                  \/ Len(Q) = 0 /\ Len(e.buf) = 0
  <2>1. V \in Seq(PropertyValues) /\ A \in Seq(Byte) /\ T \in Seq(Byte) /\ propsLimit \in Nat
    OBVIOUS
  <2>2. Placed(Cursor, Properties(V) \o A, T)
    BY <1>1
  <2>3. PICK e : BlockTaken(Cursor, e, V, A, T)
    BY ONLY <2>1, <2>2, TakesPropertiesLength, Zenon
  <2> QED BY <2>3, Zenon DEF BlockTaken
<1>3. Goes(Took(e, Len(Q)), f, next)
  BY <1>2
<1>4. /\ stream' = e.stream /\ buf' = e.buf /\ rem' = e.rem /\ left' = e.left
      /\ pc' = IF left' = 0 THEN next ELSE f
      /\ Placed(Cursor, Q \o A, T)'
      /\ UNCHANGED <<config, sender, known, mqttConnected, header, last>>
  <2> DEFINE n == Len(Q)
             R == Q \o A
  <2>1. Placed(e, R, T)
    BY <1>2
  <2>2. Goes(Took(e, n), f, next)
    BY <1>3
  <2> HIDE DEF Q, n, R
  <2>3. /\ stream' = e.stream /\ buf' = e.buf /\ rem' = e.rem /\ left' = e.left
        /\ pc' = IF left' = 0 THEN next ELSE f
        /\ Placed(Cursor, R, T)'
        /\ UNCHANGED <<config, sender, known, mqttConnected, header, last>>
    BY <2>1, <2>2, ProceedsTo, Zenon
  <2> QED BY <2>3 DEF R
<1>5. /\ P = w \o Q /\ Q \in Seq(Byte) /\ Len(Q) \in Nat /\ w \in Seq(Byte) /\ P \in Seq(Byte) /\ Len(w) >= 1
      /\ Q = RestOf(Pieces(V), 0) /\ (Len(Q) = 0 => V = <<>>)
  <2>1. P = w \o Q /\ Q \in Seq(Byte) /\ Len(Q) \in Nat /\ P \in Seq(Byte)
    BY WiredProperties, Zenon DEF Wired
  <2>2. Q = RestOf(Pieces(V), 0) /\ (Len(Q) = 0 => V = <<>>)
    BY PieceIs, Zenon
  <2>3. Len(Q) < LengthLimit
    <3>1. Len(Q \o A) = Len(Q) + Len(A) /\ Len(A) \in Nat
      <4> HIDE DEF Q
      <4> QED BY <2>1, OfJoined
    <3>2. Len(Q \o A) < LengthLimit
      BY <1>2, Zenon DEF Placed
    <3> QED BY <2>1, <3>1, <3>2, LimitIs
  <2>4. w \in Seq(Byte) /\ Len(w) # 0 /\ Len(w) \in Nat
    <3> HIDE DEF Q
    <3> QED BY <2>1, <2>3, VariableBack
  <2> QED BY <2>1, <2>2, <2>4
<1>6. /\ Len(P \o A) = Len(w) + Len(Q) + Len(A) /\ Len(Q \o A) = Len(Q) + Len(A)
      /\ Len(A) \in Nat /\ Len(w) \in Nat /\ Q \o A \in Seq(Byte)
  <2> HIDE DEF Q, w
  <2>1. Len(w \o Q) = Len(w) + Len(Q) /\ w \o Q \in Seq(Byte)
    BY <1>5, OfJoined
  <2>2. Len(P \o A) = Len(P) + Len(A)
    BY <1>5, OfJoined
  <2> QED BY <1>5, <2>1, <2>2, OfJoined
<1>7. Cursor.rem = rem /\ Cursor.buf = buf /\ buf \in Seq(Byte)
  BY <1>1, CursorIs, Zenon DEF Placed
<1>8. rem' = Len(Q \o A) + x /\ Len(buf') \in {0, 1, Len(Q), Len(Q \o A)} /\ left' = Len(Q)
      /\ (Len(Q) = 0 => Len(buf') \in {0, Len(A)})
  <2> DEFINE r == rem
             r1 == rem'
             b == Len(buf)
             b1 == Len(buf')
             k == Len(w)
             n == Len(Q)
             l == Len(A)
             pa == Len(P \o A)
             qa == Len(Q \o A)
  <2>1. /\ r = pa + x /\ b \in {0, pa} \cup N /\ pa = k + n + l /\ qa = n + l
        /\ r1 = r - k
        /\ \/ b1 # 0 /\ k <= b /\ b1 = b - k
           \/ n # 0 /\ b1 \in {1, n}
           \/ n = 0 /\ b1 = 0
        /\ k \in Nat /\ k >= 1 /\ n \in Nat /\ l \in Nat /\ x \in Nat /\ N \subseteq {1}
    BY <1>1, <1>2, <1>4, <1>5, <1>6, <1>7
  <2> HIDE DEF r, r1, b, b1, k, n, l, pa, qa
  <2>2. r1 = qa + x /\ b1 \in {0, 1, n, qa} /\ (n = 0 => b1 \in {0, l})
    BY ONLY <2>1
  <2> QED BY <1>2, <1>4, <2>2 DEF r1, qa, b1, n, l
<1>9. CASE Len(Q) = 0
  <2>1. V = <<>>
    BY <1>5, <1>9
  <2>2. got' = Filled(p, S \cup {f})
    BY <1>1, <2>1, FilledSame
  <2>3. Q \o A = A
    <3>1. Q = <<>>
      BY <1>5, <1>9, EmptyIs
    <3> QED BY <3>1, WiredEmpty, Zenon
  <2> HIDE DEF Q
  <2>4. Placed(Cursor, A, T)' /\ rem' = Len(A) + x /\ left' = 0 /\ Len(buf') \in {0, Len(A)} \cup {}
    BY <1>4, <1>8, <1>9, <2>3
  <2>5. Spot(Filled(p, S \cup {f}), A, T, x, {})'
    BY <2>2, <2>4, SpotIs, Zenon
  <2>6. pc' = next
    BY <1>4, <2>4
  <2> QED BY <1>4, <2>5, <2>6
<1>10. CASE Len(Q) # 0
  <2>1. pc' = f /\ left' # 0
    BY <1>4, <1>8, <1>10
  <2>2. got' = Partly(p, S, f, 0)
    <3>1. Partly(p, S, f, 0) = Filled(p, S)
      BY PartlyNone
    <3> QED BY <1>1, <3>1
  <2> DEFINE X == RestOf(Pieces(V), 0)
  <2>6. X \o A \in Seq(Byte)
    BY <1>5, OfJoined
  <2> HIDE DEF Q, X
  <2>3. left' = Len(X) /\ Placed(Cursor, X \o A, T)' /\ rem' = Len(X \o A) + x
        /\ Len(buf') \in {0, 1, Len(X), Len(X \o A)}
    BY <1>4, <1>5, <1>8 DEF X
  <2>4. X = RestOf(Pieces(Value(p, f)), 0)
    BY DEF X
  <2>5. Between(f, p, S, 0, A, T, x)'
    BY <2>1, <2>2, <2>3, <2>4, <2>6, Zenon DEF Between
  <2> QED BY <1>4, <2>1, <2>5
<1> QED BY <1>9, <1>10

\* The read of a property.
LEMMA PropsNext ==
  ASSUME NEW CONSTANT p, NEW CONSTANT f \in Fields, NEW CONSTANT S, f \notin S,
         NEW CONSTANT A \in Seq(Byte), NEW CONSTANT T \in Seq(Byte), NEW CONSTANT x \in Nat,
         NEW CONSTANT next, NEW CONSTANT V, V = Value(p, f), V \in Seq(PropertyValues),
         NEW CONSTANT j \in 0..Len(V), Between(f, p, S, j, A, T, x),
         Goes(TakeProperty(Cursor), f, next), got' = With(f, TakeProperty(Cursor))
  PROVE  /\ \/ pc' = f /\ \E i \in 0..Len(V) : Between(f, p, S, i, A, T, x)'
            \/ pc' = next /\ Spot(Filled(p, S \cup {f}), A, T, x, {})'
         /\ UNCHANGED <<config, sender, known, mqttConnected, header, last>>
<1> DEFINE Q == RestOf(Pieces(V), j)
           B == Property(V[j + 1]).bytes
           Z == RestOf(Pieces(V), j + 1)
           t == TakeProperty(Cursor)
           q == V[j + 1]
<1>1. /\ left = Len(Q) /\ left # 0 /\ got = Partly(p, S, f, j)
      /\ Placed(Cursor, Q \o A, T) /\ rem = Len(Q \o A) + x
      /\ Len(buf) \in {0, 1, Len(Q), Len(Q \o A)}
  BY Zenon DEF Between
<1>2. j # Len(V)
  <2>1. RestOf(Pieces(V), Len(V)) = <<>>
    BY PieceIs, Zenon
  <2>2. Len(<<>>) = 0
    OBVIOUS
  <2> QED BY <1>1, <2>1, <2>2
<1>3. /\ j + 1 \in 1..Len(V) /\ q \in PropertyValues /\ Q = B \o Z
      /\ Z \in Seq(Byte) /\ B \in Seq(Byte) /\ Len(Q) = Len(B) + Len(Z)
      /\ Len(B) >= 2 /\ Len(B) \in Nat /\ Len(Z) \in Nat
      /\ (Len(Z) = 0 => j + 1 = Len(V))
  BY <1>2, PieceIs, ZenonT(30)
<1>4. j \in Nat /\ j < Len(V) /\ j + 1 \in 0..Len(V)
  BY <1>2, <1>3, LenProperties
<1>5. /\ [Partly(p, S, f, j) EXCEPT ![f] = Append(@, q)] = Partly(p, S, f, j + 1)
      /\ Partly(p, S, f, Len(V)) = Filled(p, S \cup {f})
  <2>1. f \in Fields /\ f \notin S /\ V = Value(p, f) /\ V \in Seq(PropertyValues)
    OBVIOUS
  <2>2. Partly(p, S, f, Len(V)) = Filled(p, S \cup {f})
    BY PartlyAll
  <2>3. Appended(Partly(p, S, f, j), f, V[j + 1]) = Partly(p, S, f, j + 1)
    BY <1>4, PartlyNext, Zenon
  <2> QED BY <2>2, <2>3 DEF Appended
<1>6. /\ Q \o A = B \o (Z \o A) /\ Z \o A \in Seq(Byte) /\ Len(Z \o A) = Len(Z) + Len(A) /\ Len(A) \in Nat
      /\ Len(Q \o A) = Len(B) + (Len(Z) + Len(A))
  <2>1. B \in Seq(Byte) /\ Z \in Seq(Byte) /\ A \in Seq(Byte) /\ Q = B \o Z
    BY <1>3
  <2> HIDE DEF B, Z, Q
  <2>2. (B \o Z) \o A = B \o (Z \o A)
    BY ONLY <2>1, AssociateBytes, SMTT(30)
  <2>3. Z \o A \in Seq(Byte) /\ Len(Z \o A) = Len(Z) + Len(A) /\ Len(A) \in Nat
    BY ONLY <2>1, OfJoined
  <2>4. Len(B \o (Z \o A)) = Len(B) + Len(Z \o A)
    BY ONLY <2>1, <2>3, OfJoined
  <2> QED BY <2>1, <2>2, <2>3, <2>4
<1>7. Cursor.rem = rem /\ Cursor.buf = buf /\ Cursor.left = left /\ buf \in Seq(Byte) /\ Len(buf) \in Nat
  BY <1>1, CursorIs, LenProperties, Zenon DEF Placed
<1> DEFINE r == rem
           b == Len(buf)
           l == left
           k == Len(B)
           z == Len(Z)
           a == Len(A)
           qa == Len(Q \o A)
           y == Len(Q)
           za == Len(Z \o A)
<1>8. /\ l = y /\ l # 0 /\ r = qa + x /\ b \in {0, 1, y, qa} /\ y = k + z /\ k >= 2 /\ k \in Nat /\ z \in Nat
      /\ a \in Nat /\ za = z + a /\ qa = k + (z + a) /\ x \in Nat
  BY <1>1, <1>3, <1>6, Zenon
<1> HIDE DEF r, b, l, k, z, a, qa, y, za
<1>9. k <= l /\ (b \in {0, 1} \/ k <= b)
  BY ONLY <1>8
<1>10. Len(B) <= Cursor.left /\ (Len(Cursor.buf) \in {0, 1} \/ Len(B) <= Len(Cursor.buf))
  BY <1>7, <1>9 DEF k, l, b
<1>11. PICK e : /\ t = Took(e, q) /\ Placed(e, Z \o A, T)
                /\ e.rem = Cursor.rem - Len(B) /\ e.left = Cursor.left - Len(B)
                /\ Len(e.buf) = IF Len(B) <= Len(Cursor.buf) THEN Len(Cursor.buf) - Len(B) ELSE 0
  <2>1. Placed(Cursor, B \o (Z \o A), T) /\ Z \o A \in Seq(Byte) /\ q \in PropertyValues /\ T \in Seq(Byte)
    BY <1>1, <1>3, <1>6
  <2> DEFINE ZA == Z \o A
  <2> HIDE DEF ZA
  <2>2. Placed(Cursor, Property(q).bytes \o ZA, T) /\ ZA \in Seq(Byte)
        /\ Len(Property(q).bytes) <= Cursor.left
        /\ (Len(Cursor.buf) \in {0, 1} \/ Len(Property(q).bytes) <= Len(Cursor.buf))
    BY <1>10, <2>1 DEF ZA
  <2> HIDE DEF q, t
  <2>3. \E e : /\ TakeProperty(Cursor) = Took(e, q) /\ Placed(e, ZA, T)
                /\ e.rem = Cursor.rem - Len(Property(q).bytes) /\ e.left = Cursor.left - Len(Property(q).bytes)
                /\ Len(e.buf) = IF Len(Property(q).bytes) <= Len(Cursor.buf)
                                THEN Len(Cursor.buf) - Len(Property(q).bytes) ELSE 0
    <3>1. PICK e : PropertyTaken(Cursor, e, q, ZA, T)
      BY ONLY <2>1, <2>2, TakesProperty, Zenon
    <3> QED BY <3>1, Zenon DEF PropertyTaken
  <2> QED BY <2>3 DEF ZA, q, t
<1>12. /\ stream' = e.stream /\ buf' = e.buf /\ rem' = e.rem /\ left' = e.left
       /\ pc' = IF left' = 0 THEN next ELSE f
       /\ Placed(Cursor, Z \o A, T)'
       /\ UNCHANGED <<config, sender, known, mqttConnected, header, last>>
  <2> DEFINE R == Z \o A
  <2>1. Placed(e, R, T)
    BY <1>11
  <2>2. Goes(Took(e, q), f, next)
    BY <1>11
  <2> HIDE DEF q, R
  <2>3. /\ stream' = e.stream /\ buf' = e.buf /\ rem' = e.rem /\ left' = e.left
        /\ pc' = IF left' = 0 THEN next ELSE f
        /\ Placed(Cursor, R, T)'
        /\ UNCHANGED <<config, sender, known, mqttConnected, header, last>>
    BY <2>1, <2>2, ProceedsTo, Zenon
  <2> QED BY <2>3 DEF R
<1>13. got' = Partly(p, S, f, j + 1)
  <2>1. t.status = "ok" /\ t.value = q
    BY <1>11, TookIs
  <2>2. got' = [got EXCEPT ![f] = Append(@, q)]
    BY <2>1, Zenon DEF With
  <2>3. got = Partly(p, S, f, j)
    BY <1>1
  <2> QED BY <1>5, <2>2, <2>3
<1>14. left' = z /\ rem' = za + x /\ Len(buf') \in {0, 1, z, za} /\ (z = 0 => Len(buf') \in {0, a})
  <2> DEFINE r1 == rem'
             b1 == Len(buf')
             l1 == left'
  <2>1. r1 = r - k /\ l1 = l - k /\ b1 = IF k <= b THEN b - k ELSE 0
    BY <1>7, <1>11, <1>12 DEF r, k, l, b
  <2>2. b \in Nat
    BY <1>7 DEF b
  <2> HIDE DEF r1, b1, l1
  <2>3. l1 = z /\ r1 = za + x /\ b1 \in {0, 1, z, za} /\ (z = 0 => b1 \in {0, a})
    BY ONLY <1>8, <2>1, <2>2
  <2> QED BY <2>3 DEF r1, b1, l1
<1>15. CASE z = 0
  <2>1. j + 1 = Len(V) /\ Z = <<>>
    BY <1>3, <1>15, EmptyIs DEF z
  <2>2. got' = Filled(p, S \cup {f})
    BY <1>5, <1>13, <2>1
  <2>3. Z \o A = A
    BY <2>1, WiredEmpty, Zenon
  <2>4. za = Len(A) /\ a = Len(A)
    BY <2>3 DEF za, a
  <2>5. Placed(Cursor, A, T)' /\ rem' = Len(A) + x /\ left' = 0 /\ Len(buf') \in {0, Len(A)} \cup {}
    BY <1>12, <1>14, <1>15, <2>3, <2>4
  <2>6. Spot(Filled(p, S \cup {f}), A, T, x, {})'
    BY <2>2, <2>5, SpotIs, Zenon
  <2>7. pc' = next
    BY <1>12, <2>5
  <2> QED BY <1>12, <2>6, <2>7
<1>16. CASE z # 0
  <2>1. pc' = f /\ left' # 0
    BY <1>12, <1>14, <1>16
  <2>3. left' = Len(Z) /\ Placed(Cursor, Z \o A, T)' /\ rem' = Len(Z \o A) + x
        /\ Len(buf') \in {0, 1, Len(Z), Len(Z \o A)}
    BY <1>12, <1>14 DEF z, za
  <2>4. Z = RestOf(Pieces(Value(p, f)), j + 1)
    OBVIOUS
  <2> HIDE DEF Z
  <2>5. Between(f, p, S, j + 1, A, T, x)'
    <3>1. Z \o A \in Seq(Byte)
      BY <1>6 DEF Z
    <3> QED BY <1>13, <2>1, <2>3, <2>4, <3>1, Zenon DEF Between
  <2> QED BY <1>4, <1>12, <2>1, <2>5
<1> QED BY <1>15, <1>16

\* A read of process_properties or process_property_id.
LEMMA PropsStep ==
  ASSUME NEW CONSTANT p, NEW CONSTANT f \in Fields, NEW CONSTANT S, f \notin S,
         NEW CONSTANT A \in Seq(Byte), NEW CONSTANT T \in Seq(Byte), NEW CONSTANT x \in Nat, NEW CONSTANT N,
         N \in SUBSET {1}, NEW CONSTANT next, Value(p, f) \in Seq(PropertyValues), propsLimit \in Nat,
         AtProps(f, p, S, A, T, x, N), ReadsProperties(f, next)
  PROVE  /\ AtProps(f, p, S, A, T, x, N)' \/ (pc' = next /\ Spot(Filled(p, S \cup {f}), A, T, x, {})')
         /\ UNCHANGED <<config, sender, known, mqttConnected, header, last>>
<1> DEFINE V == Value(p, f)
<1>1. \/ Spot(Filled(p, S), Properties(V) \o A, T, x, N)
      \/ \E j \in 0..Len(V) : Between(f, p, S, j, A, T, x)
  BY Zenon DEF AtProps
<1>2. CASE Spot(Filled(p, S), Properties(V) \o A, T, x, N)
  <2>1. left = 0
    BY <1>2, Zenon DEF Spot
  <2>2. Goes(TakePropertiesLength(Cursor), f, next) /\ got' = got
    BY <2>1, Zenon DEF ReadsProperties, Proceeds, Goes
  <2>3. V = Value(p, f) /\ V \in Seq(PropertyValues)
    OBVIOUS
  <2>4. \A i : Between(f, p, S, i, A, T, x)' /\ i \in 0..Len(V) /\ pc' = f => AtProps(f, p, S, A, T, x, N)'
    BY Zenon DEF AtProps
  <2>5. 0 \in 0..Len(V)
    BY LenProperties
  <2> HIDE DEF V
  <2>6. /\ \/ pc' = f /\ Between(f, p, S, 0, A, T, x)'
           \/ pc' = next /\ Spot(Filled(p, S \cup {f}), A, T, x, {})'
        /\ UNCHANGED <<config, sender, known, mqttConnected, header, last>>
    BY <1>2, <2>2, <2>3, PropsOpen, Zenon
  <2> QED BY <2>4, <2>5, <2>6, Zenon
<1>3. CASE \E j \in 0..Len(V) : Between(f, p, S, j, A, T, x)
  <2>1. PICK j \in 0..Len(V) : Between(f, p, S, j, A, T, x)
    BY <1>3
  <2>2. left # 0
    BY <2>1, Zenon DEF Between
  <2>3. Goes(TakeProperty(Cursor), f, next) /\ got' = With(f, TakeProperty(Cursor))
    BY <2>2, Zenon DEF ReadsProperties, Proceeds, Goes
  <2>4. V = Value(p, f) /\ V \in Seq(PropertyValues)
    OBVIOUS
  <2>5. \A i : Between(f, p, S, i, A, T, x)' /\ i \in 0..Len(V) /\ pc' = f => AtProps(f, p, S, A, T, x, N)'
    BY Zenon DEF AtProps
  <2> HIDE DEF V
  <2>6. /\ \/ pc' = f /\ \E i \in 0..Len(V) : Between(f, p, S, i, A, T, x)'
           \/ pc' = next /\ Spot(Filled(p, S \cup {f}), A, T, x, {})'
        /\ UNCHANGED <<config, sender, known, mqttConnected, header, last>>
    BY <2>1, <2>3, <2>4, PropsNext, Zenon
  <2> QED BY <2>5, <2>6, Zenon
<1> QED BY <1>1, <1>2, <1>3

-----------------------------------------------------------------------------
\* Reads of one value.

\* The reads of the fields of one value.
LEMMA TextRead ==
  ASSUME NEW CONSTANT p, NEW CONSTANT S, NEW CONSTANT f \in Fields, f \notin S, NEW CONSTANT U, U = S \cup {f},
         NEW CONSTANT s \in Strings, Value(p, f) = <<s>>,
         NEW CONSTANT R \in Seq(Byte), NEW CONSTANT T \in Seq(Byte), NEW CONSTANT x \in Nat,
         Spot(Filled(p, S), Text(s) \o R, T, x, {}), Moves(TakeText(Cursor), f)
  PROVE  /\ TakeText(Cursor).status = "ok" /\ TakeText(Cursor).cursor.rem = Len(R) + x
         /\ Spot(Filled(p, U), R, T, x, {})'
         /\ UNCHANGED <<config, sender, known, mqttConnected, header, last>>
<1> DEFINE g == Filled(p, S)
<1>1. Appended(g, f, s) = Filled(p, U)
  BY FilledMore
<1>2. Spot(g, Text(s) \o R, T, x, {})
  OBVIOUS
<1> HIDE DEF g
<1>3. /\ TakeText(Cursor).status = "ok" /\ TakeText(Cursor).cursor.rem = Len(R) + x
      /\ Spot([g EXCEPT ![f] = Append(@, s)], R, T, x, {})'
      /\ UNCHANGED <<config, sender, known, mqttConnected, header, last>>
  BY <1>2, TextStep, Zenon
<1>4. [g EXCEPT ![f] = Append(@, s)] = Filled(p, U)
  BY <1>1 DEF Appended
<1> QED BY <1>3, <1>4

\* The packet id.
LEMMA IdRead ==
  ASSUME NEW CONSTANT p, NEW CONSTANT S, NEW CONSTANT f \in Fields, f \notin S, NEW CONSTANT U, U = S \cup {f},
         NEW CONSTANT i \in Ids, Value(p, f) = <<i>>,
         NEW CONSTANT R \in Seq(Byte), NEW CONSTANT T \in Seq(Byte), NEW CONSTANT N, N \in SUBSET {2},
         Spot(Filled(p, S), BigEndian(i, 2) \o R, T, 0, N), Moves(TakePacketId(Cursor), f)
  PROVE  /\ TakePacketId(Cursor).status = "ok" /\ TakePacketId(Cursor).cursor.rem = Len(R)
         /\ Spot(Filled(p, U), R, T, 0, {})'
         /\ UNCHANGED <<config, sender, known, mqttConnected, header, last>>
<1> DEFINE g == Filled(p, S)
<1>1. Appended(g, f, i) = Filled(p, U)
  BY FilledMore
<1>2. Spot(g, BigEndian(i, 2) \o R, T, 0, N)
  OBVIOUS
<1> HIDE DEF g
<1>3. /\ TakePacketId(Cursor).status = "ok" /\ TakePacketId(Cursor).cursor.rem = Len(R)
      /\ Spot([g EXCEPT ![f] = Append(@, i)], R, T, 0, {})'
      /\ UNCHANGED <<config, sender, known, mqttConnected, header, last>>
  BY <1>2, IdStep, Zenon
<1>4. [g EXCEPT ![f] = Append(@, i)] = Filled(p, U)
  BY <1>1 DEF Appended
<1> QED BY <1>3, <1>4

\* A byte.
LEMMA ByteRead ==
  ASSUME NEW CONSTANT p, NEW CONSTANT S, NEW CONSTANT f \in Fields, f \notin S, NEW CONSTANT U, U = S \cup {f},
         NEW CONSTANT b \in Byte, Value(p, f) = <<b>>,
         NEW CONSTANT R \in Seq(Byte), NEW CONSTANT T \in Seq(Byte), NEW CONSTANT N, NEW CONSTANT M, Blocks(N, 1, M),
         Spot(Filled(p, S), <<b>> \o R, T, 0, N), Moves(TakeByte(Cursor), f)
  PROVE  /\ TakeByte(Cursor).status = "ok" /\ TakeByte(Cursor).cursor.rem = Len(R)
         /\ Spot(Filled(p, U), R, T, 0, M)'
         /\ UNCHANGED <<config, sender, known, mqttConnected, header, last>>
<1> DEFINE g == Filled(p, S)
<1>1. Appended(g, f, b) = Filled(p, U)
  BY FilledMore
<1>2. Spot(g, <<b>> \o R, T, 0, N)
  OBVIOUS
<1> HIDE DEF g
<1>3. /\ TakeByte(Cursor).status = "ok" /\ TakeByte(Cursor).cursor.rem = Len(R)
      /\ Spot([g EXCEPT ![f] = Append(@, b)], R, T, 0, M)'
      /\ UNCHANGED <<config, sender, known, mqttConnected, header, last>>
  BY <1>2, ByteStep, Zenon
<1>4. [g EXCEPT ![f] = Append(@, b)] = Filled(p, U)
  BY <1>1 DEF Appended
<1> QED BY <1>3, <1>4

\* The payload, or the codes.
LEMMA RestRead ==
  ASSUME NEW CONSTANT p, NEW CONSTANT S, NEW CONSTANT f \in Fields, f \notin S, NEW CONSTANT U, U = S \cup {f},
         NEW CONSTANT R \in Seq(Byte), Value(p, f) = <<R>>, NEW CONSTANT T \in Seq(Byte),
         Spot(Filled(p, S), R, T, 0, {}), Moves(TakeRest(Cursor), f)
  PROVE  /\ TakeRest(Cursor).status = "ok"
         /\ Spot(Filled(p, U), <<>>, T, 0, {})'
         /\ UNCHANGED <<config, sender, known, mqttConnected, header, last>>
<1> DEFINE g == Filled(p, S)
<1>1. Appended(g, f, R) = Filled(p, U)
  BY FilledMore
<1>2. Spot(g, R, T, 0, {})
  OBVIOUS
<1> HIDE DEF g
<1>3. /\ TakeRest(Cursor).status = "ok"
      /\ Spot([g EXCEPT ![f] = Append(@, R)], <<>>, T, 0, {})'
      /\ UNCHANGED <<config, sender, known, mqttConnected, header, last>>
  BY <1>2, RestStep, Zenon
<1>4. [g EXCEPT ![f] = Append(@, R)] = Filled(p, U)
  BY <1>1 DEF Appended
<1> QED BY <1>3, <1>4

-----------------------------------------------------------------------------
\* The coroutines, one by one.

\* What is read for each field.
LEMMA ValueIs ==
  ASSUME NEW p
  PROVE  /\ Value(p, "flags") = <<ConnectFlags(p)>> /\ Value(p, "keepAlive") = <<p.keepAlive>>
         /\ Value(p, "clientId") = <<p.clientId>> /\ Value(p, "willProps") = p.will[1].props
         /\ Value(p, "willTopic") = <<p.will[1].topic>> /\ Value(p, "willMessage") = <<p.will[1].message>>
         /\ Value(p, "user") = p.user /\ Value(p, "password") = p.password /\ Value(p, "props") = p.props
         /\ Value(p, "sessionPresent") = <<p.sessionPresent>> /\ Value(p, "reason") = <<p.reason>>
         /\ Value(p, "id") = (IF p.id = 0 THEN <<>> ELSE <<p.id>>) /\ Value(p, "topic") = <<p.topic>>
         /\ Value(p, "payload") = <<p.payload>> /\ Value(p, "filters") = p.filters
         /\ Value(p, "options") = p.options /\ Value(p, "codes") = <<p.codes>>
<1> DEFINE a == <<ConnectFlags(p)>>
           b == <<p.keepAlive>>
           c == <<p.clientId>>
           d == p.will[1].props
           e == <<p.will[1].topic>>
           g == <<p.will[1].message>>
           h == p.user
           i == p.password
           j == p.props
           k == <<p.sessionPresent>>
           l == <<p.reason>>
           m == IF p.id = 0 THEN <<>> ELSE <<p.id>>
           n == <<p.topic>>
           o == <<p.payload>>
           q == p.filters
           r == p.options
           s == <<p.codes>>
<1>1. \A f : Value(p, f) =
        CASE f = "flags" -> a [] f = "keepAlive" -> b
          [] f = "clientId" -> c [] f = "willProps" -> d
          [] f = "willTopic" -> e [] f = "willMessage" -> g
          [] f = "user" -> h [] f = "password" -> i [] f = "props" -> j
          [] f = "sessionPresent" -> k [] f = "reason" -> l
          [] f = "id" -> m [] f = "topic" -> n
          [] f = "payload" -> o [] f = "filters" -> q [] f = "options" -> r
          [] f = "codes" -> s
  BY Zenon DEF Value
<1> HIDE DEF a, b, c, d, e, g, h, i, j, k, l, m, n, o, q, r, s
<1>2. /\ Value(p, "flags") = a /\ Value(p, "keepAlive") = b
      /\ Value(p, "clientId") = c /\ Value(p, "willProps") = d
      /\ Value(p, "willTopic") = e /\ Value(p, "willMessage") = g
  BY <1>1, SMT
<1>3. /\ Value(p, "user") = h /\ Value(p, "password") = i /\ Value(p, "props") = j
      /\ Value(p, "sessionPresent") = k /\ Value(p, "reason") = l
      /\ Value(p, "id") = m
  BY <1>1, SMT
<1>4. /\ Value(p, "topic") = n /\ Value(p, "payload") = o /\ Value(p, "filters") = q
      /\ Value(p, "options") = r /\ Value(p, "codes") = s
  BY <1>1, SMT
<1> QED BY <1>2, <1>3, <1>4 DEF a, b, c, d, e, g, h, i, j, k, l, m, n, o, q, r, s

\* The fields of each type.
LEMMA AllFieldsAre ==
  ASSUME NEW v, NEW p
  PROVE  /\ p.type = "connect" => AllFields(v, p) = Opening \cup WillFields(p) \cup {"user", "password"}
         /\ p.type = "connack" => AllFields(v, p) = {"sessionPresent", "reason", "props"}
         /\ p.type = "publish" => AllFields(v, p) = {"topic", "id", "props", "payload"}
         /\ p.type \in Acks => AllFields(v, p) = IF p.reason = 0 THEN {"id"} ELSE {"id", "reason", "props"}
         /\ p.type = "subscribe" => AllFields(v, p) = {"id", "props", "filters", "options"}
         /\ p.type = "unsubscribe" => AllFields(v, p) = {"id", "props", "filters"}
         /\ p.type = "suback" => AllFields(v, p) = {"id", "props", "codes"}
         /\ p.type = "unsuback" => AllFields(v, p) = IF v = 5 THEN {"id", "props", "codes"} ELSE {"id", "props"}
         /\ p.type \in {"disconnect", "auth"} =>
              AllFields(v, p) = IF p.reason = 0 THEN {} ELSE {"reason", "props"}
         /\ p.type \in {"pingreq", "pingresp"} => AllFields(v, p) = {}
<1> DEFINE a == Opening \cup WillFields(p) \cup {"user", "password"}
           b == {"sessionPresent", "reason", "props"}
           c == {"topic", "id", "props", "payload"}
           d == IF p.reason = 0 THEN {"id"} ELSE {"id", "reason", "props"}
           e == {"id", "props", "filters", "options"}
           g == {"id", "props", "filters"}
           h == {"id", "props", "codes"}
           i == IF v = 5 THEN {"id", "props", "codes"} ELSE {"id", "props"}
           j == IF p.reason = 0 THEN {} ELSE {"reason", "props"}
           k == {}
           t == p.type
<1>1. AllFields(v, p) =
        CASE t = "connect" -> a [] t = "connack" -> b [] t = "publish" -> c [] t \in Acks -> d
          [] t = "subscribe" -> e [] t = "unsubscribe" -> g [] t = "suback" -> h [] t = "unsuback" -> i
          [] t \in {"disconnect", "auth"} -> j [] OTHER -> k
  BY Zenon DEF AllFields
<1> HIDE DEF a, b, c, d, e, g, h, i, j, k, t
<1>2. /\ t = "connect" => AllFields(v, p) = a
      /\ t = "connack" => AllFields(v, p) = b
      /\ t = "publish" => AllFields(v, p) = c
      /\ t \in Acks => AllFields(v, p) = d
      /\ t = "subscribe" => AllFields(v, p) = e
      /\ t = "unsubscribe" => AllFields(v, p) = g
      /\ t = "suback" => AllFields(v, p) = h
      /\ t = "unsuback" => AllFields(v, p) = i
      /\ t \in {"disconnect", "auth"} => AllFields(v, p) = j
      /\ t \in {"pingreq", "pingresp"} => AllFields(v, p) = k
  BY <1>1, SMT DEF Acks
<1> QED BY <1>2, Zenon DEF a, b, c, d, e, g, h, i, j, k, t

\* The names of the fields.
LEMMA FieldNames ==
  /\ "flags" \in Fields /\ "keepAlive" \in Fields /\ "clientId" \in Fields /\ "willProps" \in Fields
  /\ "willTopic" \in Fields /\ "willMessage" \in Fields /\ "user" \in Fields /\ "password" \in Fields
  /\ "props" \in Fields /\ "sessionPresent" \in Fields /\ "reason" \in Fields /\ "id" \in Fields
  /\ "topic" \in Fields /\ "payload" \in Fields /\ "filters" \in Fields /\ "options" \in Fields
  /\ "codes" \in Fields
BY DEF Fields

\* No packet has bytes left, and its coroutine has ended.
LEMMA DoneIs ==
  ASSUME NEW CONSTANT v, NEW CONSTANT p, NEW CONSTANT T, NEW CONSTANT S, NEW CONSTANT x,
         Filled(p, S) = Filled(p, AllFields(v, p)), Uncounted(p) = x, pc' = "done",
         Spot(Filled(p, S), <<>>, T, x, {})'
  PROVE  Done(v, p, T)'
BY Zenon DEF Done

\* What stays counted behind a packet.
LEMMA UncountedIs ==
  ASSUME NEW p
  PROVE  /\ p.type = "connect" => Uncounted(p) = 10
         /\ p.type = "connack" => Uncounted(p) = 2
         /\ p.type \notin {"connect", "connack"} => Uncounted(p) = 0
<1>1. "connect" # "connack"
  OBVIOUS
<1> QED BY <1>1, SMT DEF Uncounted

\* Every read of PUBACK, PUBREC, PUBREL and PUBCOMP.
LEMMA AckStep ==
  ASSUME NEW CONSTANT v \in {4, 5}, NEW CONSTANT p \in Acknowledgements(v), NEW CONSTANT T \in Seq(Byte),
         propsLimit \in Nat, MidAck(v, p, T), ReadAck
  PROVE  /\ MidAck(v, p, T)' \/ Done(v, p, T)'
         /\ UNCHANGED <<config, sender, known, mqttConnected, header, last>>
<1>1. /\ p.type \in {"puback", "pubrec", "pubrel", "pubcomp"} /\ p.id \in Ids
      /\ p.reason \in ReasonsOf(v) /\ p.props \in PropsOf(v)
  BY Zenon DEF Acknowledgements
<1>2. p.type \in Acks /\ p.reason \in Byte /\ p.props \in Seq(PropertyValues)
  BY <1>1, ReasonsAreBytes, PropsAreProperties, Zenon DEF Acks
<1>3. Body(v, p) = IdBytes(p) \o ReasonPart(p) /\ AllFields(v, p) = (IF p.reason = 0 THEN {"id"} ELSE {"id", "reason", "props"})
      /\ Uncounted(p) = 0
  <2>1. p.type \notin {"connect", "connack"}
    BY <1>1
  <2> QED BY <1>2, <2>1, BodyOf, AllFieldsAre, UncountedIs, Zenon
<1>4. /\ Value(p, "id") = <<p.id>> /\ Value(p, "reason") = <<p.reason>> /\ Value(p, "props") = p.props
  <2>1. p.id # 0
    BY <1>1, IdsAreTwoBytes
  <2> QED BY <2>1, ValueIs, Zenon
<1>5. ReasonPart(p) \in Seq(Byte) /\ Len(ReasonPart(p)) \in Nat
  BY <1>2, ReasonIs, Zenon DEF Wired
<1>6. CASE pc = "id"
  <2>1. Spot(Nothing, IdBytes(p) \o ReasonPart(p), T, 0, {2})
    <3>1. pc # "reason" /\ pc # "props"
      BY <1>6
    <3> QED BY <1>3, <3>1, Zenon DEF MidAck, AtProps
  <2>2. /\ Moves(TakePacketId(Cursor), "id")
        /\ pc' = IF TakePacketId(Cursor).status = "ok"
                 THEN (IF TakePacketId(Cursor).cursor.rem = 0 THEN "done" ELSE "reason") ELSE "refused"
    <3>1. pc # "reason" /\ pc # "props"
      BY <1>6
    <3> QED BY <3>1, Zenon DEF ReadAck, Reads, ReadsProperties, Proceeds, Moves
  <2>3. /\ TakePacketId(Cursor).status = "ok" /\ TakePacketId(Cursor).cursor.rem = Len(ReasonPart(p))
        /\ Spot(Filled(p, {"id"}), ReasonPart(p), T, 0, {})'
        /\ UNCHANGED <<config, sender, known, mqttConnected, header, last>>
    <3>1. {2} \in SUBSET {2} /\ "id" \notin {} /\ {"id"} = {} \cup {"id"}
      OBVIOUS
    <3>2. Spot(Filled(p, {}), BigEndian(p.id, 2) \o ReasonPart(p), T, 0, {2})
      BY <2>1, FilledEmpty, Zenon DEF IdBytes
    <3> QED BY <1>1, <1>4, <1>5, <2>2, <3>1, <3>2, FieldNames, IdRead, Zenon
  <2>5. Spot(Filled(p, {"id"}), ReasonPart(p), T, 0, {})'
    BY <2>3
  <2>6. CASE p.reason = 0
    <3>1. ReasonPart(p) = <<>> /\ Len(ReasonPart(p)) = 0
      BY <2>6 DEF ReasonPart
    <3>2. pc' = "done"
      BY <2>2, <2>3, <3>1
    <3>3. Spot(Filled(p, {"id"}), <<>>, T, 0, {})'
      BY <2>5, <3>1
    <3>4. Done(v, p, T)'
      BY <1>3, <2>6, <3>2, <3>3, DoneIs, Zenon
    <3> QED BY <2>3, <3>4
  <2>7. CASE p.reason # 0
    <3>1. Len(ReasonPart(p)) # 0
      <4>1. Wired(1, <<p.reason>>) /\ Wired(PropertiesSize(p.props), Properties(p.props))
        BY <1>2, WiredByte, WiredProperties
      <4>2. Wired(1 + PropertiesSize(p.props), <<p.reason>> \o Properties(p.props))
        BY <4>1, WiredJoined
      <4>3. Len(<<p.reason>>) # 0 /\ Len(<<p.reason>> \o Properties(p.props)) # 0
        BY <4>1, <4>2 DEF Wired
      <4> QED BY <2>7, <4>3, Zenon DEF ReasonPart
    <3>2. pc' = "reason"
      BY <2>2, <2>3, <3>1
    <3>3. MidAck(v, p, T)'
      BY <2>5, <2>7, <3>2, Zenon DEF MidAck
    <3> QED BY <2>3, <3>3
  <2> QED BY <2>6, <2>7
<1>7. CASE pc = "reason"
  <2>1. p.reason # 0 /\ Spot(Filled(p, {"id"}), ReasonPart(p), T, 0, {})
    <3>1. pc # "id" /\ pc # "props"
      BY <1>7
    <3> QED BY <3>1, Zenon DEF MidAck, AtProps
  <2>2. /\ Moves(TakeByte(Cursor), "reason")
        /\ pc' = IF TakeByte(Cursor).status = "ok"
                 THEN (IF TakeByte(Cursor).cursor.rem > 0 THEN "props" ELSE "done") ELSE "refused"
    <3>1. pc # "id" /\ pc # "props"
      BY <1>7
    <3> QED BY <3>1, Zenon DEF ReadAck, Reads, ReadsProperties, Proceeds, Moves
  <2> DEFINE E == IF p.props = <<>> THEN <<>> ELSE Properties(p.props)
  <2>3. ReasonPart(p) = <<p.reason>> \o E
    <3>1. <<p.reason>> \o <<>> = <<p.reason>>
      BY <1>2, IsOneSeq, WiredEmpty, Zenon
    <3> QED BY <2>1, <3>1 DEF ReasonPart
  <2>4. E \in Seq(Byte) /\ (p.props = <<>> => E = <<>> /\ Len(E) = 0) /\ (p.props # <<>> => E = Properties(p.props) /\ Len(E) > 0)
    <3>1. Properties(p.props) \in Seq(Byte) /\ Len(Properties(p.props)) > 0
      <4>1. Properties(p.props) \in Seq(Byte) /\ Len(Properties(p.props)) >= 1
        BY <1>2, WiredProperties, Zenon DEF Wired
      <4> QED BY <4>1, LenProperties
    <3> QED BY <3>1
  <2> HIDE DEF E
  <2>5. /\ TakeByte(Cursor).status = "ok" /\ TakeByte(Cursor).cursor.rem = Len(E)
        /\ Spot(Filled(p, {"id", "reason"}), E, T, 0, {})'
        /\ UNCHANGED <<config, sender, known, mqttConnected, header, last>>
    <3>1. Blocks({}, 1, {}) /\ Spot(Filled(p, {"id"}), <<p.reason>> \o E, T, 0, {})
      BY <2>1, <2>3, NoBlocks
    <3>2. "reason" \notin {"id"} /\ {"id", "reason"} = {"id"} \cup {"reason"}
      OBVIOUS
    <3> QED BY <1>2, <1>4, <2>2, <2>4, <3>1, <3>2, FieldNames, ByteRead, Zenon
  <2>7. Spot(Filled(p, {"id", "reason"}), E, T, 0, {})'
    BY <2>5
  <2>8. CASE p.props = <<>>
    <3>1. pc' = "done" /\ Spot(Filled(p, {"id", "reason"}), <<>>, T, 0, {})'
      BY <2>2, <2>4, <2>5, <2>7, <2>8
    <3>2. Filled(p, {"id", "reason"} \cup {"props"}) = Filled(p, {"id", "reason"})
      BY <1>4, <2>8, FilledSame
    <3>3. {"id", "reason"} \cup {"props"} = {"id", "reason", "props"}
      OBVIOUS
    <3>4. Filled(p, {"id", "reason"}) = Filled(p, AllFields(v, p))
      BY <1>3, <2>1, <3>2, <3>3
    <3>5. Done(v, p, T)'
      BY <1>3, <3>1, <3>4, DoneIs, Zenon
    <3> QED BY <2>5, <3>5
  <2>9. CASE p.props # <<>>
    <3>1. pc' = "props" /\ Spot(Filled(p, {"id", "reason"}), Properties(p.props), T, 0, {})'
      BY <2>2, <2>4, <2>5, <2>7, <2>9
    <3>2. Properties(p.props) \o <<>> = Properties(p.props)
      BY <2>4, <2>9, WiredEmpty
    <3>3. Spot(Filled(p, {"id", "reason"}), Properties(Value(p, "props")) \o <<>>, T, 0, {})'
      BY <1>4, <3>1, <3>2
    <3>4. AtProps("props", p, {"id", "reason"}, <<>>, T, 0, {})'
      BY <3>1, <3>3, Zenon DEF AtProps
    <3>5. MidAck(v, p, T)'
      BY <2>1, <2>9, <3>4, Zenon DEF MidAck
    <3> QED BY <2>5, <3>5
  <2> QED BY <2>8, <2>9
<1>8. CASE pc = "props"
  <2>1. p.reason # 0 /\ p.props # <<>> /\ AtProps("props", p, {"id", "reason"}, <<>>, T, 0, {})
    <3>1. pc # "id" /\ pc # "reason"
      BY <1>8
    <3> QED BY <3>1, Zenon DEF MidAck
  <2>2. ReadsProperties("props", "done")
    <3>1. pc # "id" /\ pc # "reason"
      BY <1>8
    <3> QED BY <3>1, Zenon DEF ReadAck, Reads
  <2>3. /\ \/ AtProps("props", p, {"id", "reason"}, <<>>, T, 0, {})'
           \/ pc' = "done" /\ Spot(Filled(p, {"id", "reason"} \cup {"props"}), <<>>, T, 0, {})'
        /\ UNCHANGED <<config, sender, known, mqttConnected, header, last>>
    <3>1. <<>> \in Seq(Byte) /\ 0 \in Nat /\ {} \in SUBSET {1} /\ "props" \notin {"id", "reason"}
          /\ Value(p, "props") \in Seq(PropertyValues)
      BY <1>2, <1>4
    <3> QED BY <2>1, <2>2, <3>1, FieldNames, PropsStep, Zenon
  <2>4. {"id", "reason"} \cup {"props"} = AllFields(v, p)
    BY <1>3, <2>1
  <2>5. pc' = "done" /\ Spot(Filled(p, {"id", "reason"} \cup {"props"}), <<>>, T, 0, {})' => Done(v, p, T)'
    BY <1>3, <2>4, DoneIs, Zenon
  <2>6. AtProps("props", p, {"id", "reason"}, <<>>, T, 0, {})' => MidAck(v, p, T)'
    BY <2>1, Zenon DEF MidAck
  <2> QED BY <2>3, <2>5, <2>6
<1> QED BY <1>6, <1>7, <1>8, Zenon DEF MidAck, AtProps

\* The properties come next, which MQTT 3.1.1 does not have.
LEMMA PropsNow ==
  ASSUME NEW CONSTANT v \in {4, 5}, NEW CONSTANT p, p.props \in PropsOf(v), NEW CONSTANT S,
         NEW CONSTANT U, U = S \cup {"props"}, NEW CONSTANT A \in Seq(Byte), NEW CONSTANT T, NEW CONSTANT x,
         NEW CONSTANT N, Spot(Filled(p, S), PropBytes(v, p.props) \o A, T, x, N)'
  PROVE  /\ v = 5 /\ pc' = "props" => AtProps("props", p, S, A, T, x, N)'
         /\ v = 4 => Spot(Filled(p, U), A, T, x, N)'
<1>1. Value(p, "props") = p.props
  BY ValueIs, Zenon
<1>2. CASE v = 5
  <2>1. PropBytes(v, p.props) = Properties(Value(p, "props"))
    BY <1>1, <1>2 DEF PropBytes
  <2>2. Spot(Filled(p, S), Properties(Value(p, "props")) \o A, T, x, N)'
    BY <2>1
  <2>3. v = 5 /\ pc' = "props" => AtProps("props", p, S, A, T, x, N)'
    BY <2>2, Zenon DEF AtProps
  <2> QED BY <1>2, <2>3
<1>3. CASE v = 4
  <2>1. PropBytes(v, p.props) = <<>>
    BY <1>3 DEF PropBytes
  <2>2. PropBytes(v, p.props) \o A = A
    BY <2>1, WiredEmpty, Zenon
  <2>3. p.props = <<>>
    BY <1>3, PropsAreProperties, Zenon
  <2>4. Filled(p, U) = Filled(p, S)
    BY <1>1, <2>3, FilledSame
  <2>5. Spot(Filled(p, U), A, T, x, N)'
    BY <2>2, <2>4
  <2> QED BY <1>3, <2>5
<1> QED BY <1>2, <1>3

\* Every read of DISCONNECT and AUTH.
LEMMA EndingStep ==
  ASSUME NEW CONSTANT v \in {4, 5}, NEW CONSTANT p \in Endings(v), NEW CONSTANT T \in Seq(Byte),
         propsLimit \in Nat, MidEnding(v, p, T), ProcessDisconnect \/ ProcessAuth
  PROVE  /\ MidEnding(v, p, T)' \/ Done(v, p, T)'
         /\ UNCHANGED <<config, sender, known, mqttConnected, header, last>>
<1>1. /\ p.type \in {"disconnect"} \cup (IF v = 5 THEN {"auth"} ELSE {})
      /\ p.reason \in ReasonsOf(v) /\ p.props \in PropsOf(v)
  BY Zenon DEF Endings
<1>2. /\ p.type \in {"disconnect", "auth"} /\ p.reason \in Byte /\ p.props \in Seq(PropertyValues)
      /\ p.reason # 0
  BY <1>1, ReasonsAreBytes, PropsAreProperties, Zenon DEF MidEnding
<1>3. /\ Body(v, p) = EndPart(p) /\ AllFields(v, p) = {"reason", "props"} /\ Uncounted(p) = 0
  <2>1. p.type \notin {"connect", "connack"}
    BY <1>2
  <2> QED BY <1>2, <2>1, BodyOf, AllFieldsAre, UncountedIs, ZenonT(30)
<1>4. /\ Value(p, "reason") = <<p.reason>> /\ Value(p, "props") = p.props
  BY ValueIs, Zenon
<1> DEFINE E == Properties(p.props)
<1>5. E \in Seq(Byte) /\ Len(E) > 0 /\ EndPart(p) = <<p.reason>> \o E
  <2>1. E \in Seq(Byte) /\ Len(E) >= 1
    BY <1>2, WiredProperties, Zenon DEF Wired
  <2> QED BY <1>2, <2>1, LenProperties DEF EndPart
<1>6. CASE pc = "reason"
  <2>1. Spot(Nothing, EndPart(p), T, 0, {2})
    <3>1. pc # "props"
      BY <1>6
    <3> QED BY <1>3, <3>1, Zenon DEF MidEnding, AtProps
  <2>2. /\ Moves(TakeByte(Cursor), "reason")
        /\ \/ pc' = IF TakeByte(Cursor).status = "ok"
                    THEN (IF TakeByte(Cursor).cursor.rem > 0 THEN "props" ELSE "done") ELSE "refused"
           \/ pc' = IF TakeByte(Cursor).status = "ok" THEN "props" ELSE "refused"
    <3>1. pc # "props"
      BY <1>6
    <3> QED BY <3>1, Zenon DEF ProcessDisconnect, ProcessAuth, Reads, ReadsProperties, Proceeds, Moves
  <2> HIDE DEF E
  <2>3. /\ TakeByte(Cursor).status = "ok" /\ TakeByte(Cursor).cursor.rem = Len(E)
        /\ Spot(Filled(p, {"reason"}), E, T, 0, {1})'
        /\ UNCHANGED <<config, sender, known, mqttConnected, header, last>>
    <3>1. Blocks({2}, 1, {1})
      BY DEF Blocks
    <3>2. "reason" \notin {} /\ {"reason"} = {} \cup {"reason"}
      OBVIOUS
    <3>3. Spot(Filled(p, {}), <<p.reason>> \o E, T, 0, {2})
      BY <1>5, <2>1, FilledEmpty
    <3>4. E \in Seq(Byte) /\ Moves(TakeByte(Cursor), "reason") /\ p.reason \in Byte /\ T \in Seq(Byte)
      BY <1>2, <1>5, <2>2
    <3> DEFINE N == {2}
               M == {1}
    <3>5. Blocks(N, 1, M) /\ Spot(Filled(p, {}), <<p.reason>> \o E, T, 0, N)
      BY <3>1, <3>3
    <3> HIDE DEF N, M
    <3>6. /\ TakeByte(Cursor).status = "ok" /\ TakeByte(Cursor).cursor.rem = Len(E)
          /\ Spot(Filled(p, {"reason"}), E, T, 0, M)'
          /\ UNCHANGED <<config, sender, known, mqttConnected, header, last>>
      BY <1>4, <3>2, <3>4, <3>5, FieldNames, ByteRead, Zenon
    <3> QED BY <3>6 DEF M
  <2>4. pc' = "props"
    BY <1>5, <2>2, <2>3
  <2>5. Properties(p.props) \o <<>> = Properties(p.props)
    BY <1>5, WiredEmpty DEF E
  <2>6. Spot(Filled(p, {"reason"}), Properties(Value(p, "props")) \o <<>>, T, 0, {1})'
    BY <1>4, <2>3, <2>5 DEF E
  <2>7. AtProps("props", p, {"reason"}, <<>>, T, 0, {1})'
    BY <2>4, <2>6, Zenon DEF AtProps
  <2>8. MidEnding(v, p, T)'
    BY <1>2, <2>7, Zenon DEF MidEnding
  <2> QED BY <2>3, <2>8
<1>7. CASE pc = "props"
  <2>1. AtProps("props", p, {"reason"}, <<>>, T, 0, {1})
    <3>1. pc # "reason"
      BY <1>7
    <3> QED BY <3>1, Zenon DEF MidEnding
  <2>2. ReadsProperties("props", "done")
    <3>1. pc # "reason"
      BY <1>7
    <3> QED BY <3>1, Zenon DEF ProcessDisconnect, ProcessAuth, Reads
  <2>3. /\ \/ AtProps("props", p, {"reason"}, <<>>, T, 0, {1})'
           \/ pc' = "done" /\ Spot(Filled(p, {"reason"} \cup {"props"}), <<>>, T, 0, {})'
        /\ UNCHANGED <<config, sender, known, mqttConnected, header, last>>
    <3>1. <<>> \in Seq(Byte) /\ 0 \in Nat /\ {1} \in SUBSET {1} /\ "props" \notin {"reason"}
          /\ Value(p, "props") \in Seq(PropertyValues)
      BY <1>2, <1>4
    <3> QED BY <2>1, <2>2, <3>1, FieldNames, PropsStep, Zenon
  <2>4. {"reason"} \cup {"props"} = AllFields(v, p)
    BY <1>3
  <2>5. pc' = "done" /\ Spot(Filled(p, {"reason"} \cup {"props"}), <<>>, T, 0, {})' => Done(v, p, T)'
    BY <1>3, <2>4, DoneIs, Zenon
  <2>6. AtProps("props", p, {"reason"}, <<>>, T, 0, {1})' => MidEnding(v, p, T)'
    BY <1>2, Zenon DEF MidEnding
  <2> QED BY <2>3, <2>5, <2>6
<1> QED BY <1>6, <1>7, Zenon DEF MidEnding, AtProps

\* Every read of SUBACK and UNSUBACK.
LEMMA CodesStep ==
  ASSUME NEW CONSTANT v \in {4, 5}, NEW CONSTANT p \in Subacks(v) \cup Unsubacks(v), NEW CONSTANT T \in Seq(Byte),
         propsLimit \in Nat, known = v, header = HeaderOf(p), TypeOf(HeaderOf(p)) = p.type,
         MidSuback(v, p, T), ProcessSuback \/ ProcessUnsuback
  PROVE  /\ MidSuback(v, p, T)' \/ Done(v, p, T)'
         /\ UNCHANGED <<config, sender, known, mqttConnected, header, last>>
<1>1. /\ p.type \in {"suback", "unsuback"} /\ p.id \in Ids /\ p.props \in PropsOf(v)
      /\ p.codes \in Seq(Byte) /\ (p.type = "unsuback" /\ v = 4 => p.codes = <<>>)
  <2>1. CASE p \in Subacks(v)
    <3>1. p.type = "suback" /\ p.id \in Ids /\ p.props \in PropsOf(v) /\ p.codes \in Seq(Byte)
      BY <2>1 DEF Subacks
    <3> QED BY <3>1
  <2>2. CASE p \in Unsubacks(v)
    <3>1. /\ p.type = "unsuback" /\ p.id \in Ids /\ p.props \in PropsOf(v)
          /\ p.codes \in IF v = 5 THEN Seq(Byte) ELSE {<<>>}
      BY <2>2, Zenon DEF Unsubacks
    <3>2. CASE v = 5
      BY <3>1, <3>2
    <3>3. CASE v = 4
      <4>1. p.codes = <<>> /\ <<>> \in Seq(Byte)
        BY <3>1, <3>3
      <4> QED BY <3>1, <4>1
    <3> QED BY <3>2, <3>3
  <2> QED BY <2>1, <2>2
<1>2. p.props \in Seq(PropertyValues)
  BY <1>1, PropsAreProperties, Zenon
<1> DEFINE q == PropBytes(v, p.props)
           i == BigEndian(p.id, 2)
           d == p.codes
<1>3. Body(v, p) = i \o (q \o d) /\ Uncounted(p) = 0
  <2>1. p.type \notin {"connect", "connack"}
    BY <1>1
  <2> QED BY <1>1, <2>1, BodyOf, UncountedIs, Zenon DEF IdBytes
<1>4. AllFields(v, p) = IF v = 5 \/ p.type = "suback" THEN {"id", "props", "codes"} ELSE {"id", "props"}
  BY <1>1, AllFieldsAre, SMT
<1>5. /\ Value(p, "id") = <<p.id>> /\ Value(p, "codes") = <<p.codes>> /\ Value(p, "props") = p.props
  <2>1. p.id # 0
    BY <1>1, IdsAreTwoBytes
  <2> QED BY <2>1, ValueIs, Zenon
<1>6. q \in Seq(Byte) /\ q \o d \in Seq(Byte)
  <2>1. q \in Seq(Byte)
    BY <1>1, WiredPropBytes, Zenon DEF Wired
  <2> HIDE DEF q
  <2> QED BY <1>1, <2>1, OfJoined
<1>7. CASE pc = "id"
  <2>1. Spot(Nothing, Body(v, p), T, 0, {2})
    <3>1. pc # "codes" /\ pc # "props"
      BY <1>7
    <3> QED BY <3>1, Zenon DEF MidSuback, AtProps
  <2>2. /\ Moves(TakePacketId(Cursor), "id")
        /\ \/ /\ TypeOf(header) = "suback"
              /\ pc' = IF TakePacketId(Cursor).status = "ok" THEN IfV5("props", "codes") ELSE "refused"
           \/ /\ TypeOf(header) = "unsuback"
              /\ pc' = IF TakePacketId(Cursor).status = "ok" THEN IfV5("props", "done") ELSE "refused"
    <3>1. pc # "codes" /\ pc # "props"
      BY <1>7
    <3> QED BY <3>1, Zenon DEF ProcessSuback, ProcessUnsuback, Reads, ReadsProperties, Proceeds, Moves, Reading
  <2>3. /\ TakePacketId(Cursor).status = "ok" /\ Spot(Filled(p, {"id"}), q \o d, T, 0, {})'
        /\ UNCHANGED <<config, sender, known, mqttConnected, header, last>>
    <3>1. {2} \in SUBSET {2} /\ "id" \notin {} /\ {"id"} = {} \cup {"id"}
      OBVIOUS
    <3>2. Spot(Filled(p, {}), i \o (q \o d), T, 0, {2})
      BY <1>3, <2>1, FilledEmpty, Zenon
    <3> DEFINE E == q \o d
    <3>3. E \in Seq(Byte) /\ Spot(Filled(p, {}), BigEndian(p.id, 2) \o E, T, 0, {2})
          /\ Moves(TakePacketId(Cursor), "id")
      BY <1>6, <2>2, <3>2
    <3> HIDE DEF E, q, i, d
    <3>4. /\ TakePacketId(Cursor).status = "ok" /\ Spot(Filled(p, {"id"}), E, T, 0, {})'
          /\ UNCHANGED <<config, sender, known, mqttConnected, header, last>>
      BY <1>1, <1>5, <3>1, <3>3, FieldNames, IdRead, Zenon
    <3> QED BY <3>4 DEF E
  <2>4. /\ v = 5 => pc' = "props"
        /\ v = 4 => pc' = IF p.type = "suback" THEN "codes" ELSE "done"
    <3>1. v = 5 => IfV5("props", "codes") = "props" /\ IfV5("props", "done") = "props"
      BY DEF IfV5
    <3>2. v = 4 => IfV5("props", "codes") = "codes" /\ IfV5("props", "done") = "done"
      BY DEF IfV5
    <3>3. TypeOf(header) = p.type
      OBVIOUS
    <3> QED BY <1>1, <2>2, <2>3, <3>1, <3>2, <3>3
  <2>5. /\ v = 5 /\ pc' = "props" => AtProps("props", p, {"id"}, d, T, 0, {})'
        /\ v = 4 => Spot(Filled(p, {"id", "props"}), d, T, 0, {})'
    <3>1. {"id", "props"} = {"id"} \cup {"props"}
      OBVIOUS
    <3> QED BY <1>1, <2>3, <3>1, PropsNow, Zenon
  <2>6. CASE v = 5
    BY <2>3, <2>4, <2>5, <2>6, Zenon DEF MidSuback
  <2>7. CASE v = 4 /\ p.type = "suback"
    <3>1. pc' = "codes" /\ Spot(Filled(p, {"id", "props"}), d, T, 0, {})'
      BY <2>4, <2>5, <2>7, Zenon
    <3> QED BY <2>3, <2>7, <3>1, Zenon DEF MidSuback
  <2>8. CASE v = 4 /\ p.type # "suback"
    <3>1. pc' = "done" /\ d = <<>> /\ AllFields(v, p) = {"id", "props"}
      BY <1>1, <1>4, <2>4, <2>8
    <3>2. Spot(Filled(p, {"id", "props"}), <<>>, T, 0, {})'
      BY <2>5, <2>8, <3>1
    <3>3. Done(v, p, T)'
      BY <1>3, <3>1, <3>2, DoneIs, Zenon
    <3> QED BY <2>3, <3>3
  <2> QED BY <2>6, <2>7, <2>8
<1>8. CASE pc = "props"
  <2>1. v = 5 /\ AtProps("props", p, {"id"}, d, T, 0, {})
    <3>1. pc # "id" /\ pc # "codes"
      BY <1>8
    <3> QED BY <3>1, Zenon DEF MidSuback
  <2>2. ReadsProperties("props", "codes")
    <3>1. pc # "id" /\ pc # "codes"
      BY <1>8
    <3> QED BY <3>1, Zenon DEF ProcessSuback, ProcessUnsuback, Reads
  <2>3. /\ \/ AtProps("props", p, {"id"}, d, T, 0, {})'
           \/ pc' = "codes" /\ Spot(Filled(p, {"id"} \cup {"props"}), d, T, 0, {})'
        /\ UNCHANGED <<config, sender, known, mqttConnected, header, last>>
    <3>1. d \in Seq(Byte) /\ 0 \in Nat /\ {} \in SUBSET {1} /\ "props" \notin {"id"}
          /\ Value(p, "props") \in Seq(PropertyValues)
      BY <1>1, <1>2, <1>5
    <3> QED BY <2>1, <2>2, <3>1, FieldNames, PropsStep, Zenon
  <2>4. {"id"} \cup {"props"} = {"id", "props"}
    OBVIOUS
  <2> QED BY <2>1, <2>3, <2>4, Zenon DEF MidSuback
<1>9. CASE pc = "codes"
  <2>1. (v = 5 \/ p.type = "suback") /\ Spot(Filled(p, {"id", "props"}), d, T, 0, {})
    <3>1. pc # "id" /\ pc # "props"
      BY <1>9
    <3> QED BY <3>1, Zenon DEF MidSuback, AtProps
  <2>2. /\ Moves(TakeRest(Cursor), "codes")
        /\ pc' = IF TakeRest(Cursor).status = "ok" THEN "done" ELSE "refused"
    <3>1. pc # "id" /\ pc # "props"
      BY <1>9
    <3> QED BY <3>1, Zenon DEF ProcessSuback, ProcessUnsuback, Reads, ReadsProperties, Proceeds, Moves
  <2>3. /\ TakeRest(Cursor).status = "ok" /\ Spot(Filled(p, {"id", "props", "codes"}), <<>>, T, 0, {})'
        /\ UNCHANGED <<config, sender, known, mqttConnected, header, last>>
    <3>1. "codes" \notin {"id", "props"} /\ {"id", "props", "codes"} = {"id", "props"} \cup {"codes"}
      OBVIOUS
    <3> QED BY <1>1, <1>5, <2>1, <2>2, <3>1, FieldNames, RestRead, Zenon
  <2>4. pc' = "done" /\ AllFields(v, p) = {"id", "props", "codes"}
    BY <1>4, <2>1, <2>2, <2>3
  <2>5. Done(v, p, T)'
    BY <1>3, <2>3, <2>4, DoneIs, Zenon
  <2> QED BY <2>3, <2>5
<1> QED BY <1>7, <1>8, <1>9, Zenon DEF MidSuback, AtProps

\* When nothing is left, all pieces are behind.
LEMMA RestEmpty ==
  ASSUME NEW x \in Seq(Seq(Byte)), \A k \in 1..Len(x) : Len(x[k]) >= 1, NEW j \in Nat, j < Len(x)
  PROVE  /\ Len(RestOf(x, j)) # 0
         /\ RestOf(x, j) \in Seq(Byte) /\ j + 1 \in Nat
         /\ RestOf(x, j + 1) \in Seq(Byte) /\ RestOf(x, j) = x[j + 1] \o RestOf(x, j + 1)
         /\ j + 1 = Len(x) => RestOf(x, j + 1) = <<>> /\ Len(RestOf(x, j + 1)) = 0
         /\ j + 1 # Len(x) => j + 1 < Len(x) /\ Len(RestOf(x, j + 1)) # 0
<1>1. ASSUME NEW i \in Nat, i < Len(x)
      PROVE  Len(RestOf(x, i)) # 0
  <2>1. Len(RestOf(x, i)) = Len(x[i + 1]) + Len(RestOf(x, i + 1)) /\ x[i + 1] \in Seq(Byte) /\ RestOf(x, i + 1) \in Seq(Byte)
    BY <1>1, RestNext, Zenon
  <2>2. Len(x[i + 1]) \in Nat /\ Len(RestOf(x, i + 1)) \in Nat
    BY <2>1, LenProperties
  <2>3. i + 1 \in 1..Len(x)
    BY <1>1, LenProperties
  <2> DEFINE a == Len(x[i + 1])
             b == Len(RestOf(x, i))
             c == Len(RestOf(x, i + 1))
  <2>4. b = a + c /\ a >= 1 /\ a \in Nat /\ c \in Nat
    BY <2>1, <2>2, <2>3, Zenon
  <2> HIDE DEF a, b, c
  <2>5. b # 0
    BY ONLY <2>4
  <2> QED BY <2>5 DEF b
<1>2. RestOf(x, j) = x[j + 1] \o RestOf(x, j + 1) /\ RestOf(x, j + 1) \in Seq(Byte) /\ RestOf(x, j) \in Seq(Byte)
  BY RestNext, Zenon
<1>3. RestOf(x, Len(x)) = <<>>
  BY RestEnds, Zenon
<1>4. j + 1 # Len(x) => j + 1 < Len(x)
  BY LenProperties
<1>5. j + 1 # Len(x) => j + 1 < Len(x) /\ Len(RestOf(x, j + 1)) # 0
  BY <1>1, <1>4
<1>6. j + 1 = Len(x) => RestOf(x, j + 1) = <<>> /\ Len(RestOf(x, j + 1)) = 0
  BY <1>3
<1>7. Len(RestOf(x, j)) # 0 /\ j + 1 \in Nat
  BY <1>1
<1> QED BY <1>2, <1>5, <1>6, <1>7, Zenon

\* Topic filters one by one, none of them empty on the wire.
LEMMA TextPiecesAre ==
  ASSUME NEW s \in Seq(Strings)
  PROVE  /\ TextPieces(s) \in Seq(Seq(Byte)) /\ Len(TextPieces(s)) = Len(s)
         /\ \A k \in 1..Len(s) : TextPieces(s)[k] = Text(s[k])
         /\ \A k \in 1..Len(s) : Len(TextPieces(s)[k]) >= 1
         /\ RestOf(TextPieces(s), 0) = Texts(s)
<1>1. /\ TextPieces(s) \in Seq(Seq(Byte)) /\ Len(TextPieces(s)) = Len(s)
      /\ \A k \in 1..Len(s) : TextPieces(s)[k] = Text(s[k])
      /\ Texts(s) = FlattenSeq(TextPieces(s))
  BY TextPiecesType, Zenon
<1>2. ASSUME NEW k \in 1..Len(s)
      PROVE  Len(TextPieces(s)[k]) >= 1
  <2>1. s[k] \in Strings
    BY ElementOfSeq
  <2>2. 2 + Len(s[k]) = Len(Text(s[k])) /\ 2 + Len(s[k]) \in Nat /\ s[k] \in Seq(Byte)
    BY <2>1, WiredText DEF Wired, Strings
  <2>3. Len(s[k]) \in Nat
    BY <2>2, LenProperties
  <2> QED BY <1>1, <2>2, <2>3
<1> QED BY <1>1, <1>2, RestEnds, Zenon

\* Every read of UNSUBSCRIBE.
LEMMA UnsubscribeStep ==
  ASSUME NEW CONSTANT v \in {4, 5}, NEW CONSTANT p \in Unsubscribes(v), NEW CONSTANT T \in Seq(Byte),
         propsLimit \in Nat, known = v, MidUnsubscribe(v, p, T), ProcessUnsubscribe
  PROVE  /\ MidUnsubscribe(v, p, T)' \/ Done(v, p, T)'
         /\ UNCHANGED <<config, sender, known, mqttConnected, header, last>>
<1>1. /\ p.type = "unsubscribe" /\ p.id \in Ids /\ p.props \in PropsOf(v)
      /\ p.filters \in Seq(Strings) /\ Len(p.filters) >= 1
  BY DEF Unsubscribes, AtLeastOne
<1>2. p.props \in Seq(PropertyValues)
  BY <1>1, PropsAreProperties, Zenon
<1> DEFINE q == PropBytes(v, p.props)
           i == BigEndian(p.id, 2)
           d == Texts(p.filters)
           x == TextPieces(p.filters)
           S == {"id", "props"}
<1>3. Body(v, p) = i \o (q \o d) /\ Uncounted(p) = 0 /\ AllFields(v, p) = {"id", "props", "filters"}
  <2>1. p.type \notin {"connect", "connack"}
    BY <1>1
  <2> QED BY <1>1, <2>1, BodyOf, AllFieldsAre, UncountedIs, Zenon DEF IdBytes
<1>5. /\ Value(p, "id") = <<p.id>> /\ Value(p, "filters") = p.filters /\ Value(p, "props") = p.props
  <2>1. p.id # 0
    BY <1>1, IdsAreTwoBytes
  <2> QED BY <2>1, ValueIs, Zenon
<1>6. q \in Seq(Byte) /\ d \in Seq(Byte) /\ q \o d \in Seq(Byte)
  <2>1. q \in Seq(Byte)
    BY <1>1, WiredPropBytes, Zenon DEF Wired
  <2>2. d \in Seq(Byte)
    BY <1>1, TextPiecesType, Zenon DEF Wired
  <2> HIDE DEF q, d
  <2> QED BY <2>1, <2>2, OfJoined
<1>10. /\ x \in Seq(Seq(Byte)) /\ Len(x) = Len(p.filters) /\ RestOf(x, 0) = d
       /\ \A k \in 1..Len(x) : x[k] = Text(p.filters[k])
       /\ \A k \in 1..Len(x) : Len(x[k]) >= 1
  BY <1>1, TextPiecesAre, Zenon
<1>11. ASSUME pc' = "filters", Spot(Filled(p, S), d, T, 0, {})'
       PROVE  MidUnsubscribe(v, p, T)'
  <2>1. Partly(p, S, "filters", 0) = Filled(p, S)
    <3>1. "filters" \notin S
      OBVIOUS
    <3> QED BY <1>1, <1>5, <3>1, FieldNames, PartlyNone
  <2>2. Spot(Partly(p, S, "filters", 0), RestOf(x, 0), T, 0, {})'
    BY <1>10, <1>11, <2>1
  <2>3. 0 \in 0..Len(p.filters) /\ 0 < Len(p.filters)
    BY <1>1, LenProperties
  <2> QED BY <1>11, <2>2, <2>3, Zenon DEF MidUnsubscribe
<1>7. CASE pc = "id"
  <2>1. Spot(Nothing, Body(v, p), T, 0, {2})
    <3>1. pc # "filters" /\ pc # "props"
      BY <1>7
    <3> QED BY <3>1, Zenon DEF MidUnsubscribe, AtProps
  <2>2. /\ Moves(TakePacketId(Cursor), "id")
        /\ pc' = IF TakePacketId(Cursor).status = "ok" THEN IfV5("props", "filters") ELSE "refused"
    <3>1. pc # "filters" /\ pc # "props"
      BY <1>7
    <3> QED BY <3>1, Zenon DEF ProcessUnsubscribe, Reads, ReadsProperties, Proceeds, Moves
  <2>3. /\ TakePacketId(Cursor).status = "ok" /\ Spot(Filled(p, {"id"}), q \o d, T, 0, {})'
        /\ UNCHANGED <<config, sender, known, mqttConnected, header, last>>
    <3>1. {2} \in SUBSET {2} /\ "id" \notin {} /\ {"id"} = {} \cup {"id"}
      OBVIOUS
    <3>2. Spot(Filled(p, {}), i \o (q \o d), T, 0, {2})
      BY <1>3, <2>1, FilledEmpty, Zenon
    <3> DEFINE E == q \o d
    <3>3. E \in Seq(Byte) /\ Spot(Filled(p, {}), BigEndian(p.id, 2) \o E, T, 0, {2})
          /\ Moves(TakePacketId(Cursor), "id")
      BY <1>6, <2>2, <3>2
    <3> HIDE DEF E, q, i, d
    <3>4. /\ TakePacketId(Cursor).status = "ok" /\ Spot(Filled(p, {"id"}), E, T, 0, {})'
          /\ UNCHANGED <<config, sender, known, mqttConnected, header, last>>
      BY <1>1, <1>5, <3>1, <3>3, FieldNames, IdRead, Zenon
    <3> QED BY <3>4 DEF E
  <2>4. /\ v = 5 => pc' = "props"
        /\ v = 4 => pc' = "filters"
    BY <2>2, <2>3 DEF IfV5
  <2>5. /\ v = 5 /\ pc' = "props" => AtProps("props", p, {"id"}, d, T, 0, {})'
        /\ v = 4 => Spot(Filled(p, S), d, T, 0, {})'
    <3>1. S = {"id"} \cup {"props"}
      OBVIOUS
    <3> HIDE DEF S, d
    <3> QED BY <1>1, <1>6, <2>3, <3>1, PropsNow, Zenon
  <2>6. CASE v = 5
    BY <2>3, <2>4, <2>5, <2>6, Zenon DEF MidUnsubscribe
  <2>7. CASE v = 4
    BY <1>11, <2>3, <2>4, <2>5, <2>7
  <2> QED BY <2>6, <2>7
<1>8. CASE pc = "props"
  <2>1. v = 5 /\ AtProps("props", p, {"id"}, d, T, 0, {})
    <3>1. pc # "id" /\ pc # "filters"
      BY <1>8
    <3> QED BY <3>1, Zenon DEF MidUnsubscribe
  <2>2. ReadsProperties("props", "filters")
    <3>1. pc # "id" /\ pc # "filters"
      BY <1>8
    <3> QED BY <3>1, Zenon DEF ProcessUnsubscribe, Reads
  <2>3. /\ \/ AtProps("props", p, {"id"}, d, T, 0, {})'
           \/ pc' = "filters" /\ Spot(Filled(p, {"id"} \cup {"props"}), d, T, 0, {})'
        /\ UNCHANGED <<config, sender, known, mqttConnected, header, last>>
    <3>1. 0 \in Nat /\ {} \in SUBSET {1} /\ "props" \notin {"id"}
          /\ Value(p, "props") \in Seq(PropertyValues)
      BY <1>1, <1>2, <1>5
    <3> HIDE DEF d
    <3> QED BY <1>6, <2>1, <2>2, <3>1, FieldNames, PropsStep, Zenon
  <2>4. {"id"} \cup {"props"} = S
    OBVIOUS
  <2>5. AtProps("props", p, {"id"}, d, T, 0, {})' => MidUnsubscribe(v, p, T)'
    BY <2>1, Zenon DEF MidUnsubscribe
  <2> HIDE DEF S, d
  <2> QED BY <1>11, <2>3, <2>4, <2>5
<1>9. CASE pc = "filters"
  <2>1. PICK j \in 0..Len(p.filters) :
          j < Len(p.filters) /\ Spot(Partly(p, S, "filters", j), RestOf(x, j), T, 0, {})
    <3>1. pc # "id" /\ pc # "props"
      BY <1>9
    <3> QED BY <3>1, Zenon DEF MidUnsubscribe, AtProps
  <2>2. /\ Moves(TakeText(Cursor), "filters")
        /\ pc' = IF TakeText(Cursor).status = "ok"
                 THEN (IF TakeText(Cursor).cursor.rem = 0 THEN "done" ELSE "filters") ELSE "refused"
    <3>1. pc # "id" /\ pc # "props"
      BY <1>9
    <3> QED BY <3>1, Zenon DEF ProcessUnsubscribe, Reads, ReadsProperties, Proceeds, Moves
  <2> DEFINE g == Partly(p, S, "filters", j)
             s == p.filters[j + 1]
             R == RestOf(x, j + 1)
  <2>3. j \in Nat /\ j < Len(x) /\ j + 1 \in 1..Len(x) /\ j + 1 \in 0..Len(p.filters)
    BY <1>10, <2>1, LenProperties
  <2>4. /\ R \in Seq(Byte) /\ RestOf(x, j) = x[j + 1] \o R
        /\ j + 1 = Len(x) => R = <<>> /\ Len(R) = 0
        /\ j + 1 # Len(x) => j + 1 < Len(x) /\ Len(R) # 0
    <3> HIDE DEF x
    <3> QED BY <1>10, <2>3, RestEmpty, Zenon
  <2>5. s \in Strings /\ x[j + 1] = Text(s)
    <3>1. j + 1 \in 1..Len(p.filters)
      BY <1>10, <2>3
    <3>2. s \in Strings
      BY <1>1, <3>1, ElementOfSeq
    <3> QED BY <1>10, <2>3, <3>2
  <2>6. Spot(g, Text(s) \o R, T, 0, {})
    BY <2>1, <2>4, <2>5
  <2>7. Appended(g, "filters", s) = Partly(p, S, "filters", j + 1)
    <3>1. "filters" \notin S /\ j < Len(Value(p, "filters")) /\ Value(p, "filters") \in Seq(Strings)
      BY <1>1, <1>5, <2>1
    <3> HIDE DEF S, s
    <3>2. Appended(g, "filters", Value(p, "filters")[j + 1]) = Partly(p, S, "filters", j + 1)
      BY <2>3, <3>1, FieldNames, PartlyNext, Zenon
    <3> QED BY <1>5, <3>2 DEF s
  <2>8. /\ TakeText(Cursor).status = "ok" /\ TakeText(Cursor).cursor.rem = Len(R) + 0
        /\ Spot([g EXCEPT !["filters"] = Append(@, s)], R, T, 0, {})'
        /\ UNCHANGED <<config, sender, known, mqttConnected, header, last>>
    <3>1. 0 \in Nat
      OBVIOUS
    <3> HIDE DEF g, s, R
    <3> QED BY <2>2, <2>4, <2>5, <2>6, <3>1, TextStep, Zenon
  <2>9. Spot(Partly(p, S, "filters", j + 1), R, T, 0, {})'
    BY <2>7, <2>8 DEF Appended
  <2>10. TakeText(Cursor).cursor.rem = Len(R)
    BY <2>4, <2>8, LenProperties
  <2>11. CASE j + 1 = Len(x)
    <3>1. pc' = "done" /\ R = <<>>
      BY <2>2, <2>4, <2>8, <2>10, <2>11
    <3>2. Partly(p, S, "filters", Len(Value(p, "filters"))) = Filled(p, S \cup {"filters"})
      <4>1. "filters" \notin S /\ Value(p, "filters") \in Seq(Strings)
        BY <1>1, <1>5
      <4> HIDE DEF S
      <4> QED BY <4>1, FieldNames, PartlyAll
    <3>3. S \cup {"filters"} = AllFields(v, p)
      BY <1>3
    <3>4. j + 1 = Len(Value(p, "filters"))
      BY <1>5, <1>10, <2>11
    <3>5. Spot(Filled(p, S \cup {"filters"}), <<>>, T, 0, {})'
      BY <2>9, <3>1, <3>2, <3>4
    <3>6. Done(v, p, T)'
      BY <1>3, <3>1, <3>3, <3>5, DoneIs, Zenon
    <3> QED BY <2>8, <3>6
  <2>12. CASE j + 1 # Len(x)
    <3>1. pc' = "filters" /\ j + 1 < Len(p.filters)
      BY <1>10, <2>2, <2>4, <2>8, <2>10, <2>12
    <3>2. MidUnsubscribe(v, p, T)'
      BY <2>3, <2>9, <3>1, Zenon DEF MidUnsubscribe
    <3> QED BY <2>8, <3>2
  <2> QED BY <2>11, <2>12
<1> QED BY <1>7, <1>8, <1>9, Zenon DEF MidUnsubscribe, AtProps

\* The topic filters and their options, of which i and j were read.
LEMMA ListedIs ==
  ASSUME NEW p, p.filters \in Seq(Strings), p.options \in Seq(Byte), Len(p.options) = Len(p.filters),
         Value(p, "filters") = p.filters, Value(p, "options") = p.options
  PROVE  /\ Listed(p, 0, 0) = Filled(p, {"id", "props"})
         /\ Listed(p, Len(p.filters), Len(p.filters)) = Filled(p, {"id", "props", "filters", "options"})
         /\ \A j \in Nat : j < Len(p.filters) =>
              /\ Appended(Listed(p, j, j), "filters", p.filters[j + 1]) = Listed(p, j + 1, j)
              /\ Appended(Listed(p, j + 1, j), "options", p.options[j + 1]) = Listed(p, j + 1, j + 1)
<1> DEFINE g == Filled(p, {"id", "props"})
           h == Filled(p, {"id", "props", "filters", "options"})
           U(e) == Value(p, e)
           W(e) == IF e \in {"id", "props"} THEN U(e) ELSE <<>>
           X(a, b) == [e \in Fields |-> IF e = "filters" THEN a ELSE IF e = "options" THEN b ELSE W(e)]
           n == Len(p.filters)
           u == p.filters
           o == p.options
<1>1. g = [e \in Fields |-> W(e)]
  BY Zenon DEF Filled
<1>2. W("filters") = <<>> /\ W("options") = <<>>
  <2>1. "filters" \notin {"id", "props"} /\ "options" \notin {"id", "props"}
    OBVIOUS
  <2> QED BY <2>1, Zenon
<1>3. g = X(<<>>, <<>>)
  <2>1. \A e \in Fields : W(e) = IF e = "filters" THEN <<>> ELSE IF e = "options" THEN <<>> ELSE W(e)
    BY <1>2, Zenon
  <2> QED BY <1>1, <2>1, Zenon
<1>4. h = X(u, o)
  <2>1. \A e \in Fields : (IF e \in {"id", "props", "filters", "options"} THEN U(e) ELSE <<>>)
          = IF e = "filters" THEN u ELSE IF e = "options" THEN o ELSE W(e)
    <3>1. U("filters") = u /\ U("options") = o
      OBVIOUS
    <3> HIDE DEF U, u, o
    <3> QED BY <3>1
  <2> QED BY <2>1, Zenon DEF Filled
<1>5. \A i, j : Listed(p, i, j) = X(First(u, i), First(o, j))
  <2>1. ASSUME NEW i, NEW j
        PROVE  Listed(p, i, j) = X(First(u, i), First(o, j))
    <3> DEFINE a == First(u, i)
               b == First(o, j)
    <3>1. Listed(p, i, j) = [f \in Fields |-> CASE f = "filters" -> a [] f = "options" -> b [] OTHER -> g[f]]
      BY Zenon DEF Listed
    <3>2. \A f \in Fields : g[f] = W(f)
      BY <1>1, Zenon
    <3> HIDE DEF a, b, g, W
    <3>3. \A f \in Fields : (CASE f = "filters" -> a [] f = "options" -> b [] OTHER -> g[f])
                 = IF f = "filters" THEN a ELSE IF f = "options" THEN b ELSE W(f)
      BY <3>2, SMT
    <3>4. Listed(p, i, j) = X(a, b)
      BY <3>1, <3>3, Zenon
    <3> QED BY <3>4 DEF a, b
  <2> QED BY <2>1
<1>6. /\ First(u, 0) = <<>> /\ First(o, 0) = <<>> /\ First(u, n) = u /\ First(o, n) = o
  BY BehindEnds, SMT
<1>7. \A j \in Nat : j < n => /\ First(u, j + 1) = Append(First(u, j), u[j + 1])
                              /\ First(o, j + 1) = Append(First(o, j), o[j + 1])
  <2>1. ASSUME NEW j \in Nat, j < n
        PROVE  /\ First(u, j + 1) = Append(First(u, j), u[j + 1])
               /\ First(o, j + 1) = Append(First(o, j), o[j + 1])
    <3>1. j < Len(u) /\ j < Len(o) /\ u \in Seq(Strings) /\ o \in Seq(Byte)
      BY <2>1
    <3> HIDE DEF u, o
    <3> QED BY <3>1, BehindNext, Zenon
  <2> QED BY <2>1
<1>8. /\ \A a, b, e : Appended(X(a, b), "filters", e) = X(Append(a, e), b)
      /\ \A a, b, e : Appended(X(a, b), "options", e) = X(a, Append(b, e))
  <2>1. "filters" \in Fields /\ "options" \in Fields
    BY FieldNames
  <2> HIDE DEF W
  <2> QED BY <2>1 DEF Appended
<1>11. \A a, b, e : Appended(X(a, b), "options", e) = X(a, Append(b, e))
  BY <1>8
<1> HIDE DEF X, g, h, u, o, n
<1>9. Listed(p, 0, 0) = g /\ Listed(p, n, n) = h
  BY <1>3, <1>4, <1>5, <1>6
<1>10. ASSUME NEW j \in Nat, j < n
       PROVE  /\ Appended(Listed(p, j, j), "filters", u[j + 1]) = Listed(p, j + 1, j)
              /\ Appended(Listed(p, j + 1, j), "options", o[j + 1]) = Listed(p, j + 1, j + 1)
  <2> DEFINE a == First(u, j)
             a1 == First(u, j + 1)
             b == First(o, j)
             b1 == First(o, j + 1)
             e == u[j + 1]
             f == o[j + 1]
  <2>1. Listed(p, j, j) = X(a, b) /\ Listed(p, j + 1, j) = X(a1, b) /\ Listed(p, j + 1, j + 1) = X(a1, b1)
    BY <1>5, Zenon
  <2>2. a1 = Append(a, e) /\ b1 = Append(b, f)
    BY <1>7, <1>10, Zenon
  <2>3. Appended(X(a, b), "filters", e) = X(Append(a, e), b)
    BY <1>8, Zenon
  <2>4. Appended(X(a1, b), "options", f) = X(a1, Append(b, f))
    BY <1>11, Zenon
  <2> HIDE DEF a, a1, b, b1, e, f
  <2>5. /\ Appended(Listed(p, j, j), "filters", e) = Listed(p, j + 1, j)
        /\ Appended(Listed(p, j + 1, j), "options", f) = Listed(p, j + 1, j + 1)
    BY <2>1, <2>2, <2>3, <2>4
  <2> QED BY <2>5 DEF e, f
<1> QED BY <1>9, <1>10 DEF g, h, u, o, n
\* One more topic filter, and its options.
LEMMA ListedNext ==
  ASSUME NEW p, p.filters \in Seq(Strings), p.options \in Seq(Byte), Len(p.options) = Len(p.filters),
         Value(p, "filters") = p.filters, Value(p, "options") = p.options,
         NEW j \in Nat, j < Len(p.filters)
  PROVE  /\ Appended(Listed(p, j, j), "filters", p.filters[j + 1]) = Listed(p, j + 1, j)
         /\ Appended(Listed(p, j + 1, j), "options", p.options[j + 1]) = Listed(p, j + 1, j + 1)
BY ListedIs

\* Topic filters with their options one by one.
LEMMA FilterPiecesAre ==
  ASSUME NEW p, p.filters \in Seq(Strings), p.options \in Seq(Byte), Len(p.options) = Len(p.filters)
  PROVE  /\ FilterPieces(p) \in Seq(Seq(Byte)) /\ Len(FilterPieces(p)) = Len(p.filters)
         /\ \A k \in 1..Len(p.filters) : FilterPieces(p)[k] = Text(p.filters[k]) \o <<p.options[k]>>
         /\ \A k \in 1..Len(p.filters) : Len(FilterPieces(p)[k]) >= 1
         /\ RestOf(FilterPieces(p), 0) = FlattenSeq(FilterPieces(p))
         /\ FlattenSeq(FilterPieces(p)) \in Seq(Byte)
<1>1. /\ FilterPieces(p) \in Seq(Seq(Byte)) /\ Len(FilterPieces(p)) = Len(p.filters)
      /\ \A k \in 1..Len(p.filters) : FilterPieces(p)[k] = Text(p.filters[k]) \o <<p.options[k]>>
      /\ Wired(FiltersSize(p), FlattenSeq(FilterPieces(p)))
  BY FilterPiecesType, Zenon
<1>2. ASSUME NEW k \in 1..Len(p.filters)
      PROVE  Len(FilterPieces(p)[k]) >= 1
  <2>1. p.filters[k] \in Strings /\ p.options[k] \in Byte
    <3>1. k \in 1..Len(p.options)
      OBVIOUS
    <3> QED BY <3>1, ElementOfSeq
  <2> DEFINE f == p.filters[k]
             o == p.options[k]
  <2>2. f \in Strings /\ o \in Byte
    BY <2>1
  <2>3. FilterPieces(p)[k] = Text(f) \o <<o>>
    BY <1>1
  <2> HIDE DEF f, o
  <2>4. Wired(2 + Len(f), Text(f)) /\ Wired(1, <<o>>)
    BY <2>2, WiredText, WiredByte, Zenon
  <2>5. Len(Text(f) \o <<o>>) = Len(Text(f)) + Len(<<o>>) /\ Len(Text(f)) \in Nat /\ Len(<<o>>) = 1
    <3>1. Text(f) \in Seq(Byte) /\ <<o>> \in Seq(Byte) /\ Len(<<o>>) = 1
      BY <2>4 DEF Wired
    <3> QED BY ONLY <3>1, OfJoined
  <2> QED BY <2>3, <2>5
<1> QED BY <1>1, <1>2, RestEnds, Zenon DEF Wired

\* Every read of SUBSCRIBE.
LEMMA SubscribeStep ==
  ASSUME NEW CONSTANT v \in {4, 5}, NEW CONSTANT p \in Subscribes(v), NEW CONSTANT T \in Seq(Byte),
         Kept(v, p) = p, propsLimit \in Nat, known = v, MidSubscribe(v, p, T), ProcessSubscribe
  PROVE  /\ MidSubscribe(v, p, T)' \/ Done(v, p, T)'
         /\ UNCHANGED <<config, sender, known, mqttConnected, header, last>>
<1>1. /\ p.type = "subscribe" /\ p.id \in Ids /\ p.props \in PropsOf(v)
      /\ p.filters \in Seq(Strings) /\ Len(p.filters) >= 1
      /\ p.options \in Seq(Byte) /\ Len(p.options) = Len(p.filters)
      /\ \A k \in DOMAIN p.options : p.options[k] % 4 # 3
  BY DEF Subscribes, AtLeastOne
<1>2. p.props \in Seq(PropertyValues)
  BY <1>1, PropsAreProperties, Zenon
<1> DEFINE q == PropBytes(v, p.props)
           i == BigEndian(p.id, 2)
           d == FlattenSeq(FilterPieces(p))
           x == FilterPieces(p)
           S == {"id", "props"}
<1>3. Body(v, p) = i \o (q \o d) /\ Uncounted(p) = 0 /\ AllFields(v, p) = {"id", "props", "filters", "options"}
  <2>1. p.type \notin {"connect", "connack"}
    BY <1>1
  <2>2. Body(v, p) = i \o (q \o FlattenSeq(FilterPieces(Kept(v, p))))
    BY <1>1, BodyOf, Zenon DEF IdBytes
  <2>3. FlattenSeq(FilterPieces(Kept(v, p))) = d
    OBVIOUS
  <2>4. Body(v, p) = i \o (q \o d)
    <3> HIDE DEF i, q, d
    <3> QED BY ONLY <2>2, <2>3
  <2>5. Uncounted(p) = 0 /\ AllFields(v, p) = {"id", "props", "filters", "options"}
    BY <1>1, <2>1, AllFieldsAre, UncountedIs, Zenon
  <2> QED BY <2>4, <2>5
<1>5. /\ Value(p, "id") = <<p.id>> /\ Value(p, "filters") = p.filters /\ Value(p, "options") = p.options /\ Value(p, "props") = p.props
  <2>1. p.id # 0
    BY <1>1, IdsAreTwoBytes
  <2> QED BY <2>1, ValueIs, Zenon
<1>6. q \in Seq(Byte) /\ d \in Seq(Byte) /\ q \o d \in Seq(Byte)
  <2>1. q \in Seq(Byte)
    BY <1>1, WiredPropBytes, Zenon DEF Wired
  <2>2. d \in Seq(Byte)
    BY <1>1, FilterPiecesAre, Zenon
  <2> HIDE DEF q, d
  <2> QED BY <2>1, <2>2, OfJoined
<1>10. /\ x \in Seq(Seq(Byte)) /\ Len(x) = Len(p.filters) /\ RestOf(x, 0) = d
       /\ \A k \in 1..Len(x) : x[k] = Text(p.filters[k]) \o <<p.options[k]>>
       /\ \A k \in 1..Len(x) : Len(x[k]) >= 1
  BY <1>1, FilterPiecesAre, Zenon
<1>11. ASSUME pc' = "filters", Spot(Filled(p, S), d, T, 0, {})'
       PROVE  MidSubscribe(v, p, T)'
  <2>1. Listed(p, 0, 0) = Filled(p, S)
    BY <1>1, <1>5, ListedIs
  <2>2. Spot(Listed(p, 0, 0), RestOf(x, 0), T, 0, {})'
    BY <1>10, <1>11, <2>1
  <2>3. 0 \in 0..Len(p.filters) /\ 0 < Len(p.filters)
    BY <1>1, LenProperties
  <2> QED BY <1>11, <2>2, <2>3, Zenon DEF MidSubscribe
<1>7. CASE pc = "id"
  <2>1. Spot(Nothing, Body(v, p), T, 0, {2})
    <3>1. pc # "filters" /\ pc # "options" /\ pc # "props"
      BY <1>7
    <3> QED BY <3>1, Zenon DEF MidSubscribe, AtProps
  <2>2. /\ Moves(TakePacketId(Cursor), "id")
        /\ pc' = IF TakePacketId(Cursor).status = "ok" THEN IfV5("props", "filters") ELSE "refused"
    <3>1. pc # "filters" /\ pc # "options" /\ pc # "props"
      BY <1>7
    <3> QED BY <3>1, Zenon DEF ProcessSubscribe, Reads, ReadsProperties, Proceeds, Moves
  <2>3. /\ TakePacketId(Cursor).status = "ok" /\ Spot(Filled(p, {"id"}), q \o d, T, 0, {})'
        /\ UNCHANGED <<config, sender, known, mqttConnected, header, last>>
    <3>1. {2} \in SUBSET {2} /\ "id" \notin {} /\ {"id"} = {} \cup {"id"}
      OBVIOUS
    <3>2. Spot(Filled(p, {}), i \o (q \o d), T, 0, {2})
      BY <1>3, <2>1, FilledEmpty, Zenon
    <3> DEFINE E == q \o d
    <3>3. E \in Seq(Byte) /\ Spot(Filled(p, {}), BigEndian(p.id, 2) \o E, T, 0, {2})
          /\ Moves(TakePacketId(Cursor), "id")
      BY <1>6, <2>2, <3>2
    <3> HIDE DEF E, q, i, d
    <3>4. /\ TakePacketId(Cursor).status = "ok" /\ Spot(Filled(p, {"id"}), E, T, 0, {})'
          /\ UNCHANGED <<config, sender, known, mqttConnected, header, last>>
      BY <1>1, <1>5, <3>1, <3>3, FieldNames, IdRead, Zenon
    <3> QED BY <3>4 DEF E
  <2>4. /\ v = 5 => pc' = "props"
        /\ v = 4 => pc' = "filters"
    BY <2>2, <2>3 DEF IfV5
  <2>5. /\ v = 5 /\ pc' = "props" => AtProps("props", p, {"id"}, d, T, 0, {})'
        /\ v = 4 => Spot(Filled(p, S), d, T, 0, {})'
    <3>1. S = {"id"} \cup {"props"}
      OBVIOUS
    <3> HIDE DEF S, d
    <3> QED BY <1>1, <1>6, <2>3, <3>1, PropsNow, Zenon
  <2>6. CASE v = 5
    BY <2>3, <2>4, <2>5, <2>6, Zenon DEF MidSubscribe
  <2>7. CASE v = 4
    BY <1>11, <2>3, <2>4, <2>5, <2>7
  <2> QED BY <2>6, <2>7
<1>8. CASE pc = "props"
  <2>1. v = 5 /\ AtProps("props", p, {"id"}, d, T, 0, {})
    <3>1. pc # "id" /\ pc # "filters" /\ pc # "options"
      BY <1>8
    <3> QED BY <3>1, Zenon DEF MidSubscribe
  <2>2. ReadsProperties("props", "filters")
    <3>1. pc # "id" /\ pc # "filters" /\ pc # "options"
      BY <1>8
    <3> QED BY <3>1, Zenon DEF ProcessSubscribe, Reads
  <2>3. /\ \/ AtProps("props", p, {"id"}, d, T, 0, {})'
           \/ pc' = "filters" /\ Spot(Filled(p, {"id"} \cup {"props"}), d, T, 0, {})'
        /\ UNCHANGED <<config, sender, known, mqttConnected, header, last>>
    <3>1. 0 \in Nat /\ {} \in SUBSET {1} /\ "props" \notin {"id"}
          /\ Value(p, "props") \in Seq(PropertyValues)
      BY <1>1, <1>2, <1>5
    <3> HIDE DEF d
    <3> QED BY <1>6, <2>1, <2>2, <3>1, FieldNames, PropsStep, Zenon
  <2>4. {"id"} \cup {"props"} = S
    OBVIOUS
  <2>5. AtProps("props", p, {"id"}, d, T, 0, {})' => MidSubscribe(v, p, T)'
    BY <2>1, Zenon DEF MidSubscribe
  <2> HIDE DEF S, d
  <2> QED BY <1>11, <2>3, <2>4, <2>5
<1>9. ASSUME NEW j \in 0..Len(p.filters), j < Len(p.filters)
      PROVE  /\ j \in Nat /\ j + 1 \in 0..Len(p.filters) /\ p.filters[j + 1] \in Strings /\ p.options[j + 1] \in Byte
             /\ RestOf(x, j + 1) \in Seq(Byte) /\ <<p.options[j + 1]>> \o RestOf(x, j + 1) \in Seq(Byte)
             /\ RestOf(x, j) = Text(p.filters[j + 1]) \o (<<p.options[j + 1]>> \o RestOf(x, j + 1))
             /\ j + 1 = Len(p.filters) => RestOf(x, j + 1) = <<>> /\ Len(RestOf(x, j + 1)) = 0
             /\ j + 1 # Len(p.filters) => j + 1 < Len(p.filters) /\ Len(RestOf(x, j + 1)) # 0
             /\ Appended(Listed(p, j, j), "filters", p.filters[j + 1]) = Listed(p, j + 1, j)
             /\ Appended(Listed(p, j + 1, j), "options", p.options[j + 1]) = Listed(p, j + 1, j + 1)
             /\ p.options[j + 1] % 4 # 3
  <2> DEFINE s == p.filters[j + 1]
             o == p.options[j + 1]
             R == RestOf(x, j + 1)
  <2>1. j \in Nat /\ j < Len(x) /\ j + 1 \in 1..Len(p.filters) /\ j + 1 \in 0..Len(p.filters)
        /\ j + 1 \in 1..Len(p.options) /\ j + 1 \in 1..Len(x)
    BY <1>1, <1>9, <1>10, LenProperties
  <2>2. /\ R \in Seq(Byte) /\ RestOf(x, j) = x[j + 1] \o R
        /\ j + 1 = Len(x) => R = <<>> /\ Len(R) = 0
        /\ j + 1 # Len(x) => j + 1 < Len(x) /\ Len(R) # 0
    <3> HIDE DEF x
    <3> QED BY <1>10, <2>1, RestEmpty, Zenon
  <2>3. s \in Strings /\ o \in Byte
    BY <1>1, <2>1, ElementOfSeq
  <2>11. o % 4 # 3
    <3>1. j + 1 \in DOMAIN p.options
      BY <1>1, <2>1, LenProperties
    <3> QED BY <1>1, <3>1
  <2>4. x[j + 1] = Text(s) \o <<o>>
    BY <1>10, <2>1
  <2>5. /\ Appended(Listed(p, j, j), "filters", s) = Listed(p, j + 1, j)
        /\ Appended(Listed(p, j + 1, j), "options", o) = Listed(p, j + 1, j + 1)
    BY <1>1, <1>5, <1>9, <2>1, ListedNext, Zenon
  <2>6. j + 1 = Len(p.filters) <=> j + 1 = Len(x)
    BY <1>10
  <2>7. Text(s) \in Seq(Byte) /\ <<o>> \in Seq(Byte)
    <3> HIDE DEF s, o
    <3> QED BY <2>3, TextIs, IsOneSeq
  <2> HIDE DEF s, o, R
  <2>8. (Text(s) \o <<o>>) \o R = Text(s) \o (<<o>> \o R) /\ <<o>> \o R \in Seq(Byte)
    <3>1. Text(s) \in Seq(Byte) /\ <<o>> \in Seq(Byte) /\ R \in Seq(Byte)
      BY <2>2, <2>7
    <3>2. (Text(s) \o <<o>>) \o R = Text(s) \o (<<o>> \o R)
      BY ONLY <3>1, AssociateBytes, SMTT(30)
    <3> QED BY <3>1, <3>2, OfJoined
  <2>9. RestOf(x, j) = Text(s) \o (<<o>> \o R)
    BY <2>2, <2>4, <2>8
  <2>10. /\ j + 1 = Len(p.filters) => R = <<>> /\ Len(R) = 0
         /\ j + 1 # Len(p.filters) => j + 1 < Len(p.filters) /\ Len(R) # 0
    BY <1>10, <2>2
  <2> QED BY <2>1, <2>2, <2>3, <2>5, <2>8, <2>9, <2>10, <2>11 DEF s, o, R
<1>12. CASE pc = "filters"
  <2>1. PICK j \in 0..Len(p.filters) : j < Len(p.filters) /\ Spot(Listed(p, j, j), RestOf(x, j), T, 0, {})
    <3>1. pc # "id" /\ pc # "props" /\ pc # "options"
      BY <1>12
    <3> QED BY <3>1, Zenon DEF MidSubscribe, AtProps
  <2>2. /\ Moves(TakeText(Cursor), "filters")
        /\ pc' = IF TakeText(Cursor).status = "ok" THEN "options" ELSE "refused"
    <3>1. pc # "id" /\ pc # "props" /\ pc # "options"
      BY <1>12
    <3> QED BY <3>1, Zenon DEF ProcessSubscribe, Reads, ReadsProperties, Proceeds, Moves
  <2> DEFINE s == p.filters[j + 1]
             R == <<p.options[j + 1]>> \o RestOf(x, j + 1)
             g == Listed(p, j, j)
  <2>3. s \in Strings /\ R \in Seq(Byte) /\ RestOf(x, j) = Text(s) \o R /\ j \in Nat
        /\ Appended(g, "filters", s) = Listed(p, j + 1, j)
    BY <1>9, <2>1
  <2>4. Spot(g, Text(s) \o R, T, 0, {})
    BY <2>1, <2>3
  <2>5. /\ TakeText(Cursor).status = "ok"
        /\ Spot([g EXCEPT !["filters"] = Append(@, s)], R, T, 0, {})'
        /\ UNCHANGED <<config, sender, known, mqttConnected, header, last>>
    <3>1. 0 \in Nat
      OBVIOUS
    <3> HIDE DEF g, s, R
    <3> QED BY <2>2, <2>3, <2>4, <3>1, TextStep, Zenon
  <2>6. Spot(Listed(p, j + 1, j), R, T, 0, {})'
    BY <2>3, <2>5 DEF Appended
  <2>7. pc' = "options"
    BY <2>2, <2>5
  <2> QED BY <2>1, <2>5, <2>6, <2>7, Zenon DEF MidSubscribe
<1>13. CASE pc = "options"
  <2>1. PICK j \in 0..Len(p.filters) :
          /\ j < Len(p.filters)
          /\ Spot(Listed(p, j + 1, j), <<p.options[j + 1]>> \o RestOf(x, j + 1), T, 0, {})
    <3>1. pc # "id" /\ pc # "props" /\ pc # "filters"
      BY <1>13
    <3> QED BY <3>1, Zenon DEF MidSubscribe, AtProps
  <2>2. /\ Moves(TakeOptions(Cursor), "options")
        /\ pc' = IF TakeOptions(Cursor).status = "ok"
                 THEN (IF TakeOptions(Cursor).cursor.rem = 0 THEN "done" ELSE "filters") ELSE "refused"
    <3>1. pc # "id" /\ pc # "props" /\ pc # "filters"
      BY <1>13
    <3> QED BY <3>1, Zenon DEF ProcessSubscribe, Reads, ReadsProperties, Proceeds, Moves
  <2> DEFINE o == p.options[j + 1]
             R == RestOf(x, j + 1)
             g == Listed(p, j + 1, j)
  <2>3. /\ o \in Byte /\ R \in Seq(Byte) /\ j \in Nat /\ j + 1 \in 0..Len(p.filters)
        /\ Appended(g, "options", o) = Listed(p, j + 1, j + 1)
        /\ j + 1 = Len(p.filters) => R = <<>> /\ Len(R) = 0
        /\ j + 1 # Len(p.filters) => j + 1 < Len(p.filters) /\ Len(R) # 0
        /\ o % 4 # 3
    BY <1>9, <2>1
  <2>4. Spot(g, <<o>> \o R, T, 0, {})
    BY <2>1
  <2>9. TakeOptions(Cursor) = TakeByte(Cursor)
    <3> DEFINE X == <<o>>
    <3>1. X \in Seq(Byte) /\ Len(X) = 1 /\ 0 \in Nat
      BY <2>3, IsOneSeq
    <3>2. Blocks({}, Len(X), {})
      BY <3>1, NoBlocks
    <3>3. Spot(g, X \o R, T, 0, {})
      BY <2>4
    <3>4. Placed(Cursor, X \o R, T) /\ Fits(Cursor, Len(X))
      <4> HIDE DEF X, o, R, g
      <4> QED BY <2>3, <3>1, <3>2, <3>3, SpotFits, Zenon
    <3>5. Placed(Cursor, <<o>> \o R, T) /\ Fits(Cursor, 1)
      BY <3>1, <3>4
    <3> HIDE DEF X, o, R, g
    <3> QED BY <2>3, <3>5, TakesOptions, Zenon
  <2>10. /\ Moves(TakeByte(Cursor), "options")
         /\ pc' = IF TakeByte(Cursor).status = "ok"
                  THEN (IF TakeByte(Cursor).cursor.rem = 0 THEN "done" ELSE "filters") ELSE "refused"
    BY <2>2, <2>9
  <2>5. /\ TakeByte(Cursor).status = "ok" /\ TakeByte(Cursor).cursor.rem = Len(R)
        /\ Spot([g EXCEPT !["options"] = Append(@, o)], R, T, 0, {})'
        /\ UNCHANGED <<config, sender, known, mqttConnected, header, last>>
    <3>1. Blocks({}, 1, {})
      BY NoBlocks
    <3> HIDE DEF g, o, R
    <3> QED BY <2>3, <2>4, <2>10, <3>1, ByteStep, Zenon
  <2>6. Spot(Listed(p, j + 1, j + 1), R, T, 0, {})'
    BY <2>3, <2>5 DEF Appended
  <2>7. CASE j + 1 = Len(p.filters)
    <3>1. pc' = "done" /\ R = <<>>
      BY <2>10, <2>3, <2>5, <2>7
    <3>2. Listed(p, j + 1, j + 1) = Filled(p, AllFields(v, p))
      <4>1. Listed(p, Len(p.filters), Len(p.filters)) = Filled(p, {"id", "props", "filters", "options"})
        BY <1>1, <1>5, ListedIs
      <4> QED BY <1>3, <2>7, <4>1
    <3>3. Spot(Filled(p, AllFields(v, p)), <<>>, T, 0, {})'
      BY <2>6, <3>1, <3>2
    <3>4. Done(v, p, T)'
      BY <1>3, <3>1, <3>3, DoneIs, Zenon
    <3> QED BY <2>5, <3>4
  <2>8. CASE j + 1 # Len(p.filters)
    <3>1. pc' = "filters" /\ j + 1 < Len(p.filters)
      BY <2>10, <2>3, <2>5, <2>8
    <3>2. MidSubscribe(v, p, T)'
      BY <2>3, <2>6, <3>1, Zenon DEF MidSubscribe
    <3> QED BY <2>5, <3>2
  <2> QED BY <2>7, <2>8
<1> QED BY <1>7, <1>8, <1>12, <1>13, Zenon DEF MidSubscribe, AtProps

\* QoS, DUP and RETAIN are what the first byte says.
LEMMA PublishHeader ==
  ASSUME NEW v, NEW p \in Publishes(v)
  PROVE  /\ QosOf(HeaderOf(p)) = p.qos /\ p.qos \in 0..2
         /\ (FlagsOf(HeaderOf(p)) >= 8 <=> p.dup) /\ (HeaderOf(p) % 2 = 1 <=> p.retain)
         /\ TypeOf(HeaderOf(p)) = "publish" /\ HeaderOf(p) \in Byte
<1> DEFINE f == PublishOptions(p)
           h == HeaderOf(p)
<1>1. p.type = "publish" /\ p.dup \in BOOLEAN /\ p.qos \in 0..2 /\ p.retain \in BOOLEAN
  BY DEF Publishes
<1>2. f = (IF p.dup THEN 8 ELSE 0) + 2 * p.qos + (IF p.retain THEN 1 ELSE 0)
  BY Zenon DEF PublishOptions
<1>3. h = FixedHeader("publish", f)
  BY <1>1, Zenon DEF HeaderOf
<1> DEFINE dup == p.dup
           qos == p.qos
           retain == p.retain
           t == "publish"
<1>7. dup \in BOOLEAN /\ qos \in 0..2 /\ retain \in BOOLEAN
  BY <1>1
<1>8. f = (IF dup THEN 8 ELSE 0) + 2 * qos + (IF retain THEN 1 ELSE 0)
  BY <1>2
<1>5. t \in TypeNames
  BY DEF TypeNames
<1>9. h = FixedHeader(t, f)
  BY <1>3
<1> HIDE DEF f, h, dup, qos, retain, t
<1>10. f \in 0..15 /\ (f % 8) \div 2 = qos /\ (f >= 8 <=> dup) /\ (f % 2 = 1 <=> retain)
  BY ONLY <1>7, <1>8, OptionsIs
<1>4. f \in 0..15 /\ (f % 8) \div 2 = p.qos /\ (f >= 8 <=> p.dup) /\ (f % 2 = 1 <=> p.retain)
  BY <1>10 DEF qos, dup, retain
<1>11. /\ FixedHeader(t, f) \in Byte /\ TypeOf(FixedHeader(t, f)) = t
         /\ FlagsOf(FixedHeader(t, f)) = f
         /\ FixedHeader(t, f) % 8 = f % 8 /\ FixedHeader(t, f) % 2 = f % 2
  BY ONLY <1>4, <1>5, HeaderIs
<1>6. /\ h \in Byte /\ TypeOf(h) = "publish" /\ FlagsOf(h) = f /\ h % 8 = f % 8 /\ h % 2 = f % 2
  BY <1>9, <1>11 DEF t
<1> QED BY <1>1, <1>4, <1>6, Zenon DEF h, QosOf

\* Every read of PUBLISH.
LEMMA PublishStep ==
  ASSUME NEW CONSTANT v \in {4, 5}, NEW CONSTANT p \in Publishes(v), NEW CONSTANT T \in Seq(Byte),
         propsLimit \in Nat, known = v, header = HeaderOf(p),
         MidPublish(v, p, T), ProcessPublish
  PROVE  /\ MidPublish(v, p, T)' \/ Done(v, p, T)'
         /\ UNCHANGED <<config, sender, known, mqttConnected, header, last>>
<1>1. /\ p.type = "publish" /\ p.topic \in Strings /\ p.id \in TwoBytes /\ p.props \in PropsOf(v)
      /\ p.payload \in Seq(Byte) /\ (p.id = 0 <=> p.qos = 0) /\ p.qos \in 0..2
  BY DEF Publishes
<1>2. p.props \in Seq(PropertyValues)
  BY <1>1, PropsAreProperties, Zenon
<1> DEFINE q == PropBytes(v, p.props)
           i == PublishId(p)
           d == p.payload
           E == i \o (q \o d)
           D == q \o d
<1>3. Body(v, p) = Text(p.topic) \o E /\ Uncounted(p) = 0
      /\ AllFields(v, p) = {"topic", "id", "props", "payload"}
  <2>1. p.type \notin {"connect", "connack"}
    BY <1>1
  <2> QED BY <1>1, <2>1, BodyOf, UncountedIs, AllFieldsAre, Zenon
<1>4. /\ Value(p, "topic") = <<p.topic>> /\ Value(p, "payload") = <<d>> /\ Value(p, "props") = p.props
      /\ Value(p, "id") = IF p.id = 0 THEN <<>> ELSE <<p.id>>
  BY ValueIs, Zenon
<1>5. /\ p.qos = 0 => i = <<>> /\ Value(p, "id") = <<>>
      /\ p.qos # 0 => i = BigEndian(p.id, 2) /\ Value(p, "id") = <<p.id>> /\ p.id \in Ids
  BY <1>1, <1>4 DEF PublishId, Ids
<1>6. q \in Seq(Byte) /\ D \in Seq(Byte)
  <2>1. q \in Seq(Byte)
    BY <1>1, WiredPropBytes, Zenon DEF Wired
  <2> HIDE DEF q
  <2> QED BY <1>1, <2>1, OfJoined
<1>7. /\ p.qos = 0 => E = D
      /\ p.qos # 0 => E = BigEndian(p.id, 2) \o D
      /\ E \in Seq(Byte)
  <2> HIDE DEF D
  <2>1. CASE p.qos = 0
    <3>1. i = <<>>
      BY <1>5, <2>1
    <3>2. E = <<>> \o D
      BY <3>1, Zenon DEF D
    <3>3. <<>> \o D = D
      BY <1>6, WiredEmpty, Zenon
    <3> HIDE DEF E
    <3> QED BY <1>6, <2>1, <3>2, <3>3
  <2>2. CASE p.qos # 0
    <3>1. p.id \in TwoBytes
      BY <1>1
    <3>2. BigEndian(p.id, 2) \in Seq(Byte)
      BY <3>1, WiredId, Zenon DEF Wired
    <3>3. E = BigEndian(p.id, 2) \o D
      BY <1>5, <2>2, Zenon DEF D
    <3> DEFINE b == BigEndian(p.id, 2)
    <3> HIDE DEF b, E
    <3> QED BY <1>6, <2>2, <3>2, <3>3, OfJoined DEF b
  <2> QED BY <2>1, <2>2
<1>8. QosOf(header) = p.qos
  BY PublishHeader, Zenon
<1>9. IfV5("props", "payload") = IF v = 5 THEN "props" ELSE "payload"
  BY DEF IfV5
<1> HIDE DEF E, D, q, i
\* What comes behind the id, or behind the topic.
<1>10. ASSUME Spot(Filled(p, {"topic", "id"}), q \o d, T, 0, {})', pc' = IfV5("props", "payload")
       PROVE  MidPublish(v, p, T)'
  <2>1. {"topic", "id", "props"} = {"topic", "id"} \cup {"props"}
    OBVIOUS
  <2>2. /\ v = 5 /\ pc' = "props" => AtProps("props", p, {"topic", "id"}, d, T, 0, {})'
        /\ v = 4 => Spot(Filled(p, {"topic", "id", "props"}), d, T, 0, {})'
    BY <1>1, <1>10, <2>1, PropsNow, Zenon DEF q
  <2>3. CASE v = 5
    BY <1>9, <1>10, <2>2, <2>3, Zenon DEF MidPublish
  <2>4. CASE v = 4
    <3>1. pc' = "payload"
      BY <1>9, <1>10, <2>4
    <3>2. Spot(Filled(p, {"topic", "id", "props"}), d, T, 0, {})'
      BY <2>2, <2>4
    <3> QED BY <3>1, <3>2, Zenon DEF MidPublish
  <2> QED BY <2>3, <2>4
<1>11. CASE pc = "topic"
  <2>1. Spot(Nothing, Body(v, p), T, 0, {})
    <3>1. pc # "id" /\ pc # "props" /\ pc # "payload"
      BY <1>11
    <3> QED BY <3>1, Zenon DEF MidPublish, AtProps
  <2>2. /\ Moves(TakeText(Cursor), "topic")
        /\ pc' = IF TakeText(Cursor).status = "ok"
                 THEN (CASE QosOf(header) = 0 -> IfV5("props", "payload")
                         [] QosOf(header) \in {1, 2} -> "id"
                         [] OTHER -> "refused") ELSE "refused"
    <3>1. pc # "id" /\ pc # "props" /\ pc # "payload"
      BY <1>11
    <3> QED BY <3>1, Zenon DEF ProcessPublish, Reads, ReadsProperties, Proceeds, Moves
  <2>3. /\ TakeText(Cursor).status = "ok" /\ Spot(Filled(p, {"topic"}), E, T, 0, {})'
        /\ UNCHANGED <<config, sender, known, mqttConnected, header, last>>
    <3>1. "topic" \notin {} /\ {"topic"} = {} \cup {"topic"} /\ 0 \in Nat
      OBVIOUS
    <3>2. Spot(Filled(p, {}), Text(p.topic) \o E, T, 0, {})
      BY <1>3, <2>1, FilledEmpty, Zenon
    <3>3. E \in Seq(Byte) /\ Moves(TakeText(Cursor), "topic") /\ p.topic \in Strings /\ Value(p, "topic") = <<p.topic>>
      BY <1>1, <1>4, <1>7, <2>2
    <3> QED BY <3>1, <3>2, <3>3, FieldNames, TextRead, Zenon
  <2>4. CASE p.qos = 0
    <3>1. pc' = IfV5("props", "payload")
      <4>1. pc' = CASE p.qos = 0 -> IfV5("props", "payload") [] p.qos \in {1, 2} -> "id" [] OTHER -> "refused"
        BY <1>8, <2>2, <2>3
      <4> QED BY <2>4, <4>1
    <3>2. {"topic", "id"} = {"topic"} \cup {"id"}
      OBVIOUS
    <3>3. Filled(p, {"topic"} \cup {"id"}) = Filled(p, {"topic"})
      BY <1>5, <2>4, FilledSame
    <3>4. Spot(Filled(p, {"topic", "id"}), q \o d, T, 0, {})'
      BY <1>7, <2>3, <2>4, <3>2, <3>3 DEF D
    <3> QED BY <1>10, <2>3, <3>1, <3>4
  <2>5. CASE p.qos # 0
    <3>1. pc' = "id"
      <4>1. pc' = CASE p.qos = 0 -> IfV5("props", "payload") [] p.qos \in {1, 2} -> "id" [] OTHER -> "refused"
        BY <1>8, <2>2, <2>3
      <4>2. p.qos \in {1, 2}
        BY <1>1, <2>5
      <4> QED BY <2>5, <4>1, <4>2
    <3>2. Spot(Filled(p, {"topic"}), PublishId(p) \o (PropBytes(v, p.props) \o p.payload), T, 0, {})'
      BY <2>3 DEF E, i, q
    <3> QED BY <2>3, <2>5, <3>1, <3>2, Zenon DEF MidPublish
  <2> QED BY <2>4, <2>5
<1>12. CASE pc = "id"
  <2>1. p.qos # 0 /\ Spot(Filled(p, {"topic"}), PublishId(p) \o (PropBytes(v, p.props) \o p.payload), T, 0, {})
    <3>1. pc # "topic" /\ pc # "props" /\ pc # "payload"
      BY <1>12
    <3> QED BY <3>1, Zenon DEF MidPublish, AtProps
  <2>2. /\ Moves(TakePacketId(Cursor), "id")
        /\ pc' = IF TakePacketId(Cursor).status = "ok" THEN IfV5("props", "payload") ELSE "refused"
    <3>1. pc # "topic" /\ pc # "props" /\ pc # "payload"
      BY <1>12
    <3> QED BY <3>1, Zenon DEF ProcessPublish, Reads, ReadsProperties, Proceeds, Moves
  <2>3. Spot(Filled(p, {"topic"}), E, T, 0, {})
    BY <2>1 DEF E, i, q
  <2>4. /\ TakePacketId(Cursor).status = "ok" /\ Spot(Filled(p, {"topic", "id"}), D, T, 0, {})'
        /\ UNCHANGED <<config, sender, known, mqttConnected, header, last>>
    <3>1. {} \in SUBSET {2} /\ "id" \notin {"topic"} /\ {"topic", "id"} = {"topic"} \cup {"id"}
      OBVIOUS
    <3>2. Spot(Filled(p, {"topic"}), BigEndian(p.id, 2) \o D, T, 0, {})
      BY <1>7, <2>1, <2>3
    <3>3. D \in Seq(Byte) /\ Moves(TakePacketId(Cursor), "id") /\ p.id \in Ids /\ Value(p, "id") = <<p.id>>
      BY <1>5, <1>6, <2>1, <2>2
    <3> QED BY <3>1, <3>2, <3>3, FieldNames, IdRead, Zenon
  <2>5. pc' = IfV5("props", "payload")
    BY <2>2, <2>4
  <2>6. Spot(Filled(p, {"topic", "id"}), q \o d, T, 0, {})'
    BY <2>4 DEF D
  <2> QED BY <1>10, <2>4, <2>5, <2>6
<1>13. CASE pc = "props"
  <2>1. v = 5 /\ AtProps("props", p, {"topic", "id"}, d, T, 0, {})
    <3>1. pc # "topic" /\ pc # "id" /\ pc # "payload"
      BY <1>13
    <3> QED BY <3>1, Zenon DEF MidPublish
  <2>2. ReadsProperties("props", "payload")
    <3>1. pc # "topic" /\ pc # "id" /\ pc # "payload"
      BY <1>13
    <3> QED BY <3>1, Zenon DEF ProcessPublish, Reads
  <2>3. /\ \/ AtProps("props", p, {"topic", "id"}, d, T, 0, {})'
           \/ pc' = "payload" /\ Spot(Filled(p, {"topic", "id"} \cup {"props"}), d, T, 0, {})'
        /\ UNCHANGED <<config, sender, known, mqttConnected, header, last>>
    <3>1. d \in Seq(Byte) /\ 0 \in Nat /\ {} \in SUBSET {1} /\ "props" \notin {"topic", "id"}
          /\ Value(p, "props") \in Seq(PropertyValues)
      BY <1>1, <1>2, <1>4
    <3> QED BY <2>1, <2>2, <3>1, FieldNames, PropsStep, Zenon
  <2>4. {"topic", "id"} \cup {"props"} = {"topic", "id", "props"}
    OBVIOUS
  <2> QED BY <2>1, <2>3, <2>4, Zenon DEF MidPublish
<1>14. CASE pc = "payload"
  <2>1. Spot(Filled(p, {"topic", "id", "props"}), d, T, 0, {})
    <3>1. pc # "topic" /\ pc # "id" /\ pc # "props"
      BY <1>14
    <3> QED BY <3>1, Zenon DEF MidPublish, AtProps
  <2>2. /\ Moves(TakeRest(Cursor), "payload")
        /\ pc' = IF TakeRest(Cursor).status = "ok" THEN "done" ELSE "refused"
    <3>1. pc # "topic" /\ pc # "id" /\ pc # "props"
      BY <1>14
    <3> QED BY <3>1, Zenon DEF ProcessPublish, Reads, ReadsProperties, Proceeds, Moves
  <2>3. /\ TakeRest(Cursor).status = "ok" /\ Spot(Filled(p, {"topic", "id", "props", "payload"}), <<>>, T, 0, {})'
        /\ UNCHANGED <<config, sender, known, mqttConnected, header, last>>
    <3>1. "payload" \notin {"topic", "id", "props"}
          /\ {"topic", "id", "props", "payload"} = {"topic", "id", "props"} \cup {"payload"}
      OBVIOUS
    <3> QED BY <1>1, <1>4, <2>1, <2>2, <3>1, FieldNames, RestRead, Zenon
  <2>4. pc' = "done"
    BY <2>2, <2>3
  <2>5. Done(v, p, T)'
    BY <1>3, <2>3, <2>4, DoneIs, Zenon
  <2> QED BY <2>3, <2>5
<1> QED BY <1>11, <1>12, <1>13, <1>14, Zenon DEF MidPublish, AtProps

\* A part of the first elements.
LEMMA PartOfFirst ==
  ASSUME NEW S, NEW x \in Seq(S), NEW m \in 0..Len(x), NEW a \in 1..m, NEW b \in a..m
  PROVE  SubSeq(First(x, m), a, b) = SubSeq(x, a, b)
<1> DEFINE y == First(x, m)
           u == SubSeq(y, a, b)
           w == SubSeq(x, a, b)
<1>1. Len(x) \in Nat /\ m \in Nat /\ a \in Nat /\ b \in Nat /\ 1 <= a /\ a <= b /\ b <= m /\ m <= Len(x)
  BY LenProperties, SMT
<1>2. y \in Seq(S) /\ Len(y) = m /\ \A i \in 1..m : y[i] = x[i]
  BY FirstBehind
<1> HIDE DEF y
<1>3. \A i \in a..b : y[i] \in S /\ x[i] \in S
  <2>1. \A i \in 1..m : y[i] \in S /\ x[i] \in S
    BY <1>1, <1>2, ElementOfSeq
  <2> QED BY <1>1, <2>1, SMT
<1>4. /\ u \in Seq(S) /\ Len(u) = b - a + 1
      /\ \A i \in 1..(b - a + 1) : u[i] = y[a + i - 1]
  BY <1>1, <1>2, <1>3, SubSeqProperties
<1>5. /\ w \in Seq(S) /\ Len(w) = b - a + 1
      /\ \A i \in 1..(b - a + 1) : w[i] = x[a + i - 1]
  BY <1>1, <1>2, <1>3, SubSeqProperties
<1>6. \A i \in 1..(b - a + 1) : u[i] = w[i]
  <2> TAKE i \in 1..(b - a + 1)
  <2>1. a + i - 1 \in 1..m
    BY <1>1, SMT
  <2> QED BY <1>2, <1>4, <1>5, <2>1
<1> HIDE DEF u, w
<1>7. u = w
  BY <1>4, <1>5, <1>6, SeqEqual
<1> QED BY <1>7 DEF u, w, y

\* n bytes of the block come before R.
Fronted(n, R, T) ==
  /\ buf \in Seq(Byte) /\ n <= Len(buf) /\ Len(buf) \in Nat /\ Len(R) \in Nat
  /\ Behind(buf, n) \o stream = R \o T /\ stream \in Seq(Byte) /\ rem \in Nat /\ left \in Nat
  /\ rem = Len(R) + n /\ left = 0 /\ Len(R) < LengthLimit /\ Len(buf) \in {n, n + Len(R)}

\* The bytes of CONNECT or CONNACK that were read with the header.
LEMMA FrontIs ==
  ASSUME NEW CONSTANT X \in Seq(Byte), NEW CONSTANT R \in Seq(Byte), NEW CONSTANT T \in Seq(Byte),
         NEW CONSTANT n \in 1..10, Len(X) = n, Spot(Nothing, X \o R, T, 0, {n}), buf # <<>>
  PROVE  First(buf, n) = X /\ Fronted(n, R, T)
<1>1. /\ left = 0 /\ Placed(Cursor, X \o R, T) /\ rem = Len(X \o R) + 0
      /\ Len(buf) \in {0, Len(X \o R)} \cup {n}
  BY Zenon DEF Spot
<1>2. Len(X \o R) = n + Len(R) /\ Len(R) \in Nat
  BY OfJoined
<1>3. /\ buf \o stream = X \o (R \o T) /\ R \o T \in Seq(Byte) /\ stream \in Seq(Byte) /\ buf \in Seq(Byte)
      /\ n + Len(R) < LengthLimit
  <2>5. PICK c : c = Cursor
    OBVIOUS
  <2>1. Placed(c, X \o R, T)
    BY <1>1, <2>5
  <2>4. X \in Seq(Byte) /\ R \in Seq(Byte) /\ T \in Seq(Byte)
    OBVIOUS
  <2>2. /\ c.buf \o c.stream = X \o (R \o T) /\ R \o T \in Seq(Byte)
        /\ c.stream \in Seq(Byte) /\ c.buf \in Seq(Byte) /\ Len(X) + Len(R) < LengthLimit
    <3>1. c.buf \o c.stream = X \o (R \o T)
      <4>1. c.buf \o c.stream = (X \o R) \o T
        BY <2>1, Zenon DEF Placed
      <4>2. (X \o R) \o T = X \o (R \o T)
        BY ONLY <2>4, AssociateBytes, SMTT(30)
      <4> QED BY ONLY <4>1, <4>2, Zenon
    <3>3. R \o T \in Seq(Byte) /\ c.stream \in Seq(Byte) /\ c.buf \in Seq(Byte)
      BY ONLY <2>1, <2>4, PastIs, Zenon
    <3>2. Len(X) + Len(R) < LengthLimit
      BY ONLY <2>1, <2>4, PastIs, Zenon
    <3> QED BY <3>1, <3>2, <3>3
  <2>3. c.buf = buf /\ c.stream = stream
    BY <2>5, CursorIs
  <2> QED BY <2>2, <2>3
<1>4. rem = Len(R) + n
  BY <1>1, <1>2
<1>5. Len(buf) \in Nat /\ Len(buf) # 0
  BY <1>3, LenProperties, EmptySeq
<1>6. n <= Len(buf) /\ Len(buf) \in {n, n + Len(R)}
  BY <1>1, <1>2, <1>5, SMT
<1>7. First(buf, n) = X /\ Behind(buf, n) \o stream = R \o T
  <2> DEFINE Y == R \o T
  <2>1. buf \o stream = X \o Y /\ Y \in Seq(Byte)
    BY <1>3
  <2> HIDE DEF Y
  <2>2. Len(X) <= Len(buf) => First(buf, Len(X)) = X /\ Behind(buf, Len(X)) \o stream = Y
    BY <1>3, <2>1, PrefixOf
  <2> QED BY <1>6, <2>2 DEF Y
<1>8. Len(R) < LengthLimit
  BY <1>2, <1>3, LimitIs
<1> QED BY <1>1, <1>2, <1>3, <1>4, <1>5, <1>6, <1>7, <1>8 DEF Fronted

\* They are taken off the block, and not off what remains.
LEMMA FrontTaken ==
  ASSUME NEW CONSTANT X \in Seq(Byte), NEW CONSTANT R \in Seq(Byte), NEW CONSTANT T \in Seq(Byte),
         NEW CONSTANT n \in 1..10, Len(X) = n, Spot(Nothing, X \o R, T, 0, {n}), buf # <<>>,
         NEW CONSTANT g, got' = g, buf' = Behind(buf, n), UNCHANGED <<stream, rem, left>>
  PROVE  Spot(g, R, T, n, {})'
<1>1. /\ buf \in Seq(Byte) /\ n <= Len(buf) /\ Len(buf) \in Nat /\ Len(R) \in Nat
      /\ Behind(buf, n) \o stream = R \o T /\ stream \in Seq(Byte) /\ rem \in Nat /\ left \in Nat
      /\ rem = Len(R) + n /\ left = 0 /\ Len(R) < LengthLimit /\ Len(buf) \in {n, n + Len(R)}
  <2>1. /\ X \in Seq(Byte) /\ R \in Seq(Byte) /\ T \in Seq(Byte) /\ n \in 1..10 /\ Len(X) = n
        /\ Spot(Nothing, X \o R, T, 0, {n}) /\ buf # <<>>
    OBVIOUS
  <2>2. Fronted(n, R, T)
    BY ONLY <2>1, FrontIs, Zenon
  <2> QED BY <2>2 DEF Fronted
<1>2. Behind(buf, n) \in Seq(Byte) /\ Len(Behind(buf, n)) = Len(buf) - n
  <2>1. n \in 0..Len(buf)
    BY <1>1
  <2> QED BY <1>1, <2>1, FirstBehind
<1> DEFINE b == Behind(buf, n)
<1>3. b \in Seq(Byte) /\ Len(b) \in {0, Len(R)} /\ Len(b) <= Len(R) /\ Len(R) <= rem
  BY <1>1, <1>2
<1> HIDE DEF b
<1>4. buf' = b /\ b \o stream = R \o T
  BY <1>1 DEF b
<1>5. Cursor' = [stream |-> stream, buf |-> b, rem |-> rem, left |-> left]
  BY <1>4 DEF Cursor
<1>6. Placed(Cursor', R, T)
  <2> DEFINE c == Cursor'
  <2>1. c.stream = stream /\ c.buf = b /\ c.rem = rem /\ c.left = left
    BY <1>5
  <2>2. c = [stream |-> c.stream, buf |-> c.buf, rem |-> c.rem, left |-> c.left]
    BY <1>5, <2>1
  <2> HIDE DEF c
  <2>3. Placed(c, R, T)
    BY <1>1, <1>3, <1>4, <2>1, <2>2 DEF Placed
  <2> QED BY <2>3 DEF c
<1>7. left' = 0 /\ got' = g /\ rem' = Len(R) + n /\ Len(buf') \in {0, Len(R)} \cup {}
  BY <1>1, <1>3, <1>4
<1>8. Placed(Cursor, R, T)'
  BY <1>6
<1> QED BY <1>7, <1>8, SpotIs, Zenon

\* Every read of CONNACK.
LEMMA ConnackStep ==
  ASSUME NEW CONSTANT v \in {4, 5}, NEW CONSTANT p \in Connacks(v), NEW CONSTANT T \in Seq(Byte),
         propsLimit \in Nat, known = v, MidConnack(v, p, T), ProcessConnack
  PROVE  /\ MidConnack(v, p, T)' \/ Done(v, p, T)'
         /\ UNCHANGED <<config, sender, known, mqttConnected, header, last>>
<1>1. p.type = "connack" /\ p.sessionPresent \in BOOLEAN /\ p.reason \in Byte /\ p.props \in PropsOf(v)
  BY DEF Connacks
<1>2. p.props \in Seq(PropertyValues)
  BY <1>1, PropsAreProperties, Zenon
<1> DEFINE X == ConnackStart(p)
           q == PropBytes(v, p.props)
<1>3. X \in Seq(Byte) /\ Len(X) = 2 /\ q \in Seq(Byte)
  BY <1>1, ConnackFramed, WiredPropBytes, Zenon DEF Wired
<1>4. Body(v, p) = X \o q /\ Uncounted(p) = 2 /\ AllFields(v, p) = {"sessionPresent", "reason", "props"}
  BY <1>1, BodyOf, UncountedIs, AllFieldsAre, ZenonT(30)
<1>5. /\ Value(p, "sessionPresent") = <<p.sessionPresent>> /\ Value(p, "reason") = <<p.reason>>
      /\ Value(p, "props") = p.props
  BY ValueIs, Zenon
<1>6. X[2] = p.reason /\ (X[1] % 2 = 1 <=> p.sessionPresent)
  <2> DEFINE f == IF p.sessionPresent THEN 1 ELSE 0
  <2>1. X = <<f, p.reason>>
    BY Zenon DEF ConnackStart
  <2>2. f % 2 = 1 <=> p.sessionPresent
    <3>1. CASE p.sessionPresent
      BY <3>1, SMT
    <3>2. CASE ~p.sessionPresent
      BY <3>2, SMT
    <3> QED BY <3>1, <3>2
  <2> HIDE DEF f
  <2> QED BY <2>1, <2>2
<1>7. IfV5("props", "done") = IF v = 5 THEN "props" ELSE "done"
  BY DEF IfV5
<1> HIDE DEF X, q
<1>8. CASE pc = "flags"
  <2>1. Spot(Nothing, X \o q, T, 0, {2}) /\ buf # <<>>
    <3>1. pc # "props"
      BY <1>8
    <3> QED BY <1>4, <3>1, Zenon DEF MidConnack, AtProps
  <2>2. ConnackHeader
    <3>1. pc # "props"
      BY <1>8
    <3> QED BY <3>1, Zenon DEF ProcessConnack, ReadsProperties
  <2> DEFINE g == Filled(p, {"sessionPresent", "reason"})
  <2>3. First(buf, 2) = X /\ buf \in Seq(Byte) /\ 2 <= Len(buf) /\ got = Nothing
    <3>1. 2 \in 1..10
      OBVIOUS
    <3> QED BY <1>3, <2>1, <3>1, FrontIs, Zenon DEF Spot, Fronted
  <2>4. buf[1] = X[1] /\ buf[2] = X[2]
    <3>1. 2 \in 0..Len(buf)
      BY <2>3, LenProperties
    <3>2. \A i \in 1..2 : First(buf, 2)[i] = buf[i]
      BY <2>3, <3>1, FirstBehind
    <3> QED BY <2>3, <3>2
  <2>5. got' = g
    <3>1. got' = [got EXCEPT !.sessionPresent = <<buf[1] % 2 = 1>>, !.reason = <<buf[2]>>]
      BY <2>2, Zenon DEF ConnackHeader
    <3> DEFINE s == buf[1] % 2 = 1
    <3>2. s = p.sessionPresent
      <4>1. s \in BOOLEAN /\ (s <=> p.sessionPresent)
        BY <1>6, <2>4
      <4> HIDE DEF s
      <4> QED BY <1>1, <4>1
    <3>3. got' = [Nothing EXCEPT !.sessionPresent = <<s>>, !.reason = <<buf[2]>>]
      BY <2>3, <3>1
    <3> HIDE DEF s
    <3>4. got' = [Nothing EXCEPT !.sessionPresent = Value(p, "sessionPresent"), !.reason = Value(p, "reason")]
      BY <1>5, <1>6, <2>4, <3>2, <3>3
    <3> DEFINE V(f) == Value(p, f)
               a == V("sessionPresent")
               b == V("reason")
    <3>5. got' = [[f \in Fields |-> <<>>] EXCEPT !["sessionPresent"] = a, !["reason"] = b]
      BY <3>4 DEF Nothing
    <3>6. g = [f \in Fields |-> IF f \in {"sessionPresent", "reason"} THEN V(f) ELSE <<>>]
      BY Zenon DEF Filled
    <3>7. g = [f \in Fields |-> IF f = "sessionPresent" THEN a ELSE IF f = "reason" THEN b ELSE <<>>]
      <4>1. \A f \in Fields : (IF f \in {"sessionPresent", "reason"} THEN V(f) ELSE <<>>)
               = IF f = "sessionPresent" THEN a ELSE IF f = "reason" THEN b ELSE <<>>
        OBVIOUS
      <4> QED BY <3>6, <4>1, Zenon
    <3> HIDE DEF a, b, V, g
    <3> QED BY <3>5, <3>7, FieldNames
  <2>6. Spot(g, q, T, 2, {})'
    <3>1. 2 \in 1..10
      OBVIOUS
    <3>2. buf' = Behind(buf, 2) /\ UNCHANGED <<stream, rem, left>>
      BY <2>2, Zenon DEF ConnackHeader
    <3> HIDE DEF g
    <3> QED BY <1>3, <2>1, <2>5, <3>1, <3>2, FrontTaken, Zenon
  <2>7. /\ pc' = IF v = 5 THEN "props" ELSE "done"
        /\ UNCHANGED <<config, sender, known, mqttConnected, header, last>>
    BY <1>7, <2>2, Zenon DEF ConnackHeader
  <2>8. {"sessionPresent", "reason", "props"} = {"sessionPresent", "reason"} \cup {"props"}
    OBVIOUS
  <2>9. q \o <<>> = q /\ <<>> \in Seq(Byte)
    BY <1>3, WiredEmpty
  <2>10. Spot(g, q \o <<>>, T, 2, {})'
    BY <2>6, <2>9
  <2>11. /\ v = 5 /\ pc' = "props" => AtProps("props", p, {"sessionPresent", "reason"}, <<>>, T, 2, {})'
         /\ v = 4 => Spot(Filled(p, {"sessionPresent", "reason", "props"}), <<>>, T, 2, {})'
    <3>1. Spot(Filled(p, {"sessionPresent", "reason"}), PropBytes(v, p.props) \o <<>>, T, 2, {})'
      BY <2>10 DEF q
    <3> HIDE DEF g
    <3> QED BY <1>1, <2>8, <2>9, <3>1, PropsNow, Zenon
  <2>12. CASE v = 5
    BY <2>7, <2>11, <2>12, Zenon DEF MidConnack
  <2>13. CASE v = 4
    <3>1. pc' = "done" /\ Spot(Filled(p, {"sessionPresent", "reason", "props"}), <<>>, T, 2, {})'
      BY <2>7, <2>11, <2>13
    <3>2. Done(v, p, T)'
      BY <1>4, <3>1, DoneIs, Zenon
    <3> QED BY <2>7, <3>2
  <2> QED BY <2>12, <2>13
<1>9. CASE pc = "props"
  <2>1. v = 5 /\ AtProps("props", p, {"sessionPresent", "reason"}, <<>>, T, 2, {})
    <3>1. pc # "flags"
      BY <1>9
    <3> QED BY <3>1, Zenon DEF MidConnack
  <2>2. ReadsProperties("props", "done")
    <3>1. pc # "flags"
      BY <1>9
    <3> QED BY <3>1, Zenon DEF ProcessConnack, ConnackHeader
  <2>3. /\ \/ AtProps("props", p, {"sessionPresent", "reason"}, <<>>, T, 2, {})'
           \/ pc' = "done" /\ Spot(Filled(p, {"sessionPresent", "reason"} \cup {"props"}), <<>>, T, 2, {})'
        /\ UNCHANGED <<config, sender, known, mqttConnected, header, last>>
    <3>1. <<>> \in Seq(Byte) /\ 2 \in Nat /\ {} \in SUBSET {1} /\ "props" \notin {"sessionPresent", "reason"}
          /\ Value(p, "props") \in Seq(PropertyValues)
      BY <1>2, <1>5
    <3> QED BY <2>1, <2>2, <3>1, FieldNames, PropsStep, Zenon
  <2>4. {"sessionPresent", "reason"} \cup {"props"} = AllFields(v, p)
    BY <1>4
  <2>5. pc' = "done" /\ Spot(Filled(p, {"sessionPresent", "reason"} \cup {"props"}), <<>>, T, 2, {})' => Done(v, p, T)'
    BY <1>4, <2>4, DoneIs, Zenon
  <2>6. AtProps("props", p, {"sessionPresent", "reason"}, <<>>, T, 2, {})' => MidConnack(v, p, T)'
    BY <2>1, Zenon DEF MidConnack
  <2> QED BY <2>3, <2>5, <2>6
<1> QED BY <1>8, <1>9, Zenon DEF MidConnack, AtProps

\* What the flags say is what CONNECT holds.
LEMMA FlagsRead ==
  ASSUME NEW CONSTANT v \in {4, 5}, NEW CONSTANT p \in Connects(v), NEW CONSTANT S, "flags" \in S,
         got = Filled(p, S)
  PROVE  /\ (Flag(4) <=> p.will # <<>>) /\ (Flag(64) <=> p.password # <<>>) /\ (Flag(128) <=> p.user # <<>>)
         /\ (Flag(2) <=> p.clean)
         /\ got.flags[1] = ConnectFlags(p)
<1>1. got.flags = Value(p, "flags")
  <2> DEFINE V(f) == Value(p, f)
  <2>1. got = [f \in Fields |-> IF f \in S THEN V(f) ELSE <<>>]
    BY Zenon DEF Filled
  <2> HIDE DEF V
  <2>2. got["flags"] = V("flags")
    BY <2>1, FieldNames
  <2> QED BY <2>2 DEF V
<1>2. Value(p, "flags") = <<ConnectFlags(p)>>
  BY ValueIs, Zenon
<1> DEFINE n == ConnectFlags(p)
<1>3. got.flags[1] = n
  BY <1>1, <1>2
<1>4. /\ ((n \div 4) % 2 = 1 <=> p.will # <<>>) /\ ((n \div 64) % 2 = 1 <=> p.password # <<>>)
      /\ ((n \div 128) % 2 = 1 <=> p.user # <<>>) /\ ((n \div 2) % 2 = 1 <=> p.clean)
  BY FlagsAre, Zenon
<1> HIDE DEF n
<1>5. /\ (Flag(4) <=> (n \div 4) % 2 = 1) /\ (Flag(64) <=> (n \div 64) % 2 = 1)
      /\ (Flag(128) <=> (n \div 128) % 2 = 1) /\ (Flag(2) <=> (n \div 2) % 2 = 1)
  BY <1>3, Zenon DEF Flag
<1> QED BY <1>3, <1>4, <1>5, Zenon DEF n

\* What is left behind the client id and the will, part by part.
LEMMA UserPartIs ==
  ASSUME NEW v \in {4, 5}, NEW p \in Connects(v)
  PROVE  /\ UserPart(p) \in Seq(Byte) /\ Texts(p.password) \in Seq(Byte)
         /\ p.user = <<>> => UserPart(p) = Texts(p.password)
         /\ p.user # <<>> => UserPart(p) = Text(p.user[1]) \o Texts(p.password)
         /\ p.password = <<>> => Texts(p.password) = <<>>
         /\ p.password # <<>> => Texts(p.password) = Text(p.password[1])
<1>1. /\ p.user # <<>> => p.user[1] \in Strings /\ p.user = <<p.user[1]>>
      /\ p.password # <<>> => p.password[1] \in Strings /\ p.password = <<p.password[1]>>
  BY ConnectIs, Zenon
<1>2. UserPart(p) \in Seq(Byte) /\ Texts(p.password) \in Seq(Byte)
  BY UserIs, Zenon DEF Wired
<1> DEFINE t == Texts(p.password)
<1>3. UserPart(p) = Texts(p.user) \o t
  BY Zenon DEF UserPart
<1>4. p.user = <<>> => UserPart(p) = t
  <2>1. p.user = <<>> => Texts(p.user) = <<>>
    BY TextsOf, Zenon
  <2>2. <<>> \o t = t
    BY <1>2, WiredEmpty, Zenon
  <2> HIDE DEF t
  <2> QED BY <1>3, <2>1, <2>2, Zenon
<1>5. p.user # <<>> => UserPart(p) = Text(p.user[1]) \o t
  <2>1. p.user # <<>> => Texts(p.user) = Text(p.user[1])
    BY <1>1, TextsOf, Zenon
  <2> HIDE DEF t
  <2> QED BY <1>3, <2>1, Zenon
<1>6. p.password = <<>> => t = <<>>
  BY TextsOf, Zenon
<1>7. p.password # <<>> => t = Text(p.password[1])
  BY <1>1, TextsOf, Zenon
<1> QED BY <1>2, <1>4, <1>5, <1>6, <1>7

\* The will, if there is one.
LEMMA WillPartIs ==
  ASSUME NEW v \in {4, 5}, NEW p \in Connects(v)
  PROVE  /\ AfterTopic(p) \in Seq(Byte) \/ p.will = <<>>
         /\ p.will = <<>> => WillPart(v, p) \o UserPart(p) = UserPart(p)
         /\ p.will # <<>> => /\ AfterTopic(p) \in Seq(Byte) /\ AfterWillProps(p) \in Seq(Byte)
                             /\ WillPart(v, p) \o UserPart(p) = PropBytes(v, p.will[1].props) \o AfterWillProps(p)
                             /\ PropBytes(v, p.will[1].props) \in Seq(Byte)
         /\ WillPart(v, p) \o UserPart(p) \in Seq(Byte)
<1> DEFINE u == UserPart(p)
<1>1. u \in Seq(Byte)
  BY UserPartIs, Zenon
<1> HIDE DEF u
<1>2. CASE p.will = <<>>
  <2>1. WillPart(v, p) = <<>>
    BY <1>2 DEF WillPart
  <2>2. WillPart(v, p) \o u = u
    BY <1>1, <2>1, WiredEmpty, Zenon
  <2> QED BY <1>1, <1>2, <2>2 DEF u
<1>3. CASE p.will # <<>>
  <2> DEFINE q == PropBytes(v, p.will[1].props)
             t == Text(p.will[1].topic)
             m == Text(p.will[1].message)
  <2>1. p.will[1].topic \in Strings /\ p.will[1].message \in Strings /\ p.will[1].props \in PropsOf(v)
    BY <1>3, ConnectIs, Zenon
  <2>2. q \in Seq(Byte) /\ t \in Seq(Byte) /\ m \in Seq(Byte)
    BY <2>1, WiredPropBytes, WiredText, Zenon DEF Wired
  <2>3. WillPart(v, p) = q \o (t \o m) /\ AfterTopic(p) = m \o u /\ AfterWillProps(p) = t \o (m \o u)
    BY <1>3, Zenon DEF WillPart, AfterTopic, AfterWillProps, u
  <2> HIDE DEF q, t, m
  <2> DEFINE tm == t \o m
             mu == m \o u
  <2>4. tm \in Seq(Byte) /\ mu \in Seq(Byte)
    BY <1>1, <2>2, OfJoined
  <2>14. t \in Seq(Byte) /\ m \in Seq(Byte) /\ u \in Seq(Byte)
    BY <1>1, <2>2
  <2>15. (t \o m) \o u = t \o (m \o u)
    BY ONLY <2>14, AssociateBytes, SMTT(30)
  <2>5. tm \o u = t \o mu
    BY <2>15
  <2>6. WillPart(v, p) = q \o tm /\ AfterTopic(p) = mu /\ AfterWillProps(p) = t \o mu
    BY <2>3
  <2> HIDE DEF tm, mu
  <2>7. (q \o tm) \o u = q \o (tm \o u)
    <3>1. q \in Seq(Byte) /\ tm \in Seq(Byte) /\ u \in Seq(Byte)
      BY <1>1, <2>2, <2>4
    <3> QED BY ONLY <3>1, AssociateBytes, SMTT(30)
  <2>8. t \o mu \in Seq(Byte)
    BY <2>2, <2>4, OfJoined
  <2> DEFINE A == t \o mu
  <2>9. WillPart(v, p) \o u = q \o A
    BY <2>5, <2>6, <2>7
  <2>10. A \in Seq(Byte)
    BY <2>8
  <2>11. AfterWillProps(p) = A
    BY <2>6
  <2> HIDE DEF A
  <2>12. q \o A \in Seq(Byte)
    BY <2>2, <2>10, OfJoined
  <2>13. AfterTopic(p) \in Seq(Byte)
    BY <2>4, <2>6
  <2> QED BY <1>3, <2>2, <2>9, <2>10, <2>11, <2>12, <2>13, Zenon DEF q, u
<1> QED BY <1>2, <1>3

\* What comes behind the user name.
LEMMA UserDone ==
  ASSUME NEW CONSTANT v \in {4, 5}, NEW CONSTANT p \in Connects(v), NEW CONSTANT T, NEW CONSTANT U,
         U = Opening \cup WillFields(p) \cup {"user"},
         Flag(64) <=> p.password # <<>>, pc' = AfterUser, Spot(Filled(p, U), Texts(p.password), T, 10, {})'
  PROVE  MidConnect(v, p, T)' \/ Done(v, p, T)'
<1>1. p.type = "connect"
  BY ConnectIs
<1>2. AllFields(v, p) = Opening \cup WillFields(p) \cup {"user", "password"} /\ Uncounted(p) = 10
  BY <1>1, AllFieldsAre, UncountedIs, Zenon
<1>3. CASE p.password = <<>>
  <2>1. pc' = "done"
    BY <1>3, Zenon DEF AfterUser
  <2>2. Texts(p.password) = <<>>
    BY <1>3, UserPartIs, Zenon
  <2>3. Value(p, "password") = <<>>
    BY <1>3, ValueIs, Zenon
  <2>4. Filled(p, U \cup {"password"}) = Filled(p, U)
    BY <2>3, FilledSame
  <2>5. U \cup {"password"} = AllFields(v, p)
    BY <1>2
  <2>6. Filled(p, U) = Filled(p, AllFields(v, p)) /\ Spot(Filled(p, U), <<>>, T, 10, {})'
    BY <2>2, <2>4, <2>5
  <2>7. Done(v, p, T)'
    BY <1>2, <2>1, <2>6, DoneIs, Zenon
  <2> QED BY <2>7
<1>4. CASE p.password # <<>>
  <2>1. pc' = "password"
    BY <1>4, Zenon DEF AfterUser
  <2>2. Spot(Filled(p, Opening \cup WillFields(p) \cup {"user"}), Texts(p.password), T, 10, {})'
    OBVIOUS
  <2>3. MidConnect(v, p, T)'
    BY <1>4, <2>1, <2>2, Zenon DEF MidConnect
  <2> QED BY <2>3
<1> QED BY <1>3, <1>4

\* What comes behind the will.
LEMMA WillDone ==
  ASSUME NEW CONSTANT v \in {4, 5}, NEW CONSTANT p \in Connects(v), NEW CONSTANT T, NEW CONSTANT U,
         U = Opening \cup WillFields(p),
         Flag(64) <=> p.password # <<>>, Flag(128) <=> p.user # <<>>, pc' = AfterWill,
         Spot(Filled(p, U), UserPart(p), T, 10, {})'
  PROVE  MidConnect(v, p, T)' \/ Done(v, p, T)'
<1>1. CASE p.user = <<>>
  <2>1. pc' = AfterUser
    BY <1>1, Zenon DEF AfterWill
  <2>2. UserPart(p) = Texts(p.password)
    BY <1>1, UserPartIs, SMT
  <2>3. Value(p, "user") = <<>>
    <3>1. Value(p, "user") = p.user
      BY ValueIs, Zenon
    <3> QED BY <1>1, <3>1
  <2>4. Filled(p, U \cup {"user"}) = Filled(p, U)
    BY <2>3, FilledSame
  <2> DEFINE W == U \cup {"user"}
  <2>5. Spot(Filled(p, W), Texts(p.password), T, 10, {})'
    BY <2>2, <2>4
  <2>6. W = Opening \cup WillFields(p) \cup {"user"}
    OBVIOUS
  <2> HIDE DEF W
  <2> QED BY <2>1, <2>5, <2>6, UserDone, Zenon
<1>2. CASE p.user # <<>>
  <2>1. pc' = "user"
    BY <1>2, Zenon DEF AfterWill
  <2>2. Spot(Filled(p, Opening \cup WillFields(p)), UserPart(p), T, 10, {})'
    OBVIOUS
  <2>3. MidConnect(v, p, T)'
    BY <1>2, <2>1, <2>2, Zenon DEF MidConnect
  <2> QED BY <2>3
<1> QED BY <1>1, <1>2

\* What comes behind the client id.
LEMMA ClientIdDone ==
  ASSUME NEW CONSTANT v \in {4, 5}, NEW CONSTANT p \in Connects(v), NEW CONSTANT T,
         known = v, Flag(4) <=> p.will # <<>>,
         Flag(64) <=> p.password # <<>>, Flag(128) <=> p.user # <<>>,
         pc' = (IF Flag(4) THEN IfV5("willProps", "willTopic") ELSE AfterWill),
         Spot(Filled(p, Opening), WillPart(v, p) \o UserPart(p), T, 10, {})'
  PROVE  MidConnect(v, p, T)' \/ Done(v, p, T)'
<1>1. CASE p.will = <<>>
  <2>1. pc' = AfterWill /\ Opening = Opening \cup WillFields(p)
    BY <1>1 DEF WillFields
  <2>2. WillPart(v, p) \o UserPart(p) = UserPart(p)
    BY <1>1, WillPartIs, Zenon
  <2> DEFINE U == Opening
  <2>3. Spot(Filled(p, U), UserPart(p), T, 10, {})' /\ U = Opening \cup WillFields(p)
    BY <2>1, <2>2
  <2> HIDE DEF U
  <2> QED BY <2>1, <2>3, WillDone, Zenon
<1>2. CASE p.will # <<>>
  <2> DEFINE q == PropBytes(v, p.will[1].props)
             A == AfterWillProps(p)
  <2>1. Spot(Filled(p, Opening), q \o A, T, 10, {})' /\ A \in Seq(Byte)
    <3>1. WillPart(v, p) \o UserPart(p) = q \o A /\ A \in Seq(Byte)
      BY <1>2, WillPartIs, Zenon
    <3> HIDE DEF q, A
    <3> QED BY <3>1
  <2>2. Value(p, "willProps") = p.will[1].props
    BY ValueIs, Zenon
  <2>3. CASE v = 5
    <3>1. pc' = "willProps"
      BY <1>2, <2>3 DEF IfV5
    <3>2. q = Properties(Value(p, "willProps"))
      BY <2>2, <2>3 DEF PropBytes
    <3>3. AtProps("willProps", p, Opening, A, T, 10, {})'
      BY <2>1, <3>1, <3>2, Zenon DEF AtProps
    <3>4. MidConnect(v, p, T)'
      BY <1>2, <2>3, <3>3, Zenon DEF MidConnect
    <3> QED BY <3>4
  <2>4. CASE v = 4
    <3>1. pc' = "willTopic"
      BY <1>2, <2>4 DEF IfV5
    <3>2. q = <<>>
      BY <2>4 DEF PropBytes
    <3>3. q \o A = A
      BY <2>1, <3>2, WiredEmpty, Zenon
    <3>4. p.will[1].props \in PropsOf(v)
      BY <1>2, ConnectIs, Zenon
    <3>5. Value(p, "willProps") = <<>>
      BY <2>2, <2>4, <3>4, PropsAreProperties, Zenon
    <3>6. Filled(p, Opening \cup {"willProps"}) = Filled(p, Opening)
      BY <3>5, FilledSame
    <3>7. Spot(Filled(p, Opening \cup {"willProps"}), A, T, 10, {})'
      <4> HIDE DEF A, q
      <4> QED BY <2>1, <3>3, <3>6
    <3>8. MidConnect(v, p, T)'
      BY <1>2, <3>1, <3>7, Zenon DEF MidConnect
    <3> QED BY <3>8
  <2> QED BY <2>3, <2>4
<1> QED BY <1>1, <1>2

\* The ten bytes that CONNECT begins with.
LEMMA ConnectHeaderStep ==
  ASSUME NEW CONSTANT v \in {4, 5}, NEW CONSTANT p \in Connects(v), NEW CONSTANT T \in Seq(Byte),
         known \in {0, v}, Spot(Nothing, Body(v, p), T, 0, {10}), buf # <<>>, ConnectHeader
  PROVE  /\ MidConnect(v, p, T)'
         /\ known' = v /\ UNCHANGED <<config, sender, mqttConnected, header, last>>
<1>1. p.type = "connect" /\ p.keepAlive \in TwoBytes /\ p.clientId \in Strings /\ p.props \in PropsOf(v)
  BY ConnectIs, Zenon
<1> DEFINE X == ConnectStart(v, p)
           q == PropBytes(v, p.props)
           E == AfterProps(v, p)
<1>2. X \in Seq(Byte) /\ Len(X) = 10
  BY ConnectStartIs, Zenon DEF Wired
<1>3. /\ First(X, 6) = ProtocolName /\ X[7] = v /\ X[8] = ConnectFlags(p)
      /\ SubSeq(X, 9, 10) = BigEndian(p.keepAlive, 2)
  BY ConnectStartIs, Zenon
<1>4. q \in Seq(Byte) /\ E \in Seq(Byte)
  <2>1. q \in Seq(Byte) /\ Text(p.clientId) \in Seq(Byte)
    BY <1>1, WiredPropBytes, WiredText, Zenon DEF Wired
  <2>2. WillPart(v, p) \o UserPart(p) \in Seq(Byte)
    BY WillPartIs, Zenon
  <2> DEFINE t == Text(p.clientId)
             w == WillPart(v, p) \o UserPart(p)
  <2>3. t \in Seq(Byte) /\ w \in Seq(Byte) /\ E = t \o w
    BY <2>1, <2>2, Zenon DEF AfterProps
  <2> HIDE DEF t, w, E, q
  <2> QED BY <2>1, <2>3, OfJoined
<1>5. Body(v, p) = X \o (q \o E)
  BY <1>1, BodyOf, Zenon DEF AfterProps
<1>6. /\ Value(p, "flags") = <<ConnectFlags(p)>> /\ Value(p, "keepAlive") = <<p.keepAlive>>
  BY ValueIs, Zenon
<1>7. Number(BigEndian(p.keepAlive, 2)) = p.keepAlive
  BY <1>1, WiredId, Zenon
<1> HIDE DEF X, q, E
<1> DEFINE R == q \o E
<1>8. R \in Seq(Byte) /\ Spot(Nothing, X \o R, T, 0, {10})
  BY <1>4, <1>5, OfJoined
<1> HIDE DEF R
<1>9. First(buf, 10) = X /\ buf \in Seq(Byte) /\ 10 <= Len(buf) /\ got = Nothing
  <2> DEFINE n == 10
  <2>1. /\ n \in 1..10 /\ Spot(Nothing, X \o R, T, 0, {n}) /\ Len(X) = n /\ buf # <<>>
        /\ X \in Seq(Byte) /\ R \in Seq(Byte) /\ T \in Seq(Byte)
    BY <1>2, <1>8
  <2> HIDE DEF n
  <2>2. First(buf, n) = X /\ Fronted(n, R, T)
    BY ONLY <2>1, FrontIs
  <2>3. buf \in Seq(Byte) /\ n <= Len(buf)
    BY <2>2, Zenon DEF Fronted
  <2>4. got = Nothing
    BY <2>1, Zenon DEF Spot
  <2> QED BY <2>2, <2>3, <2>4 DEF n
<1>10. /\ buf[7] = v /\ buf[8] = ConnectFlags(p) /\ First(buf, 6) = ProtocolName
       /\ SubSeq(buf, 9, 10) = BigEndian(p.keepAlive, 2)
  <2>1. 10 \in 0..Len(buf)
    BY <1>9, LenProperties
  <2>2. \A i \in 1..10 : First(buf, 10)[i] = buf[i]
    BY <1>9, <2>1, FirstBehind
  <2>3. buf[7] = X[7] /\ buf[8] = X[8]
    BY <1>9, <2>2
  <2>4. SubSeq(X, 1, 6) = SubSeq(buf, 1, 6) /\ SubSeq(X, 9, 10) = SubSeq(buf, 9, 10)
    <3> DEFINE m == 10
    <3>1. m \in 0..Len(buf) /\ 1 \in 1..m /\ 6 \in 1..m /\ 9 \in 1..m /\ 10 \in 9..m /\ 6 \in 1..m /\ First(buf, m) = X
      BY <1>9, <2>1
    <3> HIDE DEF m
    <3> QED BY <1>9, <3>1, PartOfFirst
  <2> QED BY <1>3, <2>3, <2>4 DEF First
<1>11. /\ known' = v /\ pc' = (IF v = 5 THEN "props" ELSE "clientId")
       /\ UNCHANGED <<config, sender, mqttConnected, header, last>>
       /\ got' = [got EXCEPT !.flags = <<buf[8]>>, !.keepAlive = <<Number(SubSeq(buf, 9, 10))>>]
       /\ buf' = Behind(buf, 10) /\ UNCHANGED <<stream, rem, left>>
  <2> DEFINE level == buf[7]
             allowed == First(buf, 6) = ProtocolName /\ level \in {4, 5} /\ known \in {0, level}
  <2>1. /\ known' = (IF allowed THEN level ELSE known)
        /\ pc' = (IF ~ allowed THEN "refused" ELSE IF level = 5 THEN "props" ELSE "clientId")
        /\ UNCHANGED <<config, sender, mqttConnected, header, last>>
        /\ got' = [got EXCEPT !.flags = <<buf[8]>>, !.keepAlive = <<Number(SubSeq(buf, 9, 10))>>]
        /\ buf' = Behind(buf, 10) /\ UNCHANGED <<stream, rem, left>>
    BY Zenon DEF ConnectHeader
  <2>2. level = v
    BY <1>10
  <2>3. allowed
    BY <1>10, <2>2
  <2> HIDE DEF allowed, level
  <2>4. known' = v /\ pc' = (IF v = 5 THEN "props" ELSE "clientId")
    BY <2>1, <2>2, <2>3
  <2> QED BY <2>1, <2>4
<1> DEFINE g == Filled(p, {"flags", "keepAlive"})
<1>12. got' = g
  <2> DEFINE V(f) == Value(p, f)
             a == V("flags")
             b == V("keepAlive")
  <2>1. got' = [[f \in Fields |-> <<>>] EXCEPT !["flags"] = a, !["keepAlive"] = b]
    BY <1>6, <1>7, <1>9, <1>10, <1>11 DEF Nothing
  <2>2. g = [f \in Fields |-> IF f \in {"flags", "keepAlive"} THEN V(f) ELSE <<>>]
    BY Zenon DEF Filled
  <2>3. g = [f \in Fields |-> IF f = "flags" THEN a ELSE IF f = "keepAlive" THEN b ELSE <<>>]
    <3>1. \A f \in Fields : (IF f \in {"flags", "keepAlive"} THEN V(f) ELSE <<>>)
             = IF f = "flags" THEN a ELSE IF f = "keepAlive" THEN b ELSE <<>>
      OBVIOUS
    <3> QED BY <2>2, <3>1, Zenon
  <2> HIDE DEF a, b, V, g
  <2> QED BY <2>1, <2>3, FieldNames
<1> HIDE DEF g
<1>13. Spot(g, R, T, 10, {})'
  <2>1. 10 \in 1..10
    OBVIOUS
  <2> QED BY <1>2, <1>8, <1>11, <1>12, <2>1, FrontTaken, Zenon
<1>14. Spot(Filled(p, {"flags", "keepAlive"}), PropBytes(v, p.props) \o E, T, 10, {})'
  BY <1>13 DEF g, R, q
<1>15. /\ v = 5 /\ pc' = "props" => AtProps("props", p, {"flags", "keepAlive"}, E, T, 10, {})'
       /\ v = 4 => Spot(Filled(p, {"flags", "keepAlive", "props"}), E, T, 10, {})'
  <2>1. {"flags", "keepAlive", "props"} = {"flags", "keepAlive"} \cup {"props"}
    OBVIOUS
  <2> DEFINE S == {"flags", "keepAlive"}
             U == {"flags", "keepAlive", "props"}
             x == 10
             N == {}
  <2>2. U = S \cup {"props"} /\ Spot(Filled(p, S), PropBytes(v, p.props) \o E, T, x, N)'
    BY <1>14, <2>1
  <2>3. v \in {4, 5} /\ E \in Seq(Byte) /\ p.props \in PropsOf(v)
    BY <1>1, <1>4
  <2> HIDE DEF S, U, x, N
  <2>4. /\ v = 5 /\ pc' = "props" => AtProps("props", p, S, E, T, x, N)'
        /\ v = 4 => Spot(Filled(p, U), E, T, x, N)'
    BY ONLY <2>2, <2>3, PropsNow, Zenon
  <2> QED BY <2>4 DEF S, U, x, N
<1>16. CASE v = 5
  BY <1>11, <1>15, <1>16, Zenon DEF MidConnect, E
<1>17. CASE v = 4
  <2>1. pc' = "clientId" /\ Spot(Filled(p, {"flags", "keepAlive", "props"}), E, T, 10, {})'
    BY <1>11, <1>15, <1>17
  <2> QED BY <1>11, <2>1, Zenon DEF MidConnect, E
<1> QED BY <1>16, <1>17

\* A text of CONNECT is read.
LEMMA ConnectText ==
  ASSUME NEW CONSTANT p, NEW CONSTANT S, NEW CONSTANT f \in Fields, f \notin S, NEW CONSTANT U, U = S \cup {f},
         NEW CONSTANT s \in Strings, Value(p, f) = <<s>>,
         NEW CONSTANT R \in Seq(Byte), NEW CONSTANT T \in Seq(Byte),
         Spot(Filled(p, S), Text(s) \o R, T, 10, {}), Moves(TakeText(Cursor), f)
  PROVE  /\ TakeText(Cursor).status = "ok" /\ Spot(Filled(p, U), R, T, 10, {})'
         /\ UNCHANGED <<config, sender, known, mqttConnected, header, last>>
<1> DEFINE x == 10
<1>1. x \in Nat /\ Spot(Filled(p, S), Text(s) \o R, T, x, {})
  OBVIOUS
<1> HIDE DEF x
<1>2. /\ TakeText(Cursor).status = "ok" /\ Spot(Filled(p, U), R, T, x, {})'
      /\ UNCHANGED <<config, sender, known, mqttConnected, header, last>>
  BY <1>1, TextRead, Zenon
<1> QED BY <1>2 DEF x

\* Every read of CONNECT.
LEMMA ConnectStep ==
  ASSUME NEW CONSTANT v \in {4, 5}, NEW CONSTANT p \in Connects(v), NEW CONSTANT T \in Seq(Byte),
         propsLimit \in Nat, known \in {0, v}, pc # "flags" => known = v,
         MidConnect(v, p, T), ProcessConnect
  PROVE  /\ MidConnect(v, p, T)' \/ Done(v, p, T)'
         /\ known' = v /\ UNCHANGED <<config, sender, mqttConnected, header, last>>
<1>1. /\ p.type = "connect" /\ p.clientId \in Strings /\ p.props \in PropsOf(v)
      /\ p.user # <<>> => p.user[1] \in Strings /\ p.user = <<p.user[1]>>
      /\ p.password # <<>> => p.password[1] \in Strings /\ p.password = <<p.password[1]>>
      /\ p.will # <<>> => p.will[1].topic \in Strings /\ p.will[1].message \in Strings
                          /\ p.will[1].props \in PropsOf(v)
  BY ConnectIs, Zenon
<1>2. p.props \in Seq(PropertyValues) /\ (p.will # <<>> => p.will[1].props \in Seq(PropertyValues))
  BY <1>1, PropsAreProperties, Zenon
<1>3. /\ Value(p, "clientId") = <<p.clientId>> /\ Value(p, "willProps") = p.will[1].props
      /\ Value(p, "willTopic") = <<p.will[1].topic>> /\ Value(p, "willMessage") = <<p.will[1].message>>
      /\ Value(p, "user") = p.user /\ Value(p, "password") = p.password /\ Value(p, "props") = p.props
  BY ValueIs, Zenon
<1>4. /\ UserPart(p) \in Seq(Byte) /\ Texts(p.password) \in Seq(Byte)
      /\ WillPart(v, p) \o UserPart(p) \in Seq(Byte) /\ Text(p.clientId) \in Seq(Byte)
  BY <1>1, UserPartIs, WillPartIs, WiredText, Zenon DEF Wired
<1>5. AfterProps(v, p) = Text(p.clientId) \o (WillPart(v, p) \o UserPart(p)) /\ AfterProps(v, p) \in Seq(Byte)
  <2> DEFINE t == Text(p.clientId)
             w == WillPart(v, p) \o UserPart(p)
  <2>1. t \in Seq(Byte) /\ w \in Seq(Byte) /\ AfterProps(v, p) = t \o w
    BY <1>4, Zenon DEF AfterProps
  <2>2. AfterProps(v, p) = Text(p.clientId) \o (WillPart(v, p) \o UserPart(p))
    BY <2>1
  <2> HIDE DEF t, w
  <2>3. t \o w \in Seq(Byte)
    BY <2>1, OfJoined
  <2> QED BY <2>1, <2>2, <2>3
<1>6. AllFields(v, p) = Opening \cup WillFields(p) \cup {"user", "password"} /\ Uncounted(p) = 10
  BY <1>1, AllFieldsAre, UncountedIs, Zenon
<1>7. "flags" \in Opening
  BY DEF Opening
<1>8. CASE pc = "flags"
  <2>1. Spot(Nothing, Body(v, p), T, 0, {10}) /\ buf # <<>>
    <3>1. pc # "props" /\ pc # "clientId" /\ pc # "willProps" /\ pc # "willTopic" /\ pc # "willMessage"
          /\ pc # "user" /\ pc # "password"
      BY <1>8
    <3> QED BY <3>1, Zenon DEF MidConnect, AtProps
  <2>2. ConnectHeader
    <3>1. pc # "props" /\ pc # "clientId" /\ pc # "willProps" /\ pc # "willTopic" /\ pc # "willMessage"
          /\ pc # "user" /\ pc # "password"
      BY <1>8
    <3> QED BY <3>1, Zenon DEF ProcessConnect, ReadsProperties, Reads
  <2> QED BY <2>1, <2>2, ConnectHeaderStep, Zenon
<1>9. CASE pc = "props"
  <2>0. pc # "flags" /\ pc # "clientId" /\ pc # "willProps" /\ pc # "willTopic" /\ pc # "willMessage"
          /\ pc # "user" /\ pc # "password"
    BY <1>9
  <2>1. v = 5 /\ AtProps("props", p, {"flags", "keepAlive"}, AfterProps(v, p), T, 10, {})
    BY <2>0, Zenon DEF MidConnect, AtProps
  <2>2. ReadsProperties("props", "clientId")
    BY <2>0, Zenon DEF ProcessConnect, Reads, ReadsProperties, ConnectHeader
  <2>3. /\ \/ AtProps("props", p, {"flags", "keepAlive"}, AfterProps(v, p), T, 10, {})'
           \/ pc' = "clientId" /\ Spot(Filled(p, {"flags", "keepAlive"} \cup {"props"}), AfterProps(v, p), T, 10, {})'
        /\ UNCHANGED <<config, sender, known, mqttConnected, header, last>>
    <3>1. 10 \in Nat /\ {} \in SUBSET {1} /\ "props" \notin {"flags", "keepAlive"}
          /\ Value(p, "props") \in Seq(PropertyValues)
      BY <1>2, <1>3
    <3> QED BY <1>5, <2>1, <2>2, <3>1, FieldNames, PropsStep, Zenon
  <2>4. {"flags", "keepAlive"} \cup {"props"} = {"flags", "keepAlive", "props"}
    OBVIOUS
  <2>5. known' = v /\ UNCHANGED <<config, sender, mqttConnected, header, last>>
    BY <2>0, <2>3
  <2> QED BY <2>1, <2>3, <2>4, <2>5, Zenon DEF MidConnect
<1>10. CASE pc = "clientId"
  <2>0. pc # "flags" /\ pc # "props" /\ pc # "willProps" /\ pc # "willTopic" /\ pc # "willMessage"
          /\ pc # "user" /\ pc # "password"
    BY <1>10
  <2>1. Spot(Filled(p, {"flags", "keepAlive", "props"}), AfterProps(v, p), T, 10, {})
    BY <2>0, Zenon DEF MidConnect, AtProps
  <2>2. /\ Moves(TakeText(Cursor), "clientId")
        /\ pc' = IF TakeText(Cursor).status = "ok"
                 THEN (IF Flag(4) THEN IfV5("willProps", "willTopic") ELSE AfterWill) ELSE "refused"
    BY <2>0, Zenon DEF ProcessConnect, Reads, ReadsProperties, Proceeds, Moves, ConnectHeader
  <2> DEFINE S == {"flags", "keepAlive", "props"}
             w == WillPart(v, p) \o UserPart(p)
             U == Opening
  <2>3. Opening = S \cup {"clientId"} /\ "clientId" \notin S /\ "flags" \in S
    BY DEF Opening
  <2>4. Spot(Filled(p, S), Text(p.clientId) \o w, T, 10, {}) /\ w \in Seq(Byte) /\ U = S \cup {"clientId"}
    BY <1>4, <1>5, <2>1, <2>3
  <2>5. (Flag(4) <=> p.will # <<>>) /\ (Flag(64) <=> p.password # <<>>) /\ (Flag(128) <=> p.user # <<>>)
    <3>1. got = Filled(p, S)
      BY <2>1, Zenon DEF Spot
    <3> HIDE DEF S
    <3> QED BY <2>3, <3>1, FlagsRead, Zenon
  <2> HIDE DEF w, S, U
  <2>6. /\ TakeText(Cursor).status = "ok" /\ Spot(Filled(p, U), w, T, 10, {})'
        /\ UNCHANGED <<config, sender, known, mqttConnected, header, last>>
    BY <1>1, <1>3, <2>2, <2>3, <2>4, FieldNames, ConnectText, Zenon
  <2>7. known = v
    BY <2>0
  <2>8. /\ pc' = (IF Flag(4) THEN IfV5("willProps", "willTopic") ELSE AfterWill)
        /\ Spot(Filled(p, Opening), WillPart(v, p) \o UserPart(p), T, 10, {})'
    BY <2>2, <2>6 DEF U, w
  <2>9. MidConnect(v, p, T)' \/ Done(v, p, T)'
    BY <2>5, <2>7, <2>8, ClientIdDone, Zenon
  <2> QED BY <2>6, <2>7, <2>9
<1>11. CASE pc = "willProps"
  <2>0. pc # "flags" /\ pc # "props" /\ pc # "clientId" /\ pc # "willTopic" /\ pc # "willMessage"
          /\ pc # "user" /\ pc # "password"
    BY <1>11
  <2>1. p.will # <<>> /\ v = 5 /\ AtProps("willProps", p, Opening, AfterWillProps(p), T, 10, {})
    BY <2>0, Zenon DEF MidConnect, AtProps
  <2>2. ReadsProperties("willProps", "willTopic")
    BY <2>0, Zenon DEF ProcessConnect, Reads, ReadsProperties, ConnectHeader
  <2>3. /\ \/ AtProps("willProps", p, Opening, AfterWillProps(p), T, 10, {})'
           \/ pc' = "willTopic" /\ Spot(Filled(p, Opening \cup {"willProps"}), AfterWillProps(p), T, 10, {})'
        /\ UNCHANGED <<config, sender, known, mqttConnected, header, last>>
    <3>1. 10 \in Nat /\ {} \in SUBSET {1} /\ "willProps" \notin Opening
          /\ Value(p, "willProps") \in Seq(PropertyValues)
      BY <1>2, <1>3, <2>1 DEF Opening
    <3>2. AfterWillProps(p) \in Seq(Byte)
      BY <2>1, WillPartIs, Zenon
    <3> QED BY <2>1, <2>2, <3>1, <3>2, FieldNames, PropsStep, Zenon
  <2>5. known' = v /\ UNCHANGED <<config, sender, mqttConnected, header, last>>
    BY <2>0, <2>3
  <2> QED BY <2>1, <2>3, <2>5, Zenon DEF MidConnect
<1>12. CASE pc = "willTopic"
  <2>0. pc # "flags" /\ pc # "props" /\ pc # "clientId" /\ pc # "willProps" /\ pc # "willMessage"
          /\ pc # "user" /\ pc # "password"
    BY <1>12
  <2>1. p.will # <<>> /\ Spot(Filled(p, Opening \cup {"willProps"}), AfterWillProps(p), T, 10, {})
    BY <2>0, Zenon DEF MidConnect, AtProps
  <2>2. /\ Moves(TakeText(Cursor), "willTopic")
        /\ pc' = IF TakeText(Cursor).status = "ok" THEN "willMessage" ELSE "refused"
    BY <2>0, Zenon DEF ProcessConnect, Reads, ReadsProperties, Proceeds, Moves, ConnectHeader
  <2> DEFINE S == Opening \cup {"willProps"}
             U == Opening \cup {"willProps", "willTopic"}
             w == AfterTopic(p)
  <2>3. U = S \cup {"willTopic"} /\ "willTopic" \notin S
    BY DEF Opening
  <2>4. Spot(Filled(p, S), Text(p.will[1].topic) \o w, T, 10, {}) /\ w \in Seq(Byte)
    BY <2>1, WillPartIs, Zenon DEF AfterWillProps
  <2> HIDE DEF w, S, U
  <2>6. /\ TakeText(Cursor).status = "ok" /\ Spot(Filled(p, U), w, T, 10, {})'
        /\ UNCHANGED <<config, sender, known, mqttConnected, header, last>>
    BY <1>1, <1>3, <2>1, <2>2, <2>3, <2>4, FieldNames, ConnectText, Zenon
  <2>7. pc' = "willMessage" /\ Spot(Filled(p, Opening \cup {"willProps", "willTopic"}), AfterTopic(p), T, 10, {})'
    BY <2>2, <2>6 DEF U, w
  <2>8. MidConnect(v, p, T)'
    BY <2>1, <2>7, Zenon DEF MidConnect
  <2> QED BY <2>0, <2>6, <2>8
<1>13. CASE pc = "willMessage"
  <2>0. pc # "flags" /\ pc # "props" /\ pc # "clientId" /\ pc # "willProps" /\ pc # "willTopic"
          /\ pc # "user" /\ pc # "password"
    BY <1>13
  <2>1. p.will # <<>> /\ Spot(Filled(p, Opening \cup {"willProps", "willTopic"}), AfterTopic(p), T, 10, {})
    BY <2>0, Zenon DEF MidConnect, AtProps
  <2>2. /\ Moves(TakeText(Cursor), "willMessage")
        /\ pc' = IF TakeText(Cursor).status = "ok" THEN AfterWill ELSE "refused"
    BY <2>0, Zenon DEF ProcessConnect, Reads, ReadsProperties, Proceeds, Moves, ConnectHeader
  <2> DEFINE S == Opening \cup {"willProps", "willTopic"}
             U == Opening \cup WillFields(p)
             w == UserPart(p)
  <2>3. U = S \cup {"willMessage"} /\ "willMessage" \notin S /\ "flags" \in S
    BY <1>7, <2>1 DEF Opening, WillFields
  <2>4. Spot(Filled(p, S), Text(p.will[1].message) \o w, T, 10, {}) /\ w \in Seq(Byte)
    BY <1>4, <2>1, Zenon DEF AfterTopic
  <2>5. (Flag(64) <=> p.password # <<>>) /\ (Flag(128) <=> p.user # <<>>)
    <3>1. got = Filled(p, S)
      BY <2>1, Zenon DEF Spot
    <3> HIDE DEF S
    <3> QED BY <2>3, <3>1, FlagsRead, Zenon
  <2> HIDE DEF w, S, U
  <2>6. /\ TakeText(Cursor).status = "ok" /\ Spot(Filled(p, U), w, T, 10, {})'
        /\ UNCHANGED <<config, sender, known, mqttConnected, header, last>>
    BY <1>1, <1>3, <2>1, <2>2, <2>3, <2>4, FieldNames, ConnectText, Zenon
  <2>7. pc' = AfterWill /\ Spot(Filled(p, U), UserPart(p), T, 10, {})' /\ U = Opening \cup WillFields(p)
    BY <2>2, <2>6 DEF U, w
  <2>8. MidConnect(v, p, T)' \/ Done(v, p, T)'
    BY <2>5, <2>7, WillDone, Zenon
  <2> QED BY <2>0, <2>6, <2>8
<1>14. CASE pc = "user"
  <2>0. pc # "flags" /\ pc # "props" /\ pc # "clientId" /\ pc # "willProps" /\ pc # "willTopic"
          /\ pc # "willMessage" /\ pc # "password"
    BY <1>14
  <2>1. p.user # <<>> /\ Spot(Filled(p, Opening \cup WillFields(p)), UserPart(p), T, 10, {})
    BY <2>0, Zenon DEF MidConnect, AtProps
  <2>2. /\ Moves(TakeText(Cursor), "user")
        /\ pc' = IF TakeText(Cursor).status = "ok" THEN AfterUser ELSE "refused"
    BY <2>0, Zenon DEF ProcessConnect, Reads, ReadsProperties, Proceeds, Moves, ConnectHeader
  <2> DEFINE S == Opening \cup WillFields(p)
             U == Opening \cup WillFields(p) \cup {"user"}
             w == Texts(p.password)
  <2>3. U = S \cup {"user"} /\ "user" \notin S /\ "flags" \in S
    BY <1>7 DEF Opening, WillFields
  <2>4. Spot(Filled(p, S), Text(p.user[1]) \o w, T, 10, {}) /\ w \in Seq(Byte)
    <3>1. UserPart(p) = Text(p.user[1]) \o w
      BY <2>1, UserPartIs, Zenon
    <3> HIDE DEF S, w
    <3>2. w \in Seq(Byte)
      BY <1>4 DEF w
    <3> QED BY <2>1, <3>1, <3>2 DEF S
  <2>5. Flag(64) <=> p.password # <<>>
    <3>1. got = Filled(p, S)
      BY <2>1, Zenon DEF Spot
    <3> HIDE DEF S
    <3> QED BY <2>3, <3>1, FlagsRead, Zenon
  <2> HIDE DEF w, S, U
  <2>9. Value(p, "user") = <<p.user[1]>> /\ p.user[1] \in Strings
    BY <1>1, <1>3, <2>1, Zenon
  <2>6. /\ TakeText(Cursor).status = "ok" /\ Spot(Filled(p, U), w, T, 10, {})'
        /\ UNCHANGED <<config, sender, known, mqttConnected, header, last>>
    BY <2>2, <2>3, <2>4, <2>9, FieldNames, ConnectText, Zenon
  <2>7. pc' = AfterUser /\ Spot(Filled(p, U), Texts(p.password), T, 10, {})'
        /\ U = Opening \cup WillFields(p) \cup {"user"}
    BY <2>2, <2>6 DEF U, w
  <2>8. MidConnect(v, p, T)' \/ Done(v, p, T)'
    BY <2>5, <2>7, UserDone, Zenon
  <2> QED BY <2>0, <2>6, <2>8
<1>15. CASE pc = "password"
  <2>0. pc # "flags" /\ pc # "props" /\ pc # "clientId" /\ pc # "willProps" /\ pc # "willTopic"
          /\ pc # "willMessage" /\ pc # "user"
    BY <1>15
  <2>1. p.password # <<>> /\ Spot(Filled(p, Opening \cup WillFields(p) \cup {"user"}), Texts(p.password), T, 10, {})
    BY <2>0, Zenon DEF MidConnect, AtProps
  <2>2. /\ Moves(TakeText(Cursor), "password")
        /\ pc' = IF TakeText(Cursor).status = "ok" THEN "done" ELSE "refused"
    BY <2>0, Zenon DEF ProcessConnect, Reads, ReadsProperties, Proceeds, Moves, ConnectHeader
  <2> DEFINE S == Opening \cup WillFields(p) \cup {"user"}
             U == Opening \cup WillFields(p) \cup {"user", "password"}
             w == <<>>
             t == Text(p.password[1])
  <2>3. U = S \cup {"password"} /\ "password" \notin S
    BY DEF Opening, WillFields
  <2>9. Value(p, "password") = <<p.password[1]>> /\ p.password[1] \in Strings
    BY <1>1, <1>3, <2>1, Zenon
  <2>4. Spot(Filled(p, S), t \o w, T, 10, {}) /\ w \in Seq(Byte)
    <3>1. Texts(p.password) = t
      BY <2>1, UserPartIs, Zenon
    <3>2. t \in Seq(Byte)
      BY <1>4, <3>1
    <3>3. t \o <<>> = t
      BY <3>2, WiredEmpty, Zenon
    <3> HIDE DEF S, t
    <3> QED BY <2>1, <3>1, <3>3 DEF S
  <2>10. Spot(Filled(p, S), Text(p.password[1]) \o w, T, 10, {}) /\ w \in Seq(Byte)
    BY <2>4
  <2> HIDE DEF w, S, U, t
  <2>6. /\ TakeText(Cursor).status = "ok" /\ Spot(Filled(p, U), w, T, 10, {})'
        /\ UNCHANGED <<config, sender, known, mqttConnected, header, last>>
    BY <2>2, <2>3, <2>9, <2>10, FieldNames, ConnectText, Zenon
  <2>7. pc' = "done" /\ Spot(Filled(p, U), <<>>, T, 10, {})' /\ Filled(p, U) = Filled(p, AllFields(v, p))
    BY <1>6, <2>2, <2>6 DEF U, w
  <2>8. Done(v, p, T)'
    BY <1>6, <2>7, DoneIs, Zenon
  <2> QED BY <2>0, <2>6, <2>8
<1> QED BY <1>8, <1>9, <1>10, <1>11, <1>12, <1>13, <1>14, <1>15, Zenon DEF MidConnect, AtProps

-----------------------------------------------------------------------------
\* The packets on their way.

\* The packets on their way in version v.
WireOf(v, s) == FlattenSeq([k \in DOMAIN s |-> Encoded(v, s[k])])

\* The packets on their way are bytes.
LEMMA WireTypes ==
  ASSUME NEW v \in {4, 5}, NEW s \in Seq(Packets(v))
  PROVE  /\ [k \in DOMAIN s |-> Encoded(v, s[k])] \in Seq(Seq(Byte))
         /\ Len([k \in DOMAIN s |-> Encoded(v, s[k])]) = Len(s)
         /\ \A k \in 1..Len(s) : [j \in DOMAIN s |-> Encoded(v, s[j])][k] = Encoded(v, s[k])
         /\ WireOf(v, s) \in Seq(Byte)
<1> DEFINE E(p) == Encoded(v, p)
           t == [k \in DOMAIN s |-> E(s[k])]
<1>1. Len(s) \in Nat /\ DOMAIN s = 1..Len(s) /\ \A k \in 1..Len(s) : s[k] \in Packets(v)
  BY LenProperties, ElementOfSeq
<1>2. \A k \in 1..Len(s) : E(s[k]) \in Seq(Byte)
  BY <1>1, WireForm, Zenon
<1>3. t = [k \in 1..Len(s) |-> E(s[k])]
  BY <1>1
<1> DEFINE S == Seq(Byte)
<1>4. WireOf(v, s) = FlattenSeq(t)
  BY Zenon DEF WireOf
<1> HIDE DEF E, S
<1>5. t \in Seq(S) /\ Len(t) = Len(s) /\ \A k \in 1..Len(s) : t[k] = E(s[k])
  BY <1>1, <1>2, <1>3, IsASeq DEF S
<1> HIDE DEF t
<1>6. FlattenSeq(t) \in Seq(Byte)
  BY <1>5, FlattenType DEF S
<1> QED BY <1>4, <1>5, <1>6, Zenon DEF t, E, S

\* Nothing is on its way.
LEMMA WireEmpty ==
  ASSUME NEW v
  PROVE  WireOf(v, <<>>) = <<>>
<1>1. [k \in DOMAIN <<>> |-> Encoded(v, <<>>[k])] = <<>>
  OBVIOUS
<1> QED BY <1>1, FlattenEmpty, Zenon DEF WireOf

\* One more packet is sent.
LEMMA WireAppend ==
  ASSUME NEW v \in {4, 5}, NEW s \in Seq(Packets(v)), NEW p \in Packets(v)
  PROVE  WireOf(v, Append(s, p)) = WireOf(v, s) \o Encoded(v, p)
<1> DEFINE E(q) == Encoded(v, q)
           t == [k \in DOMAIN s |-> E(s[k])]
           u == Append(s, p)
           w == [k \in DOMAIN u |-> E(u[k])]
<1>1. t \in Seq(Seq(Byte)) /\ Len(t) = Len(s) /\ Len(s) \in Nat /\ \A k \in 1..Len(s) : t[k] = E(s[k])
  BY WireTypes, LenProperties
<1>2. u \in Seq(Packets(v)) /\ Len(u) = Len(s) + 1 /\ u[Len(s) + 1] = p /\ \A k \in 1..Len(s) : u[k] = s[k]
  BY AppendProperties
<1>3. w \in Seq(Seq(Byte)) /\ Len(w) = Len(u) /\ \A k \in 1..Len(u) : w[k] = E(u[k])
  <2> HIDE DEF u
  <2> QED BY <1>2, WireTypes, Zenon
<1>4. WireOf(v, s) = FlattenSeq(t) /\ WireOf(v, u) = FlattenSeq(w)
  BY Zenon DEF WireOf
<1>5. E(p) \in Seq(Byte)
  BY WireForm, Zenon
<1> HIDE DEF t, u, w, E
<1> DEFINE S == Seq(Byte)
<1>6. Append(t, E(p)) \in Seq(S) /\ Len(Append(t, E(p))) = Len(t) + 1 /\ Append(t, E(p))[Len(t) + 1] = E(p)
      /\ \A k \in 1..Len(t) : Append(t, E(p))[k] = t[k]
  <2> HIDE DEF S
  <2>1. t \in Seq(S) /\ E(p) \in S
    BY <1>1, <1>5 DEF S
  <2> QED BY <2>1, AppendProperties
<1>7. \A k \in 1..Len(w) : w[k] = Append(t, E(p))[k]
  <2> TAKE k \in 1..Len(w)
  <2>1. CASE k = Len(s) + 1
    BY <1>1, <1>2, <1>3, <1>6, <2>1
  <2>2. CASE k # Len(s) + 1
    <3>1. k \in 1..Len(s)
      BY <1>1, <1>2, <1>3, <2>2
    <3> QED BY <1>1, <1>2, <1>3, <1>6, <3>1
  <2> QED BY <2>1, <2>2
<1> DEFINE x == Append(t, E(p))
<1>8. x \in Seq(S) /\ Len(x) = Len(w) /\ \A k \in 1..Len(w) : w[k] = x[k]
  BY <1>1, <1>2, <1>3, <1>6, <1>7
<1> HIDE DEF x, S
<1>9. w \in Seq(S)
  BY <1>3 DEF S
<1>10. w = x
  BY <1>8, <1>9, SeqEqual
<1>11. FlattenSeq(Append(t, E(p))) = FlattenSeq(t) \o E(p)
  BY <1>1, <1>5, FlattenAppend
<1> QED BY <1>4, <1>10, <1>11 DEF x, u, E

\* The first of the packets, and the others.
LEMMA WireMore ==
  ASSUME NEW v \in {4, 5}, NEW s \in Seq(Packets(v)), s # <<>>
  PROVE  /\ WireOf(v, s) = Encoded(v, s[1]) \o WireOf(v, Tail(s))
         /\ s[1] \in Packets(v) /\ Tail(s) \in Seq(Packets(v)) /\ WireOf(v, Tail(s)) \in Seq(Byte)
<1> DEFINE E(q) == Encoded(v, q)
           t == [k \in DOMAIN s |-> E(s[k])]
           u == Tail(s)
           w == [k \in DOMAIN u |-> E(u[k])]
<1>1. t \in Seq(Seq(Byte)) /\ Len(t) = Len(s) /\ Len(s) \in Nat /\ \A k \in 1..Len(s) : t[k] = E(s[k])
  BY WireTypes, LenProperties
<1>0. Len(s) # 0
  BY EmptySeq
<1>2. u \in Seq(Packets(v)) /\ Len(u) = Len(s) - 1 /\ \A k \in 1..Len(u) : u[k] = s[k + 1]
  BY HeadTailProperties
<1>3. w \in Seq(Seq(Byte)) /\ Len(w) = Len(u) /\ (\A k \in 1..Len(u) : w[k] = E(u[k])) /\ WireOf(v, u) \in Seq(Byte)
  <2> HIDE DEF u
  <2> QED BY <1>2, WireTypes, Zenon
<1>4. WireOf(v, s) = FlattenSeq(t) /\ WireOf(v, u) = FlattenSeq(w)
  BY Zenon DEF WireOf
<1>12. s[1] \in Packets(v)
  BY <1>0, <1>1, ElementOfSeq
<1> HIDE DEF t, u, w, E
<1> DEFINE S == Seq(Byte)
           x == Behind(t, 1)
<1> HIDE DEF S
<1>5. t \in Seq(S) /\ w \in Seq(S) /\ 1 \in 0..Len(t)
  BY <1>0, <1>1, <1>3 DEF S
<1>6. x \in Seq(S) /\ Len(x) = Len(t) - 1 /\ \A i \in 1..(Len(t) - 1) : x[i] = t[1 + i]
  BY <1>5, FirstBehind
<1> HIDE DEF x
<1>7. Len(x) = Len(w) /\ \A k \in 1..Len(w) : w[k] = x[k]
  <2>1. Len(x) = Len(w)
    BY <1>1, <1>2, <1>3, <1>6
  <2>2. ASSUME NEW k \in 1..Len(w) PROVE w[k] = x[k]
    <3>1. k \in 1..Len(u) /\ k \in 1..(Len(t) - 1) /\ 1 + k = k + 1 /\ k + 1 \in 1..Len(s)
      BY <1>0, <1>1, <1>2, <1>3
    <3> QED BY <1>1, <1>2, <1>3, <1>6, <3>1
  <2> QED BY <2>1, <2>2
<1>8. w = x
  BY <1>5, <1>6, <1>7, SeqEqual
<1>9. /\ FlattenSeq(Behind(t, 0)) = t[1] \o FlattenSeq(x) /\ Behind(t, 0) = t
  <2>1. 0 < Len(t) /\ 0 \in Nat
    BY <1>0, <1>1
  <2>2. FlattenSeq(Behind(t, 0)) = t[0 + 1] \o FlattenSeq(Behind(t, 0 + 1))
    BY <1>1, <2>1, FlattenBehind
  <2>3. Behind(t, 0) = t
    BY <1>5, BehindEnds
  <2> QED BY <2>2, <2>3 DEF x
<1>10. t[1] = E(s[1])
  BY <1>0, <1>1
<1> QED BY <1>2, <1>3, <1>4, <1>8, <1>9, <1>10, <1>12 DEF u, E

-----------------------------------------------------------------------------
\* The lengths that the reader demands.

\* What a length says about a body, and what is demanded of it.
LengthFits(v, p, n) ==
  /\ n \in Nat /\ n >= LeastLength(p.type)
  /\ v = 4 => /\ p.type # "auth"
              /\ p.type \in Acks \cup {"connack", "unsuback"} => n = 2
              /\ p.type = "disconnect" => n = 0
  /\ p.type \in {"pingreq", "pingresp"} => n = 0
  /\ n # 0 => n >= HeaderLength(p.type) /\ p.type \notin {"pingreq", "pingresp"}
  /\ n = 0 => /\ p.type \in {"pingreq", "pingresp", "disconnect", "auth"}
              /\ p.type \in {"disconnect", "auth"} => p.reason = 0
  /\ n # 0 /\ p.type \in {"disconnect", "auth"} => p.reason # 0

\* What each type demands of a length, and what is read with the block.
LEMMA HeaderLengths ==
  /\ LeastLength("connect") = 10 /\ HeaderLength("connect") = 10
  /\ LeastLength("publish") = 2 /\ HeaderLength("publish") = 0
  /\ LeastLength("disconnect") = 0 /\ HeaderLength("disconnect") = 2
  /\ LeastLength("auth") = 0 /\ HeaderLength("auth") = 2
  /\ \A t \in {"pingreq", "pingresp"} : LeastLength(t) = 0 /\ HeaderLength(t) = 0
  /\ \A t \in {"connack", "puback", "pubrec", "pubrel", "pubcomp", "subscribe", "suback", "unsubscribe",
               "unsuback"} : LeastLength(t) = 2 /\ HeaderLength(t) = 2
BY SMT DEF LeastLength, HeaderLength

\* The length of two parts.
LEMMA JoinedLength ==
  ASSUME NEW k, NEW x, NEW y, Wired(k, x), y \in Seq(Byte)
  PROVE  /\ Len(x \o y) = k + Len(y) /\ Len(y) \in Nat /\ k \in Nat
         /\ Len(x \o y) \in Nat /\ Len(x \o y) >= k
         /\ y = <<>> => Len(x \o y) = k
<1>1. x \in Seq(Byte) /\ k = Len(x) /\ k \in Nat
  BY Zenon DEF Wired
<1>2. Len(x \o y) = Len(x) + Len(y) /\ Len(y) \in Nat
  BY <1>1, OfJoined
<1>3. y = <<>> => Len(y) = 0
  OBVIOUS
<1> DEFINE n == Len(x \o y)
           l == Len(y)
<1>4. n = k + l /\ l \in Nat /\ (y = <<>> => l = 0)
  BY <1>1, <1>2, <1>3
<1> HIDE DEF n, l
<1> QED BY <1>1, <1>4 DEF n, l

\* CONNECT is as long as is demanded of it.
LEMMA LengthFitsConnect ==
  ASSUME NEW v \in {4, 5}, NEW p \in Connects(v)
  PROVE  LengthFits(v, p, Len(Body(v, p)))
<1>1. p.type = "connect" /\ p.props \in PropsOf(v) /\ p.clientId \in Strings
  BY ConnectIs, Zenon
<1> DEFINE q == PropBytes(v, p.props)
           t == Text(p.clientId)
           w == WillPart(v, p) \o UserPart(p)
           X == ConnectStart(v, p)
<1>2. q \in Seq(Byte) /\ t \in Seq(Byte) /\ w \in Seq(Byte) /\ Wired(10, X)
  BY <1>1, WiredPropBytes, WiredText, WillPartIs, ConnectStartIs, Zenon DEF Wired
<1>3. Body(v, p) = X \o (q \o (t \o w))
  BY <1>1, BodyOf, Zenon
<1> HIDE DEF q, t, w, X
<1>4. t \o w \in Seq(Byte)
  BY <1>2, OfJoined
<1> DEFINE y == t \o w
<1>5. y \in Seq(Byte) /\ Body(v, p) = X \o (q \o y)
  BY <1>3, <1>4
<1> HIDE DEF y
<1>6. q \o y \in Seq(Byte)
  BY <1>2, <1>5, OfJoined
<1> DEFINE z == q \o y
           n == Len(Body(v, p))
<1>7. z \in Seq(Byte) /\ n = Len(X \o z)
  BY <1>5, <1>6
<1> HIDE DEF z, n
<1>8. n \in Nat /\ n >= 10
  BY <1>2, <1>7, JoinedLength, Zenon
<1> QED BY <1>1, <1>8, HeaderLengths DEF LengthFits, n, Acks

\* CONNACK is as long as is demanded of it.
LEMMA LengthFitsConnack ==
  ASSUME NEW v \in {4, 5}, NEW p \in Connacks(v)
  PROVE  LengthFits(v, p, Len(Body(v, p)))
<1>1. p.type = "connack" /\ p.props \in PropsOf(v)
  BY DEF Connacks
<1> DEFINE q == PropBytes(v, p.props)
           X == ConnackStart(p)
           n == Len(Body(v, p))
<1>2. q \in Seq(Byte) /\ Wired(2, X) /\ (v = 4 => q = <<>>)
  BY <1>1, WiredPropBytes, ConnackFramed, EmptyInV4, Zenon DEF Wired
<1>3. n = Len(X \o q)
  BY <1>1, BodyOf, Zenon
<1> HIDE DEF q, X, n
<1>4. n \in Nat /\ n >= 2 /\ (v = 4 => n = 2)
  BY <1>2, <1>3, JoinedLength, Zenon
<1> QED BY <1>1, <1>4, HeaderLengths DEF LengthFits, n, Acks

\* PUBLISH is as long as is demanded of it.
LEMMA LengthFitsPublish ==
  ASSUME NEW v \in {4, 5}, NEW p \in Publishes(v)
  PROVE  LengthFits(v, p, Len(Body(v, p)))
<1>1. p.type = "publish" /\ p.topic \in Strings /\ p.id \in TwoBytes /\ p.payload \in Seq(Byte) /\ p.props \in PropsOf(v)
      /\ p.qos \in 0..2
  BY DEF Publishes
<1> DEFINE q == PropBytes(v, p.props)
           i == PublishId(p)
           d == p.payload
           t == Text(p.topic)
           n == Len(Body(v, p))
<1>2. q \in Seq(Byte) /\ t \in Seq(Byte) /\ i \in Seq(Byte)
  <2>1. q \in Seq(Byte) /\ t \in Seq(Byte)
    BY <1>1, WiredPropBytes, WiredText, Zenon DEF Wired
  <2>2. BigEndian(p.id, 2) \in Seq(Byte)
    BY <1>1, WiredId, Zenon DEF Wired
  <2>3. i = BigEndian(p.id, 2) \/ i = <<>>
    BY DEF PublishId
  <2>4. <<>> \in Seq(Byte)
    OBVIOUS
  <2> HIDE DEF i
  <2> QED BY <2>1, <2>2, <2>3, <2>4, Zenon
<1>3. n = Len(t \o (i \o (q \o d))) /\ d \in Seq(Byte)
  BY <1>1, BodyOf, Zenon
<1>4. Wired(2 + Len(p.topic), t) /\ Len(p.topic) \in Nat
  <2>1. Len(p.topic) \in Nat
    <3> DEFINE s == p.topic
    <3>1. s \in Strings
      BY <1>1
    <3> HIDE DEF s
    <3>2. Len(s) \in Nat
      BY ONLY <3>1, LenProperties DEF Strings
    <3> QED BY <3>2 DEF s
  <2> QED BY <1>1, <2>1, WiredText, Zenon
<1> HIDE DEF q, i, d, t, n
<1>5. q \o d \in Seq(Byte)
  BY <1>2, <1>3, OfJoined
<1> DEFINE y == q \o d
<1>6. y \in Seq(Byte)
  BY <1>5
<1> HIDE DEF y
<1>7. i \o y \in Seq(Byte)
  BY <1>2, <1>6, OfJoined
<1> DEFINE z == i \o y
<1>8. z \in Seq(Byte) /\ n = Len(t \o z)
  BY <1>3, <1>7 DEF y
<1> HIDE DEF z
<1>9. n \in Nat /\ n >= 2 + Len(p.topic)
  BY <1>4, <1>8, JoinedLength, Zenon
<1>10. n \in Nat /\ n >= 2
  BY <1>4, <1>9
<1> QED BY <1>1, <1>10, HeaderLengths DEF LengthFits, n, Acks

\* The packets with a packet id are as long as is demanded of them.
LEMMA LengthFitsIds ==
  ASSUME NEW v \in {4, 5},
         NEW p \in Acknowledgements(v) \cup Subscribes(v) \cup Unsubscribes(v) \cup Subacks(v) \cup Unsubacks(v),
         Body(v, p) \in Seq(Byte)
  PROVE  LengthFits(v, p, Len(Body(v, p)))
<1> DEFINE n == Len(Body(v, p))
           i == IdBytes(p)
<1>1. p.id \in Ids
  BY DEF Acknowledgements, Subscribes, Unsubscribes, Subacks, Unsubacks
<1>2. Wired(2, i)
  BY <1>1, WiredIds, Zenon
<1>3. CASE p \in Acknowledgements(v)
  <2>1. p.type \in Acks /\ p.reason \in Byte /\ p.props \in Seq(PropertyValues) /\ (v = 4 => p.reason = 0)
    <3>1. p.type \in Acks /\ p.reason \in ReasonsOf(v) /\ p.props \in PropsOf(v)
      BY <1>3, Zenon DEF Acknowledgements, Acks
    <3> QED BY <3>1, ReasonsAreBytes, PropsAreProperties, Zenon
  <2> DEFINE z == ReasonPart(p)
  <2>2. z \in Seq(Byte) /\ n = Len(i \o z)
    BY <2>1, ReasonIs, BodyOf, Zenon DEF Wired
  <2>3. v = 4 => z = <<>>
    BY <2>1 DEF ReasonPart
  <2> HIDE DEF n, i, z
  <2>4. n \in Nat /\ n >= 2 /\ (v = 4 => n = 2)
    BY <1>2, <2>2, <2>3, JoinedLength, Zenon
  <2>5. LeastLength(p.type) = 2 /\ HeaderLength(p.type) = 2
    BY <2>1, HeaderLengths DEF Acks
  <2> QED BY <2>1, <2>4, <2>5 DEF LengthFits, n, Acks
<1>4. CASE p \in Subscribes(v) \cup Unsubscribes(v) \cup Subacks(v) \cup Unsubacks(v)
  <2>1. /\ p.type \in {"subscribe", "unsubscribe", "suback", "unsuback"} /\ p.props \in PropsOf(v)
        /\ p.type = "unsuback" => p \in Unsubacks(v)
        /\ p.type = "subscribe" => p \in Subscribes(v)
        /\ p.type = "unsubscribe" => p \in Unsubscribes(v)
        /\ p.type = "suback" => p \in Subacks(v)
    <3>1. p \in Subscribes(v) => p.type = "subscribe" /\ p.props \in PropsOf(v)
      BY DEF Subscribes
    <3>2. p \in Unsubscribes(v) => p.type = "unsubscribe" /\ p.props \in PropsOf(v)
      BY DEF Unsubscribes
    <3>3. p \in Subacks(v) => p.type = "suback" /\ p.props \in PropsOf(v)
      BY DEF Subacks
    <3>4. p \in Unsubacks(v) => p.type = "unsuback" /\ p.props \in PropsOf(v)
      BY DEF Unsubacks
    <3> QED BY <1>4, <3>1, <3>2, <3>3, <3>4
  <2> DEFINE q == PropBytes(v, p.props)
  <2>2. q \in Seq(Byte) /\ (v = 4 => q = <<>>)
    BY <2>1, WiredPropBytes, EmptyInV4, Zenon DEF Wired
  <2>3. \E e \in Seq(Byte) : n = Len(i \o (q \o e)) /\ (v = 4 /\ p.type = "unsuback" => e = <<>>)
    <3>1. CASE p.type = "subscribe"
      <4> DEFINE k == Kept(v, p)
      <4>4. k \in Subscribes(v)
        BY <2>1, <3>1, KeptSubscribe, Zenon
      <4>1. k.filters \in Seq(Strings) /\ k.options \in Seq(Byte) /\ Len(k.options) = Len(k.filters)
        <5> HIDE DEF k
        <5> QED BY <4>4 DEF Subscribes, AtLeastOne
      <4>2. FlattenSeq(FilterPieces(k)) \in Seq(Byte)
        <5> HIDE DEF k
        <5> QED BY <4>1, FilterPiecesType, Zenon DEF Wired
      <4>3. n = Len(i \o (q \o FlattenSeq(FilterPieces(k))))
        BY <3>1, BodyOf, Zenon
      <4> HIDE DEF k
      <4> QED BY <3>1, <4>2, <4>3
    <3>2. CASE p.type = "unsubscribe"
      <4>1. p.filters \in Seq(Strings)
        BY <2>1, <3>2 DEF Unsubscribes, AtLeastOne
      <4>2. Texts(p.filters) \in Seq(Byte)
        BY <4>1, TextPiecesType, FlattenType, Zenon
      <4>3. n = Len(i \o (q \o Texts(p.filters)))
        BY <3>2, BodyOf, Zenon
      <4> QED BY <3>2, <4>2, <4>3
    <3>3. CASE p.type = "suback"
      <4>1. p.codes \in Seq(Byte)
        BY <2>1, <3>3 DEF Subacks
      <4>3. n = Len(i \o (q \o p.codes))
        BY <3>3, BodyOf, Zenon
      <4> QED BY <3>3, <4>1, <4>3
    <3>4. CASE p.type = "unsuback"
      <4>1. p.codes \in IF v = 5 THEN Seq(Byte) ELSE {<<>>}
        BY <2>1, <3>4, Zenon DEF Unsubacks
      <4>2. p.codes \in Seq(Byte) /\ (v = 4 => p.codes = <<>>)
        <5> DEFINE c == p.codes
        <5>1. c \in IF v = 5 THEN Seq(Byte) ELSE {<<>>}
          BY <4>1
        <5> HIDE DEF c
        <5>2. CASE v = 5
          BY <5>1, <5>2 DEF c
        <5>3. CASE v = 4
          <6>1. c = <<>> /\ <<>> \in Seq(Byte)
            BY <5>1, <5>3
          <6> QED BY <6>1 DEF c
        <5> QED BY <5>2, <5>3
      <4>3. n = Len(i \o (q \o p.codes))
        BY <3>4, BodyOf, Zenon
      <4> QED BY <4>2, <4>3
    <3> QED BY <2>1, <3>1, <3>2, <3>3, <3>4
  <2>4. PICK e \in Seq(Byte) : n = Len(i \o (q \o e)) /\ (v = 4 /\ p.type = "unsuback" => e = <<>>)
    BY <2>3
  <2> DEFINE z == q \o e
  <2>5. z \in Seq(Byte) /\ (v = 4 /\ p.type = "unsuback" => z = <<>>) /\ n = Len(i \o z)
    <3> HIDE DEF q, n, i
    <3>1. q \o e \in Seq(Byte)
      BY <2>2, <2>4, OfJoined
    <3>2. v = 4 /\ p.type = "unsuback" => z = <<>>
      BY <2>2, <2>4, WiredEmpty
    <3> QED BY <2>4, <3>1, <3>2
  <2> HIDE DEF n, i, z, q
  <2>8. n \in Nat /\ n >= 2 /\ (z = <<>> => n = 2)
    BY <1>2, <2>5, JoinedLength, Zenon
  <2>6. n \in Nat /\ n >= 2 /\ (v = 4 /\ p.type = "unsuback" => n = 2)
    BY <2>5, <2>8
  <2>7. LeastLength(p.type) = 2 /\ HeaderLength(p.type) = 2
    BY <2>1, HeaderLengths
  <2> QED BY <2>1, <2>6, <2>7 DEF LengthFits, n, Acks
<1> QED BY <1>3, <1>4

\* DISCONNECT and AUTH are as long as is demanded of them.
LEMMA LengthFitsEndings ==
  ASSUME NEW v \in {4, 5}, NEW p \in Endings(v)
  PROVE  LengthFits(v, p, Len(Body(v, p)))
<1> DEFINE n == Len(Body(v, p))
<1>1. /\ p.type \in {"disconnect"} \cup (IF v = 5 THEN {"auth"} ELSE {})
      /\ p.reason \in ReasonsOf(v) /\ p.props \in PropsOf(v)
  BY Zenon DEF Endings
<1>2. /\ p.type \in {"disconnect", "auth"} /\ (v = 4 => p.type = "disconnect")
      /\ p.reason \in Byte /\ p.props \in Seq(PropertyValues) /\ (v = 4 => p.reason = 0)
  BY <1>1, ReasonsAreBytes, PropsAreProperties
<1>3. n = Len(EndPart(p))
  BY <1>2, BodyOf, Zenon
<1>4. CASE p.reason = 0
  <2>1. n = 0
    BY <1>3, <1>4 DEF EndPart
  <2> HIDE DEF n
  <2> QED BY <1>2, <1>4, <2>1, HeaderLengths DEF LengthFits, n, Acks
<1>5. CASE p.reason # 0
  <2> DEFINE E == Properties(p.props)
             x == <<p.reason>>
  <2>1. E \in Seq(Byte) /\ Len(E) >= 1 /\ Wired(1, x)
    BY <1>2, WiredProperties, WiredByte, Zenon DEF Wired
  <2>2. n = Len(x \o E)
    BY <1>3, <1>5 DEF EndPart
  <2> HIDE DEF n, E, x
  <2>3. n = 1 + Len(E) /\ Len(E) \in Nat
    <3>1. x \in Seq(Byte) /\ Len(x) = 1
      BY ONLY <2>1 DEF Wired
    <3>2. Len(x \o E) = Len(x) + Len(E)
      BY ONLY <2>1, <3>1, OfJoined
    <3>3. Len(E) \in Nat
      BY ONLY <2>1, LenProperties
    <3> QED BY ONLY <2>2, <3>1, <3>2, <3>3
  <2>4. n \in Nat /\ n >= 2
    BY <2>1, <2>3
  <2> QED BY <1>2, <1>5, <2>4, HeaderLengths DEF LengthFits, n, Acks
<1> QED BY <1>4, <1>5

\* No packet that is sent has a length that the reader refuses.
LEMMA LengthFitsAll ==
  ASSUME NEW v \in {4, 5}, NEW p \in Packets(v)
  PROVE  LengthFits(v, p, Len(Body(v, p)))
<1>1. Body(v, p) \in Seq(Byte)
  BY WireForm, Zenon
<1>2. CASE p \in Pings
  <2>1. p.type \in {"pingreq", "pingresp"}
    BY <1>2 DEF Pings
  <2>2. Len(Body(v, p)) = 0
    <3>1. Body(v, p) = <<>>
      BY <2>1, BodyOf, Zenon
    <3> QED BY <3>1
  <2> DEFINE n == Len(Body(v, p))
  <2>3. n = 0
    BY <2>2
  <2> HIDE DEF n
  <2> QED BY <2>1, <2>3, HeaderLengths DEF LengthFits, n, Acks
<1>3. CASE p \notin Pings
  <2>1. \/ p \in Connects(v) \/ p \in Connacks(v) \/ p \in Publishes(v)
        \/ p \in Acknowledgements(v) \cup Subscribes(v) \cup Unsubscribes(v) \cup Subacks(v) \cup Unsubacks(v)
        \/ p \in Endings(v)
    BY <1>3, Zenon DEF Packets
  <2> QED BY <1>1, <2>1, LengthFitsConnect, LengthFitsConnack, LengthFitsPublish, LengthFitsIds, LengthFitsEndings, Zenon
<1> QED BY <1>2, <1>3

-----------------------------------------------------------------------------
\* The inductive invariant.

\* The version and the limits of reading ahead.
Config == version \in {4, 5} /\ asServer \in BOOLEAN /\ packetLimit \in Nat /\ propsLimit \in Nat
\* The packets on their way are ones that the sender constructs. CONNECT or CONNACK, sent first, is
\* handed over before any other, and the version of a server's reader is undetermined until CONNECT is
\* read.
Flight ==
  /\ inFlight \in Seq(Packets(version))
  /\ \A k \in 1..Len(inFlight) : inFlight[k].type # (IF asServer THEN "connack" ELSE "connect")
  /\ ~begun => inFlight = <<>> /\ pc = "header" /\ ~mqttConnected
  /\ mqttConnected \/ ~begun \/ (inFlight # <<>> /\ Opens(inFlight[1]))
  /\ known = version \/ (known = 0 /\ asServer /\ ~mqttConnected /\ pc \in {"header", "length", "block", "flags"})
\* The wire holds the packets on their way, but for what was read of the first; a closed connection
\* reads no more.
Reader ==
  \/ pc = "header" /\ Idle /\ stream = WireOf(version, inFlight)
  \/ \E v \in {version}, s \in {inFlight} : s # <<>> /\ ReadingPacket(v, Kept(v, s[1]), WireOf(v, Tail(s)))
  \/ pc = "closed"
\* The inductive invariant.
IInv == Config /\ Flight /\ Reader

\* A suspended coroutine waits for a field.
LEMMA MidPc ==
  ASSUME NEW CONSTANT v, NEW CONSTANT p, NEW CONSTANT T, Mid(v, p, T)
  PROVE  pc \in Fields
<1>1. CASE MidConnect(v, p, T)
  BY <1>1, FieldNames, Zenon DEF MidConnect, AtProps
<1>2. CASE MidConnack(v, p, T)
  BY <1>2, FieldNames, Zenon DEF MidConnack, AtProps
<1>3. CASE MidPublish(v, p, T)
  BY <1>3, FieldNames, Zenon DEF MidPublish, AtProps
<1>4. CASE MidAck(v, p, T)
  BY <1>4, FieldNames, Zenon DEF MidAck, AtProps
<1>5. CASE MidSubscribe(v, p, T)
  BY <1>5, FieldNames, Zenon DEF MidSubscribe, AtProps
<1>6. CASE MidUnsubscribe(v, p, T)
  BY <1>6, FieldNames, Zenon DEF MidUnsubscribe, AtProps
<1>7. CASE MidSuback(v, p, T)
  BY <1>7, FieldNames, Zenon DEF MidSuback, AtProps
<1>8. CASE MidEnding(v, p, T)
  BY <1>8, FieldNames, Zenon DEF MidEnding, AtProps
<1> QED BY <1>1, <1>2, <1>3, <1>4, <1>5, <1>6, <1>7, <1>8, Zenon DEF Mid

\* The fields are not the other stages of the reader.
LEMMA FieldsApart == {"header", "length", "block", "done", "closed", "refused"} \cap Fields = {}
BY SMT DEF Fields

\* A read of any packet behind its block.
Coroutine ==
  \/ ProcessConnect \/ ProcessConnack \/ ProcessPublish
  \/ ProcessPuback \/ ProcessPubrec \/ ProcessPubrel \/ ProcessPubcomp
  \/ ProcessSubscribe \/ ProcessSuback \/ ProcessUnsubscribe \/ ProcessUnsuback
  \/ ProcessDisconnect \/ ProcessAuth

\* It waits for a field.
LEMMA CoroutinePc ==
  ASSUME Coroutine
  PROVE  pc \in Fields
<1>1. CASE ProcessConnect
  BY <1>1, FieldNames, Zenon DEF ProcessConnect, ConnectHeader, Reads, ReadsProperties
<1>2. CASE ProcessConnack
  BY <1>2, FieldNames, Zenon DEF ProcessConnack, ConnackHeader, Reads, ReadsProperties
<1>3. CASE ProcessPublish
  BY <1>3, FieldNames, Zenon DEF ProcessPublish, Reads, ReadsProperties
<1>4. CASE ReadAck
  BY <1>4, FieldNames, Zenon DEF ReadAck, Reads, ReadsProperties
<1>5. CASE ProcessSubscribe
  BY <1>5, FieldNames, Zenon DEF ProcessSubscribe, Reads, ReadsProperties
<1>6. CASE ProcessUnsubscribe
  BY <1>6, FieldNames, Zenon DEF ProcessUnsubscribe, Reads, ReadsProperties
<1>7. CASE ProcessSuback
  BY <1>7, FieldNames, Zenon DEF ProcessSuback, Reads, ReadsProperties
<1>8. CASE ProcessUnsuback
  BY <1>8, FieldNames, Zenon DEF ProcessUnsuback, Reads, ReadsProperties
<1>9. CASE ProcessDisconnect
  BY <1>9, FieldNames, Zenon DEF ProcessDisconnect, Reads, ReadsProperties
<1>10. CASE ProcessAuth
  BY <1>10, FieldNames, Zenon DEF ProcessAuth, Reads, ReadsProperties
<1> QED BY <1>1, <1>2, <1>3, <1>4, <1>5, <1>6, <1>7, <1>8, <1>9, <1>10, Zenon
           DEF Coroutine, ProcessPuback, ProcessPubrec, ProcessPubrel, ProcessPubcomp

\* The packets of each type.
LEMMA PacketSorts ==
  ASSUME NEW v \in {4, 5}, NEW p \in Packets(v)
  PROVE  /\ p.type = "connect" => p \in Connects(v)
         /\ p.type = "connack" => p \in Connacks(v)
         /\ p.type = "publish" => p \in Publishes(v)
         /\ p.type \in Acks => p \in Acknowledgements(v)
         /\ p.type = "subscribe" => p \in Subscribes(v)
         /\ p.type = "unsubscribe" => p \in Unsubscribes(v)
         /\ p.type \in {"suback", "unsuback"} => p \in Subacks(v) \cup Unsubacks(v)
         /\ p.type = "suback" => p \in Subacks(v)
         /\ p.type = "unsuback" => p \in Unsubacks(v)
         /\ p.type \in {"pingreq", "pingresp"} => p \in Pings
         /\ p.type \in {"disconnect", "auth"} => p \in Endings(v)
<1>1. p \in Connects(v) => p.type = "connect"
  BY DEF Connects
<1>2. p \in Connacks(v) => p.type = "connack"
  BY DEF Connacks
<1>3. p \in Publishes(v) => p.type = "publish"
  BY DEF Publishes
<1>4. p \in Acknowledgements(v) => p.type \in Acks
  BY DEF Acknowledgements, Acks
<1>5. p \in Subscribes(v) => p.type = "subscribe"
  BY DEF Subscribes
<1>6. p \in Unsubscribes(v) => p.type = "unsubscribe"
  BY DEF Unsubscribes
<1>7. p \in Subacks(v) => p.type = "suback"
  BY DEF Subacks
<1>8. p \in Unsubacks(v) => p.type = "unsuback"
  BY DEF Unsubacks
<1>9. p \in Pings => p.type \in {"pingreq", "pingresp"}
  BY DEF Pings
<1>10. p \in Endings(v) => p.type \in {"disconnect", "auth"}
  <2>1. CASE v = 5
    BY <2>1, SMT DEF Endings
  <2>2. CASE v = 4
    BY <2>2, SMT DEF Endings
  <2> QED BY <2>1, <2>2
<1>11. \/ p \in Connects(v) \/ p \in Connacks(v) \/ p \in Publishes(v) \/ p \in Acknowledgements(v)
       \/ p \in Subscribes(v) \/ p \in Unsubscribes(v) \/ p \in Subacks(v) \/ p \in Unsubacks(v)
       \/ p \in Pings \/ p \in Endings(v)
  BY Zenon DEF Packets
<1> QED BY <1>1, <1>2, <1>3, <1>4, <1>5, <1>6, <1>7, <1>8, <1>9, <1>10, <1>11, SMT DEF Acks

\* What the constructor keeps of a packet is a packet of the same bytes, and is handed over alike.
LEMMA KeptIs ==
  ASSUME NEW v \in {4, 5}, NEW p \in Packets(v)
  PROVE  /\ Kept(v, p) \in Packets(v) /\ Kept(v, Kept(v, p)) = Kept(v, p) /\ Kept(v, p).type = p.type
         /\ HeaderOf(Kept(v, p)) = HeaderOf(p) /\ Body(v, Kept(v, p)) = Body(v, p)
         /\ Opens(Kept(v, p)) <=> Opens(p)
         /\ ReadingsOf(v, Kept(v, p)) = ReadingsOf(v, p)
<1>1. CASE p.type # "subscribe"
  <2>1. Kept(v, p) = p
    BY <1>1, KeptOthers, Zenon
  <2> QED BY <2>1
<1>2. CASE p.type = "subscribe"
  <2> DEFINE k == Kept(v, p)
  <2>1. p \in Subscribes(v)
    BY <1>2, PacketSorts, Zenon
  <2>2. k \in Subscribes(v) /\ Kept(v, k) = k /\ k.type = "subscribe" /\ k.id = p.id /\ k.props = p.props
    BY <1>2, <2>1, KeptSubscribe, Zenon
  <2>3. ReadingsOf(v, p) = {k}
    BY <1>2 DEF ReadingsOf, Acks
  <2> HIDE DEF k
  <2>4. ReadingsOf(v, k) = {k}
    <3>1. k.type \notin Acks \cup {"disconnect", "auth"}
      BY <2>2 DEF Acks
    <3> QED BY <2>2, <3>1, Zenon DEF ReadingsOf
  <2>5. HeaderOf(k) = HeaderOf(p)
    <3>1. "subscribe" # "publish"
      OBVIOUS
    <3> QED BY <1>2, <2>2, <3>1, Zenon DEF HeaderOf
  <2>6. Body(v, k) = Body(v, p)
    <3>1. Body(v, p) = IdBytes(p) \o (PropBytes(v, p.props) \o FlattenSeq(FilterPieces(k)))
      BY <1>2, BodyOf, Zenon DEF k
    <3>2. Body(v, k) = IdBytes(k) \o (PropBytes(v, k.props) \o FlattenSeq(FilterPieces(Kept(v, k))))
      BY <2>2, BodyOf, Zenon
    <3>3. IdBytes(k) = IdBytes(p)
      BY <2>2, Zenon DEF IdBytes
    <3> QED BY <2>2, <3>1, <3>2, <3>3, Zenon
  <2>7. Encoded(v, k) = Encoded(v, p)
    <3>1. IsFramed(v, p) /\ IsFramed(v, k)
      BY <2>1, <2>2, SubscribeFramed, Zenon
    <3> QED BY <2>5, <2>6, <3>1, Zenon DEF IsFramed
  <2>8. k \in Packets(v)
    <3>1. Len(Encoded(v, p)) <= LengthLimit + 4
      BY Zenon DEF Packets
    <3> QED BY <2>2, <2>7, <3>1, Zenon DEF Packets
  <2>9. Opens(k) <=> Opens(p)
    BY <1>2, <2>2, Zenon DEF Opens
  <2> QED BY <1>2, <2>2, <2>3, <2>4, <2>5, <2>6, <2>8, <2>9, Zenon DEF k
<1> QED BY <1>1, <1>2

-----------------------------------------------------------------------------
\* A step of any coroutine.

\* The coroutine is the one of the packet's type.
LEMMA CoroutineOf ==
  ASSUME NEW type, TypeOf(header) = type, Coroutine
  PROVE  /\ type = "connect" => ProcessConnect
         /\ type = "connack" => ProcessConnack
         /\ type = "publish" => ProcessPublish
         /\ type \in Acks => ReadAck
         /\ type = "subscribe" => ProcessSubscribe
         /\ type = "unsubscribe" => ProcessUnsubscribe
         /\ type \in {"suback", "unsuback"} => ProcessSuback \/ ProcessUnsuback
         /\ type \in {"disconnect", "auth"} => ProcessDisconnect \/ ProcessAuth
<1>1. ProcessConnect => type = "connect"
  BY Zenon DEF ProcessConnect, Reading
<1>2. ProcessConnack => type = "connack"
  BY Zenon DEF ProcessConnack, Reading
<1>3. ProcessPublish => type = "publish"
  BY Zenon DEF ProcessPublish, Reading
<1>4. ProcessPuback => type = "puback" /\ ReadAck
  BY Zenon DEF ProcessPuback, Reading
<1>5. ProcessPubrec => type = "pubrec" /\ ReadAck
  BY Zenon DEF ProcessPubrec, Reading
<1>6. ProcessPubrel => type = "pubrel" /\ ReadAck
  BY Zenon DEF ProcessPubrel, Reading
<1>7. ProcessPubcomp => type = "pubcomp" /\ ReadAck
  BY Zenon DEF ProcessPubcomp, Reading
<1>8. ProcessSubscribe => type = "subscribe"
  BY Zenon DEF ProcessSubscribe, Reading
<1>9. ProcessSuback => type = "suback"
  BY Zenon DEF ProcessSuback, Reading
<1>10. ProcessUnsubscribe => type = "unsubscribe"
  BY Zenon DEF ProcessUnsubscribe, Reading
<1>11. ProcessUnsuback => type = "unsuback"
  BY Zenon DEF ProcessUnsuback, Reading
<1>12. ProcessDisconnect => type = "disconnect"
  BY Zenon DEF ProcessDisconnect, Reading
<1>13. ProcessAuth => type = "auth"
  BY Zenon DEF ProcessAuth, Reading
<1>14. ProcessConnect \/ ProcessConnack \/ ProcessPublish \/ ProcessPuback \/ ProcessPubrec \/ ProcessPubrel \/ ProcessPubcomp
       \/ ProcessSubscribe \/ ProcessSuback \/ ProcessUnsubscribe \/ ProcessUnsuback \/ ProcessDisconnect \/ ProcessAuth
  BY Zenon DEF Coroutine
<1> QED BY ONLY <1>1, <1>2, <1>3, <1>4, <1>5, <1>6, <1>7, <1>8, <1>9, <1>10, <1>11, <1>12, <1>13, <1>14, SMT DEF Acks

\* The stages of a packet are the ones of its type.
LEMMA MidOf ==
  ASSUME NEW v, NEW p, NEW T, Mid(v, p, T)
  PROVE  /\ p.type = "connect" => MidConnect(v, p, T)
         /\ p.type = "connack" => MidConnack(v, p, T)
         /\ p.type = "publish" => MidPublish(v, p, T)
         /\ p.type \in Acks => MidAck(v, p, T)
         /\ p.type = "subscribe" => MidSubscribe(v, p, T)
         /\ p.type = "unsubscribe" => MidUnsubscribe(v, p, T)
         /\ p.type \in {"suback", "unsuback"} => MidSuback(v, p, T)
         /\ p.type \in {"disconnect", "auth"} => MidEnding(v, p, T)
         /\ p.type \notin {"pingreq", "pingresp"}
BY SMT DEF Mid, Acks

\* Every read of every packet.
LEMMA MidStep ==
  ASSUME NEW CONSTANT v \in {4, 5}, NEW CONSTANT p \in Packets(v), NEW CONSTANT T \in Seq(Byte),
         propsLimit \in Nat, known \in {0, v}, pc # "flags" => known = v,
         known = v \/ p.type = "connect", Kept(v, p) = p,
         header = HeaderOf(p), Mid(v, p, T), Coroutine
  PROVE  /\ Mid(v, p, T)' \/ Done(v, p, T)'
         /\ known' = v /\ UNCHANGED <<config, sender, mqttConnected, header, last>>
<1>1. TypeOf(HeaderOf(p)) = p.type /\ TypeOf(header) = p.type
  BY WireForm, Zenon
<1>2. CASE p.type = "connect"
  <2>1. p \in Connects(v)
    BY <1>2, PacketSorts, Zenon
  <2>2. MidConnect(v, p, T)
    BY <1>2, MidOf, Zenon
  <2>3. ProcessConnect
    BY <1>1, <1>2, CoroutineOf, Zenon
  <2>4. (MidConnect(v, p, T)' \/ Done(v, p, T)') /\ known' = v
        /\ UNCHANGED <<config, sender, mqttConnected, header, last>>
    BY <2>1, <2>2, <2>3, ConnectStep
  <2> QED BY <1>2, <2>4, Zenon DEF Mid
<1>3. CASE p.type # "connect"
  <2>0. known = v
    BY <1>3
  <2>2. CASE p.type = "connack"
    <3>1. MidConnack(v, p, T) /\ ProcessConnack /\ p \in Connacks(v)
      BY <1>1, <2>2, PacketSorts, MidOf, CoroutineOf, Zenon
    <3>2. (MidConnack(v, p, T)' \/ Done(v, p, T)') /\ UNCHANGED <<config, sender, known, mqttConnected, header, last>>
      BY <2>0, <3>1, ConnackStep
    <3> QED BY <2>0, <2>2, <3>2, Zenon DEF Mid
  <2>3. CASE p.type = "publish"
    <3>1. MidPublish(v, p, T) /\ ProcessPublish /\ p \in Publishes(v)
      BY <1>1, <2>3, PacketSorts, MidOf, CoroutineOf, Zenon
    <3>2. (MidPublish(v, p, T)' \/ Done(v, p, T)') /\ UNCHANGED <<config, sender, known, mqttConnected, header, last>>
      BY <2>0, <3>1, PublishStep
    <3> QED BY <2>0, <2>3, <3>2, Zenon DEF Mid
  <2>4. CASE p.type \in Acks
    <3>1. MidAck(v, p, T) /\ ReadAck /\ p \in Acknowledgements(v)
      BY <1>1, <2>4, PacketSorts, MidOf, CoroutineOf, Zenon
    <3>2. (MidAck(v, p, T)' \/ Done(v, p, T)') /\ UNCHANGED <<config, sender, known, mqttConnected, header, last>>
      BY <3>1, AckStep
    <3> QED BY <2>0, <2>4, <3>2, Zenon DEF Mid
  <2>5. CASE p.type = "subscribe"
    <3>1. MidSubscribe(v, p, T) /\ ProcessSubscribe /\ p \in Subscribes(v)
      BY <1>1, <2>5, PacketSorts, MidOf, CoroutineOf, Zenon
    <3>2. (MidSubscribe(v, p, T)' \/ Done(v, p, T)') /\ UNCHANGED <<config, sender, known, mqttConnected, header, last>>
      BY <2>0, <3>1, SubscribeStep
    <3> QED BY <2>0, <2>5, <3>2, Zenon DEF Mid
  <2>6. CASE p.type = "unsubscribe"
    <3>1. MidUnsubscribe(v, p, T) /\ ProcessUnsubscribe /\ p \in Unsubscribes(v)
      BY <1>1, <2>6, PacketSorts, MidOf, CoroutineOf, Zenon
    <3>2. (MidUnsubscribe(v, p, T)' \/ Done(v, p, T)') /\ UNCHANGED <<config, sender, known, mqttConnected, header, last>>
      BY <2>0, <3>1, UnsubscribeStep
    <3> QED BY <2>0, <2>6, <3>2, Zenon DEF Mid
  <2>7. CASE p.type \in {"suback", "unsuback"}
    <3>1. MidSuback(v, p, T) /\ (ProcessSuback \/ ProcessUnsuback) /\ p \in Subacks(v) \cup Unsubacks(v)
      BY <1>1, <2>7, PacketSorts, MidOf, CoroutineOf, Zenon
    <3>2. (MidSuback(v, p, T)' \/ Done(v, p, T)') /\ UNCHANGED <<config, sender, known, mqttConnected, header, last>>
      BY <1>1, <2>0, <3>1, CodesStep
    <3> QED BY <2>0, <2>7, <3>2, Zenon DEF Mid
  <2>8. CASE p.type \in {"disconnect", "auth"}
    <3>1. MidEnding(v, p, T) /\ (ProcessDisconnect \/ ProcessAuth) /\ p \in Endings(v)
      BY <1>1, <2>8, PacketSorts, MidOf, CoroutineOf, Zenon
    <3>2. (MidEnding(v, p, T)' \/ Done(v, p, T)') /\ UNCHANGED <<config, sender, known, mqttConnected, header, last>>
      BY <3>1, EndingStep
    <3> QED BY <2>0, <2>8, <3>2, Zenon DEF Mid
  <2> QED BY <1>3, <2>2, <2>3, <2>4, <2>5, <2>6, <2>7, <2>8, Zenon DEF Mid
<1> QED BY <1>2, <1>3

-----------------------------------------------------------------------------
\* From the first byte to the block.

\* What is on the wire begins with the first packet.
LEMMA Ahead ==
  ASSUME NEW v \in {4, 5}, NEW s \in Seq(Packets(v)), s # <<>>
  PROVE  LET p == s[1]
             T == WireOf(v, Tail(s))
             b == Body(v, p)
             w == VarBytes(Len(b))
         IN /\ p \in Packets(v) /\ T \in Seq(Byte) /\ b \in Seq(Byte) /\ w \in Seq(Byte)
            /\ HeaderOf(p) \in Byte /\ w \o (b \o T) \in Seq(Byte)
            /\ WireOf(v, s) = <<HeaderOf(p)>> \o (w \o (b \o T))
<1> DEFINE p == s[1]
           T == WireOf(v, Tail(s))
           b == Body(v, p)
           w == VarBytes(Len(b))
           h == HeaderOf(p)
           e == Encoded(v, p)
           x == <<h>>
           W == WireOf(v, s)
<1>1. p \in Packets(v) /\ T \in Seq(Byte) /\ W = e \o T
  BY WireMore, Zenon
<1>2. e = x \o (w \o b) /\ b \in Seq(Byte) /\ w \in Seq(Byte) /\ h \in Byte /\ x \in Seq(Byte)
  <2> HIDE DEF p
  <2> QED BY <1>1, WireForm, Zenon
<1> HIDE DEF T, b, w, h, e, x, p, W
<1>3. w \o b \in Seq(Byte) /\ b \o T \in Seq(Byte)
  BY <1>1, <1>2, OfJoined
<1> DEFINE z == w \o b
           y == b \o T
<1>4. (x \o z) \o T = x \o (z \o T)
  <2>1. z \in Seq(Byte) /\ x \in Seq(Byte) /\ T \in Seq(Byte)
    BY <1>1, <1>2, <1>3
  <2> HIDE DEF z
  <2> QED BY ONLY <2>1, AssociateBytes, SMTT(30)
<1>5. z \o T = w \o y
  <2>1. w \in Seq(Byte) /\ b \in Seq(Byte) /\ T \in Seq(Byte)
    BY <1>1, <1>2
  <2> QED BY ONLY <2>1, AssociateBytes, SMTT(30)
<1>6. w \o y \in Seq(Byte)
  <2>1. y \in Seq(Byte)
    BY <1>3
  <2> HIDE DEF y
  <2> QED BY <1>2, <2>1, OfJoined
<1>7. W = x \o (w \o y)
  BY <1>1, <1>2, <1>4, <1>5, Zenon DEF z
<1> QED BY <1>1, <1>2, <1>6, <1>7, Zenon DEF p, T, b, w, h, e, x, W, y

\* The first byte is read.
LEMMA TypeStep ==
  ASSUME NEW CONSTANT v \in {4, 5}, NEW CONSTANT s \in Seq(Packets(v)), Idle, stream = WireOf(v, s),
         ReadControlPacketType
  PROVE  /\ s # <<>> /\ ReadingPacket(v, Kept(v, s[1]), WireOf(v, Tail(s)))' /\ pc' = "length"
         /\ UNCHANGED <<config, sender, known, mqttConnected, last>>
<1>1. s # <<>>
  <2> SUFFICES ASSUME s = <<>> PROVE FALSE
    OBVIOUS
  <2>1. stream = <<>>
    BY WireEmpty, Zenon
  <2> QED BY <2>1, Zenon DEF ReadControlPacketType
<1> DEFINE p == s[1]
           T == WireOf(v, Tail(s))
           k == Kept(v, p)
           b == Body(v, p)
           w == VarBytes(Len(b))
           h == HeaderOf(p)
           y == w \o (b \o T)
<1>2. h \in Byte /\ y \in Seq(Byte) /\ stream = <<h>> \o y
  BY <1>1, Ahead, Zenon
<1>3. Head(stream) = stream[1]
  OBVIOUS
<1>4. stream[1] = h /\ Tail(stream) = y
  <2> HIDE DEF h, y
  <2> QED BY <1>2, IdBack
<1>5. header' = h /\ stream' = y /\ pc' = "length" /\ Idle'
  <2> HIDE DEF h, y
  <2> QED BY <1>3, <1>4 DEF ReadControlPacketType, Idle
<1>6. ReadingPacket(v, k, T)'
  <2>1. HeaderOf(k) = h /\ Body(v, k) = b
    <3>1. p \in Packets(v)
      BY <1>1, Ahead, Zenon
    <3> HIDE DEF p
    <3> QED BY <3>1, KeptIs, Zenon
  <2> HIDE DEF k, h, b, T
  <2>2. header' = HeaderOf(k) /\ stream' = VarBytes(Len(Body(v, k))) \o (Body(v, k) \o T)
    BY <1>5, <2>1, Zenon
  <2> QED BY <1>5, <2>2, Zenon DEF ReadingPacket
<1>7. UNCHANGED <<config, sender, known, mqttConnected, last>>
  BY Zenon DEF ReadControlPacketType
<1> QED BY <1>1, <1>5, <1>6, <1>7, Zenon

\* No first byte that is sent is refused.
LEMMA HeaderValid ==
  ASSUME NEW v \in {4, 5}, NEW p \in Packets(v)
  PROVE  ValidHeader(HeaderOf(p))
<1>1. /\ TypeOf(HeaderOf(p)) = p.type /\ p.type \in TypeNames
      /\ p.type # "publish" => FlagsOf(HeaderOf(p)) = ReservedBits(p.type)
  BY WireForm, Zenon
<1>2. p.type # "none"
  BY <1>1, SMT DEF TypeNames
<1> QED BY <1>1, <1>2, Zenon DEF ValidHeader

\* No length that is sent is refused.
LEMMA LengthIsAllowed ==
  ASSUME NEW v \in {4, 5}, NEW p \in Packets(v), NEW n, n = Len(Body(v, p)), known \in {0, v},
         mqttConnected \/ Opens(p)
  PROVE  /\ LengthAllowed(p.type, n) /\ TypeAllowed(p.type) /\ n >= LeastLength(p.type)
<1>1. LengthFits(v, p, n)
  BY LengthFitsAll, Zenon
<1>2. known = 4 => v = 4
  OBVIOUS
<1>3. n >= LeastLength(p.type)
  BY <1>1, Zenon DEF LengthFits
<1>4. LengthAllowed(p.type, n)
  BY <1>1, <1>2, SMT DEF LengthFits, LengthAllowed
<1>5. TypeAllowed(p.type)
  BY SMT DEF TypeAllowed, Opens
<1> QED BY <1>3, <1>4, <1>5

\* A packet without a body has been read.
LEMMA NoBody ==
  ASSUME NEW v \in {4, 5}, NEW p \in Packets(v), Len(Body(v, p)) = 0
  PROVE  /\ Filled(p, AllFields(v, p)) = Nothing /\ Uncounted(p) = 0 /\ ~Opens(p)
         /\ p.type \notin {"connect", "connack"} /\ Body(v, p) = <<>>
<1>1. LengthFits(v, p, 0)
  BY LengthFitsAll, Zenon
<1>2. /\ p.type \in {"pingreq", "pingresp", "disconnect", "auth"}
      /\ p.type \in {"disconnect", "auth"} => p.reason = 0
  BY <1>1, Zenon DEF LengthFits
<1>3. AllFields(v, p) = {}
  BY <1>2, AllFieldsAre, SMT
<1>4. p.type \notin {"connect", "connack"}
  BY <1>2, SMT
<1>5. Body(v, p) = <<>>
  BY WireForm, EmptyIs
<1> QED BY <1>3, <1>4, <1>5, FilledEmpty, UncountedIs, Zenon DEF Opens

\* The remaining length is read.
LEMMA LengthStep ==
  ASSUME NEW CONSTANT v \in {4, 5}, NEW CONSTANT p \in Packets(v), NEW CONSTANT T \in Seq(Byte),
         known \in {0, v}, mqttConnected \/ Opens(p),
         pc = "length", Idle, header = HeaderOf(p), stream = VarBytes(Len(Body(v, p))) \o (Body(v, p) \o T),
         HandleRemainingLength
  PROVE  /\ ReadingPacket(v, p, T)' /\ (pc' = "block" \/ (pc' = "done" /\ ~Opens(p)))
         /\ UNCHANGED <<config, sender, known, mqttConnected, header, last>>
<1> DEFINE b == Body(v, p)
           n == Len(b)
           w == VarBytes(n)
           y == b \o T
           h == HeaderOf(p)
<1>1. b \in Seq(Byte) /\ n \in Nat /\ n < LengthLimit /\ w \in Seq(Byte) /\ TypeOf(h) = p.type
  BY WireForm, Zenon
<1>2. y \in Seq(Byte)
  <2> HIDE DEF b
  <2> QED BY <1>1, OfJoined
<1>3. ValidHeader(h) /\ LengthAllowed(p.type, n) /\ TypeAllowed(p.type) /\ n >= LeastLength(p.type)
  BY HeaderValid, LengthIsAllowed, Zenon
<1>4. stream = w \o y /\ header = h
  OBVIOUS
<1>10. n = 0 => /\ Filled(p, AllFields(v, p)) = Nothing /\ Uncounted(p) = 0 /\ ~Opens(p) /\ b = <<>>
  BY NoBody, Zenon
<1> HIDE DEF b, n, w, y, h
<1>5. LengthEnd(w \o y) = Len(w) /\ LengthValue(w \o y, Len(w)) = n /\ Len(w) \in 1..4
  BY <1>1, <1>2, LengthBack DEF w
<1>6. Behind(w \o y, Len(w)) = y
  BY <1>1, <1>2, OfJoined
<1>7. LengthEnd(stream) = Len(w) /\ LengthValue(stream, Len(w)) = n /\ Behind(stream, Len(w)) = y /\ Len(w) # 0
  <2> DEFINE z == w \o y
  <2>1. LengthEnd(z) = Len(w) /\ LengthValue(z, Len(w)) = n /\ Behind(z, Len(w)) = y /\ stream = z
    BY <1>4, <1>5, <1>6
  <2>2. Len(w) # 0
    BY ONLY <1>5
  <2> HIDE DEF z
  <2> QED BY <2>1, <2>2
<1>8. /\ rem' = n /\ stream' = y /\ pc' = IF n = 0 THEN "done" ELSE "block"
      /\ UNCHANGED <<config, sender, known, mqttConnected, header, left, buf, got, last>>
  BY <1>1, <1>3, <1>4, <1>7, Zenon DEF HandleRemainingLength
<1>9. Idle' /\ header' = h
  BY <1>4, <1>8, Zenon DEF Idle
<1>11. CASE n # 0
  <2>1. pc' = "block" /\ rem' = n /\ stream' = b \o T
    BY <1>8, <1>11 DEF y
  <2>2. ReadingPacket(v, p, T)'
    BY <1>9, <1>11, <2>1, Zenon DEF ReadingPacket, b, n, h
  <2> QED BY <1>8, <2>1, <2>2, Zenon
<1>12. CASE n = 0
  <2>1. pc' = "done" /\ rem' = 0 /\ buf' = <<>> /\ left' = 0 /\ got' = Nothing
    BY <1>8, <1>9, <1>12, Zenon DEF Idle
  <2>2. stream' = T
    <3>1. y = T
      BY <1>10, <1>12, WiredEmpty, Zenon DEF y
    <3> QED BY <1>8, <3>1
  <2>3. Placed(Cursor, <<>>, T)'
    <3>1. Len(<<>>) = 0 /\ <<>> \in Seq(Byte) /\ <<>> \o T = T
      OBVIOUS
    <3>2. 0 < LengthLimit
      BY <1>1, <1>12
    <3>3. Cursor' = [stream |-> stream', buf |-> buf', rem |-> rem', left |-> left']
      BY Zenon DEF Cursor
    <3> QED BY <2>1, <2>2, <3>1, <3>2, <3>3 DEF Placed
  <2>4. Spot(Filled(p, AllFields(v, p)), <<>>, T, 0, {})'
    <3>1. Len(buf') \in {0, Len(<<>>)} \cup {} /\ rem' = Len(<<>>) + 0
      BY <2>1
    <3> DEFINE g == Filled(p, AllFields(v, p))
    <3>2. got' = g
      BY <1>10, <1>12, <2>1, Zenon
    <3> HIDE DEF g
    <3> DEFINE R == <<>>
               N == {}
    <3>3. Placed(Cursor, R, T)' /\ rem' = Len(R) + 0 /\ Len(buf') \in {0, Len(R)} \cup N /\ left' = 0
          /\ R \in Seq(Byte)
      BY <2>1, <2>3, <3>1
    <3> HIDE DEF R, N
    <3>4. Spot(g, R, T, 0, N)'
      BY ONLY <3>2, <3>3, SpotIs
    <3> QED BY <3>4 DEF R, N, g
  <2>5. Done(v, p, T)'
    BY <1>10, <1>12, <2>1, <2>4, Zenon DEF Done
  <2> QED BY <1>8, <1>9, <1>10, <1>12, <2>1, <2>5, Zenon DEF ReadingPacket, h
<1> QED BY <1>11, <1>12

\* The block is read.
LEMMA BlockPlaced ==
  ASSUME NEW CONSTANT b \in Seq(Byte), NEW CONSTANT T \in Seq(Byte), NEW CONSTANT size \in 0..Len(b),
         stream = b \o T, left = 0, rem = Len(b), Len(b) < LengthLimit,
         buf' = First(stream, size), stream' = Behind(stream, size), UNCHANGED <<rem, left>>
  PROVE  Placed(Cursor, b, T)' /\ Len(buf') = size
<1> DEFINE x == First(b, size)
           y == Behind(b, size)
<1>1. x \in Seq(Byte) /\ y \in Seq(Byte) /\ Len(x) = size /\ x \o y = b /\ size \in Nat /\ size <= Len(b)
      /\ Len(b) \in Nat
  <2> DEFINE n == Len(b)
  <2>1. n \in Nat
    BY LenProperties
  <2>2. size \in Nat /\ size <= n
    BY <2>1
  <2>3. b \in Seq(Byte) /\ size \in 0..Len(b)
    OBVIOUS
  <2>4. x \in Seq(Byte) /\ y \in Seq(Byte) /\ Len(x) = size /\ x \o y = b
    BY ONLY <2>3, FirstBehind
  <2> QED BY <2>1, <2>2, <2>4
<1>0. x = First(b, size) /\ y = Behind(b, size)
  OBVIOUS
<1> HIDE DEF x, y
<1>2. (x \o y) \o T = x \o (y \o T)
  <2>1. x \in Seq(Byte) /\ y \in Seq(Byte) /\ T \in Seq(Byte)
    BY <1>1
  <2> QED BY ONLY <2>1, AssociateBytes, SMTT(30)
<1>3. y \o T \in Seq(Byte)
  BY <1>1, OfJoined
<1> DEFINE z == y \o T
<1>4. stream = x \o z /\ z \in Seq(Byte)
  BY <1>1, <1>2, <1>3
<1>11. First(stream, size) = First(x \o z, size) /\ Behind(stream, size) = Behind(x \o z, size)
  BY <1>1, <1>2, <1>3
<1>5. x \o z = b \o T
  BY <1>4
<1> HIDE DEF z
<1>6. First(x \o z, Len(x)) = x /\ Behind(x \o z, Len(x)) = z
  BY <1>1, <1>4, OfJoined
<1>7. buf' = x /\ stream' = z
  BY <1>1, <1>4, <1>6, <1>11
<1>8. Cursor' = [stream |-> stream', buf |-> buf', rem |-> rem', left |-> left']
  BY Zenon DEF Cursor
<1>9. rem' = Len(b) /\ left' = 0
  OBVIOUS
<1>10. Placed(Cursor, b, T)'
  <2>1. /\ stream' \in Seq(Byte) /\ buf' \in Seq(Byte) /\ rem' \in Nat /\ left' \in Nat
        /\ Len(buf') <= Len(b) /\ Len(b) <= rem' /\ Len(b) < LengthLimit
    BY <1>1, <1>4, <1>7, <1>9
  <2>2. buf' \o stream' = b \o T
    BY <1>5, <1>7
  <2> QED BY ONLY <1>8, <2>1, <2>2 DEF Placed
<1> QED BY <1>1, <1>7, <1>10

\* How much is read with the block.
LEMMA HeaderLengthIs ==
  ASSUME NEW type \in TypeNames
  PROVE  /\ HeaderLength(type) \in {0, 2, 10} /\ HeaderLength("connect") = 10 /\ HeaderLength("publish") = 0
         /\ type \notin {"connect", "publish", "pingreq", "pingresp"} => HeaderLength(type) = 2
BY SMT DEF HeaderLength, TypeNames

\* Where the coroutine begins.
Begins(v, p, T, N) == Spot(Nothing, Body(v, p), T, 0, N)

\* The field that each coroutine begins with.
LEMMA FirstFieldIs ==
  ASSUME NEW type, TypeOf(header) = type, type \in TypeNames, type \notin {"pingreq", "pingresp"}
  PROVE  /\ type \in {"connect", "connack"} => FirstField = "flags"
         /\ type = "publish" => FirstField = "topic"
         /\ type \in {"disconnect", "auth"} => FirstField = "reason"
         /\ type \in Acks \cup {"subscribe", "unsubscribe", "suback", "unsuback"} => FirstField = "id"
BY SMT DEF FirstField, Acks, TypeNames

\* The block is read, and the coroutine begins.
LEMMA BlockStep ==
  ASSUME NEW CONSTANT v \in {4, 5}, NEW CONSTANT p \in Packets(v), NEW CONSTANT T \in Seq(Byte),
         packetLimit \in Nat,
         pc = "block", Idle, header = HeaderOf(p), rem = Len(Body(v, p)), rem # 0, stream = Body(v, p) \o T,
         ProcessHeader
  PROVE  /\ Mid(v, p, T)' /\ (p.type \in {"connect", "connack"} => pc' = "flags")
         /\ UNCHANGED <<config, sender, known, mqttConnected, header, last>>
<1> DEFINE b == Body(v, p)
           n == Len(b)
           h == HeaderOf(p)
           type == p.type
           l == HeaderLength(type)
           size == IF n < packetLimit THEN n ELSE l
<1>1. b \in Seq(Byte) /\ n \in Nat /\ n < LengthLimit /\ TypeOf(h) = type /\ type \in TypeNames
  BY WireForm, Zenon
<1>2. LengthFits(v, p, n)
  BY LengthFitsAll, Zenon
<1>3. n # 0 /\ n >= l /\ type \notin {"pingreq", "pingresp"} /\ (type \in {"disconnect", "auth"} => p.reason # 0)
  BY <1>2, Zenon DEF LengthFits
<1>4. l \in {0, 2, 10} /\ (type = "connect" => l = 10) /\ (type = "publish" => l = 0)
      /\ (type \notin {"connect", "publish"} => l = 2)
  BY <1>1, <1>3, HeaderLengthIs, SMT
<1>5. /\ buf' = First(stream, size) /\ stream' = Behind(stream, size) /\ pc' = FirstField
      /\ UNCHANGED <<config, sender, known, mqttConnected, header, rem, left, got, last>>
  BY <1>1, Zenon DEF ProcessHeader
<1>6. FirstField = FirstField /\ TypeOf(header) = type
  BY <1>1
<1> HIDE DEF b, n, h, type, l
<1>7. size \in 0..n
  BY <1>1, <1>3, <1>4
<1>8. size \in {n, l}
  OBVIOUS
<1>9. PICK k \in 0..n : k = size
  BY <1>7
<1>10. Placed(Cursor, b, T)' /\ Len(buf') = k
  <2>1. b \in Seq(Byte) /\ n = Len(b) /\ n < LengthLimit
    BY <1>1 DEF n
  <2>2. buf' = First(stream, k) /\ stream' = Behind(stream, k) /\ UNCHANGED <<rem, left>>
    BY <1>5, <1>9
  <2>3. left = 0 /\ rem = Len(b) /\ stream = b \o T
    BY Zenon DEF Idle, b
  <2> HIDE DEF size
  <2>4. k \in 0..Len(b) /\ Len(b) < LengthLimit
    BY <1>9, <2>1
  <2> QED BY <2>1, <2>2, <2>3, <2>4, BlockPlaced, Zenon
<1>11. left' = 0 /\ got' = Nothing /\ rem' = Len(b) + 0
  <2>1. left' = 0 /\ got' = Nothing
    BY <1>5, Zenon DEF Idle
  <2>2. rem' = n
    BY <1>5 DEF n, b
  <2> QED BY <1>1, <2>1, <2>2 DEF n
<1>12. ASSUME NEW CONSTANT N, l \in {0} \cup N PROVE Begins(v, p, T, N)'
  <2>1. Len(buf') \in {0, Len(b)} \cup N
    BY <1>8, <1>9, <1>10, <1>12 DEF n
  <2> DEFINE g == Nothing
             x == 0
  <2>2. left' = 0 /\ got' = g /\ Placed(Cursor, b, T)' /\ rem' = Len(b) + x
    BY <1>10, <1>11
  <2> HIDE DEF g, x
  <2>3. Spot(g, b, T, x, N)'
    BY ONLY <1>1, <2>1, <2>2, SpotIs
  <2> QED BY <2>3, Zenon DEF Begins, g, x, b
<1>13. Begins(v, p, T, {10})' \/ type # "connect"
  BY <1>4, <1>12
<1>14. Begins(v, p, T, {2})' \/ type \in {"connect", "publish"}
  BY <1>4, <1>12
<1>15. Begins(v, p, T, {})' \/ type # "publish"
  BY <1>4, <1>12
<1>16. type \in {"connect", "connack"} => buf' # <<>>
  <2>1. type \in {"connect", "connack"} => l # 0
    BY <1>4
  <2>2. buf' = <<>> => k = 0
    BY <1>10
  <2> QED BY <1>3, <1>8, <1>9, <2>1, <2>2
<1>17. /\ type \in {"connect", "connack"} => pc' = "flags"
       /\ type = "publish" => pc' = "topic"
       /\ type \in {"disconnect", "auth"} => pc' = "reason"
       /\ type \in Acks \cup {"subscribe", "unsubscribe", "suback", "unsuback"} => pc' = "id"
  BY <1>1, <1>3, <1>5, <1>6, FirstFieldIs, Zenon
<1>18. CASE type = "connect"
  <2>1. MidConnect(v, p, T)'
    BY <1>13, <1>16, <1>17, <1>18, Zenon DEF MidConnect, Begins
  <2> QED BY <1>5, <1>17, <1>18, <2>1, Zenon DEF Mid, type
<1>19. CASE type = "connack"
  <2>1. MidConnack(v, p, T)'
    <3>1. Begins(v, p, T, {2})'
      BY <1>14, <1>19
    <3> QED BY <3>1, <1>16, <1>17, <1>19, Zenon DEF MidConnack, Begins
  <2> QED BY <1>5, <1>17, <1>19, <2>1, Zenon DEF Mid, type
<1>20. CASE type = "publish"
  <2>1. MidPublish(v, p, T)'
    BY <1>15, <1>17, <1>20, Zenon DEF MidPublish, Begins
  <2>2. type \notin {"connect", "connack"}
    BY <1>20
  <2> QED BY <1>5, <1>17, <1>20, <2>1, <2>2, Zenon DEF Mid, type
<1>21. CASE type \in Acks \cup {"subscribe", "unsubscribe", "suback", "unsuback"}
  <2>2. type \notin {"connect", "connack"} /\ Begins(v, p, T, {2})' /\ pc' = "id"
    BY <1>14, <1>17, <1>21, SMT DEF Acks
  <2>1. MidAck(v, p, T)' /\ MidSubscribe(v, p, T)' /\ MidUnsubscribe(v, p, T)' /\ MidSuback(v, p, T)'
    BY <2>2, Zenon DEF MidAck, MidSubscribe, MidUnsubscribe, MidSuback, Begins
  <2> QED BY <1>5, <1>21, <2>1, <2>2, Zenon DEF Mid, type
<1>22. CASE type \in {"disconnect", "auth"}
  <2>2. type \notin {"connect", "connack"} /\ Begins(v, p, T, {2})' /\ pc' = "reason"
    BY <1>14, <1>17, <1>22
  <2>1. MidEnding(v, p, T)'
    BY <1>3, <1>22, <2>2, Zenon DEF MidEnding, Begins
  <2> QED BY <1>5, <1>22, <2>1, <2>2, Zenon DEF Mid, type
<1>23. \/ type = "connect" \/ type = "connack" \/ type = "publish"
       \/ type \in Acks \cup {"subscribe", "unsubscribe", "suback", "unsuback"} \/ type \in {"disconnect", "auth"}
  BY <1>1, <1>3, SMT DEF TypeNames, Acks
<1> QED BY <1>18, <1>19, <1>20, <1>21, <1>22, <1>23, Zenon

-----------------------------------------------------------------------------
\* What is handed over.

\* What is handed over for each type.
Reasonable(type) ==
  IF type \in {"disconnect", "auth"} /\ known = 5 /\ got.reason = <<>> THEN Reasons ELSE {One("reason", 0)}

GivenConnect ==
  [type |-> "connect", clean |-> Flag(2), keepAlive |-> got.keepAlive[1],
   clientId |-> got.clientId[1], will |-> IF Flag(4) THEN <<Will>> ELSE <<>>,
   user |-> got.user, password |-> got.password, props |-> got.props]
GivenConnack ==
  [type |-> "connack", sessionPresent |-> got.sessionPresent[1], reason |-> got.reason[1], props |-> got.props]
GivenPublish ==
  [type |-> "publish", dup |-> FlagsOf(header) >= 8, qos |-> QosOf(header),
   retain |-> header % 2 = 1, topic |-> got.topic[1], id |-> One("id", 0),
   payload |-> got.payload[1], props |-> got.props]
GivenAck(type, r) == [type |-> type, id |-> got.id[1], reason |-> r, props |-> got.props]
GivenSubscribe ==
  [type |-> "subscribe", id |-> got.id[1], filters |-> got.filters, options |-> got.options, props |-> got.props]
GivenUnsubscribe == [type |-> "unsubscribe", id |-> got.id[1], filters |-> got.filters, props |-> got.props]
GivenCodes(type) == [type |-> type, id |-> got.id[1], codes |-> One("codes", <<>>), props |-> got.props]
GivenEnding(type, r) == [type |-> type, reason |-> r, props |-> got.props]

\* What is handed over, type by type.
LEMMA ReceivedOf ==
  ASSUME NEW type, TypeOf(header) = type
  PROVE  /\ type = "connect" => Received = {GivenConnect}
         /\ type = "connack" => Received = {GivenConnack}
         /\ type = "publish" => Received = {GivenPublish}
         /\ type \in Acks => Received = {GivenAck(type, r) : r \in {One("reason", 0)}}
         /\ type = "subscribe" => Received = {GivenSubscribe}
         /\ type = "unsubscribe" => Received = {GivenUnsubscribe}
         /\ type \in {"suback", "unsuback"} => Received = {GivenCodes(type)}
         /\ type \in {"pingreq", "pingresp"} => Received = {[type |-> type, props |-> <<>>]}
         /\ type \in {"disconnect", "auth"} => Received = {GivenEnding(type, r) : r \in Reasonable(type)}
<1>1. type = "connect" => Received = {GivenConnect}
  BY Zenon DEF Received, GivenConnect, Acks
<1>2. type = "connack" => Received = {GivenConnack}
  BY Zenon DEF Received, GivenConnack, Acks
<1>3. type = "publish" => Received = {GivenPublish}
  BY Zenon DEF Received, GivenPublish, Acks
<1>4. type \in Acks => Received = {GivenAck(type, r) : r \in {One("reason", 0)}}
  BY Zenon DEF Received, GivenAck, Acks
<1>5. type = "subscribe" => Received = {GivenSubscribe}
  BY Zenon DEF Received, GivenSubscribe, Acks
<1>6. type = "unsubscribe" => Received = {GivenUnsubscribe}
  BY Zenon DEF Received, GivenUnsubscribe, Acks
<1>7. type \in {"suback", "unsuback"} => Received = {GivenCodes(type)}
  BY Zenon DEF Received, GivenCodes, Acks
<1>8. type \in {"pingreq", "pingresp"} => Received = {[type |-> type, props |-> <<>>]}
  BY Zenon DEF Received, Acks
<1>9. type \in {"disconnect", "auth"} => Received = {GivenEnding(type, r) : r \in Reasonable(type)}
  BY Zenon DEF Received, GivenEnding, Reasonable, Acks
<1> QED BY <1>1, <1>2, <1>3, <1>4, <1>5, <1>6, <1>7, <1>8, <1>9

\* What got holds when the fields in S were read.
Holds(p, S) ==
  /\ got.flags = (IF "flags" \in S THEN <<ConnectFlags(p)>> ELSE <<>>)
  /\ got.keepAlive = (IF "keepAlive" \in S THEN <<p.keepAlive>> ELSE <<>>)
  /\ got.clientId = (IF "clientId" \in S THEN <<p.clientId>> ELSE <<>>)
  /\ got.willProps = (IF "willProps" \in S THEN p.will[1].props ELSE <<>>)
  /\ got.willTopic = (IF "willTopic" \in S THEN <<p.will[1].topic>> ELSE <<>>)
  /\ got.willMessage = (IF "willMessage" \in S THEN <<p.will[1].message>> ELSE <<>>)
  /\ got.user = (IF "user" \in S THEN p.user ELSE <<>>)
  /\ got.password = (IF "password" \in S THEN p.password ELSE <<>>)
  /\ got.props = (IF "props" \in S THEN p.props ELSE <<>>)
  /\ got.sessionPresent = (IF "sessionPresent" \in S THEN <<p.sessionPresent>> ELSE <<>>)
  /\ got.reason = (IF "reason" \in S THEN <<p.reason>> ELSE <<>>)
  /\ got.id = (IF "id" \in S THEN (IF p.id = 0 THEN <<>> ELSE <<p.id>>) ELSE <<>>)
  /\ got.topic = (IF "topic" \in S THEN <<p.topic>> ELSE <<>>)
  /\ got.payload = (IF "payload" \in S THEN <<p.payload>> ELSE <<>>)
  /\ got.filters = (IF "filters" \in S THEN p.filters ELSE <<>>)
  /\ got.options = (IF "options" \in S THEN p.options ELSE <<>>)
  /\ got.codes = (IF "codes" \in S THEN <<p.codes>> ELSE <<>>)

\* The fields that were read.
LEMMA GotIs ==
  ASSUME NEW CONSTANT p, NEW CONSTANT S, got = Filled(p, S)
  PROVE  Holds(p, S)
<1>1. \A f \in Fields : got[f] = IF f \in S THEN Value(p, f) ELSE <<>>
  BY Zenon DEF Filled
<1>2. got.flags = IF "flags" \in S THEN <<ConnectFlags(p)>> ELSE <<>>
  BY <1>1, FieldNames, ValueIs, Zenon
<1>3. got.keepAlive = IF "keepAlive" \in S THEN <<p.keepAlive>> ELSE <<>>
  BY <1>1, FieldNames, ValueIs, Zenon
<1>4. got.clientId = IF "clientId" \in S THEN <<p.clientId>> ELSE <<>>
  BY <1>1, FieldNames, ValueIs, Zenon
<1>5. got.willProps = IF "willProps" \in S THEN p.will[1].props ELSE <<>>
  BY <1>1, FieldNames, ValueIs, Zenon
<1>6. got.willTopic = IF "willTopic" \in S THEN <<p.will[1].topic>> ELSE <<>>
  BY <1>1, FieldNames, ValueIs, Zenon
<1>7. got.willMessage = IF "willMessage" \in S THEN <<p.will[1].message>> ELSE <<>>
  BY <1>1, FieldNames, ValueIs, Zenon
<1>8. got.user = IF "user" \in S THEN p.user ELSE <<>>
  BY <1>1, FieldNames, ValueIs, Zenon
<1>9. got.password = IF "password" \in S THEN p.password ELSE <<>>
  BY <1>1, FieldNames, ValueIs, Zenon
<1>10. got.props = IF "props" \in S THEN p.props ELSE <<>>
  BY <1>1, FieldNames, ValueIs, Zenon
<1>11. got.sessionPresent = IF "sessionPresent" \in S THEN <<p.sessionPresent>> ELSE <<>>
  BY <1>1, FieldNames, ValueIs, Zenon
<1>12. got.reason = IF "reason" \in S THEN <<p.reason>> ELSE <<>>
  BY <1>1, FieldNames, ValueIs, Zenon
<1>13. got.id = IF "id" \in S THEN (IF p.id = 0 THEN <<>> ELSE <<p.id>>) ELSE <<>>
  BY <1>1, FieldNames, ValueIs, Zenon
<1>14. got.topic = IF "topic" \in S THEN <<p.topic>> ELSE <<>>
  BY <1>1, FieldNames, ValueIs, Zenon
<1>15. got.payload = IF "payload" \in S THEN <<p.payload>> ELSE <<>>
  BY <1>1, FieldNames, ValueIs, Zenon
<1>16. got.filters = IF "filters" \in S THEN p.filters ELSE <<>>
  BY <1>1, FieldNames, ValueIs, Zenon
<1>17. got.options = IF "options" \in S THEN p.options ELSE <<>>
  BY <1>1, FieldNames, ValueIs, Zenon
<1>18. got.codes = IF "codes" \in S THEN <<p.codes>> ELSE <<>>
  BY <1>1, FieldNames, ValueIs, Zenon
<1> QED BY <1>2, <1>3, <1>4, <1>5, <1>6, <1>7, <1>8, <1>9, <1>10, <1>11, <1>12, <1>13, <1>14, <1>15, <1>16, <1>17, <1>18, Zenon DEF Holds

\* What may be made of a packet of which the constructor keeps all: the packet; without a reason code on
\* the wire, a reason code of 0, and for DISCONNECT and AUTH any.
LEMMA ReadingsAre ==
  ASSUME NEW v, NEW p, Kept(v, p) = p
  PROVE  /\ ~(p.type \in Acks \cup {"disconnect", "auth"} /\ p.reason = 0) => ReadingsOf(v, p) = {p}
         /\ p.type \in Acks \cup {"disconnect", "auth"} /\ p.reason = 0 =>
              ReadingsOf(v, p) = {[p EXCEPT !.props = <<>>, !.reason = r] :
                                 r \in {0} \cup (IF p.type \in Acks THEN {} ELSE Reasons)}
BY Zenon DEF ReadingsOf

\* CONNACK is handed over as it was sent.
LEMMA GivenConnackIs ==
  ASSUME NEW CONSTANT v \in {4, 5}, NEW CONSTANT p \in Connacks(v), NEW CONSTANT S,
         S = {"sessionPresent", "reason", "props"}, got = Filled(p, S)
  PROVE  GivenConnack = p
<1>1. got.sessionPresent = <<p.sessionPresent>> /\ got.reason = <<p.reason>> /\ got.props = p.props
  <2>1. "sessionPresent" \in S /\ "reason" \in S /\ "props" \in S
    OBVIOUS
  <2>0. Holds(p, S)
    BY GotIs, Zenon
  <2> QED BY <2>0, <2>1, Zenon DEF Holds
<1>2. p.type = "connack" /\ p = [type |-> p.type, sessionPresent |-> p.sessionPresent, reason |-> p.reason, props |-> p.props]
  BY DEF Connacks
<1> QED BY <1>1, <1>2 DEF GivenConnack

\* PUBLISH is handed over as it was sent.
LEMMA GivenPublishIs ==
  ASSUME NEW CONSTANT v \in {4, 5}, NEW CONSTANT p \in Publishes(v), NEW CONSTANT S,
         S = {"topic", "id", "props", "payload"}, got = Filled(p, S), header = HeaderOf(p)
  PROVE  GivenPublish = p
<1>1. got.topic = <<p.topic>> /\ got.payload = <<p.payload>> /\ got.props = p.props
      /\ got.id = IF p.id = 0 THEN <<>> ELSE <<p.id>>
  <2>1. "topic" \in S /\ "id" \in S /\ "props" \in S /\ "payload" \in S
    OBVIOUS
  <2>0. Holds(p, S)
    BY GotIs, Zenon
  <2> QED BY <2>0, <2>1, Zenon DEF Holds
<1>2. /\ p.type = "publish" /\ p.dup \in BOOLEAN /\ p.retain \in BOOLEAN
      /\ p = [type |-> p.type, dup |-> p.dup, qos |-> p.qos, retain |-> p.retain, topic |-> p.topic,
              id |-> p.id, payload |-> p.payload, props |-> p.props]
  BY DEF Publishes
<1>3. QosOf(header) = p.qos /\ (FlagsOf(header) >= 8 <=> p.dup) /\ (header % 2 = 1 <=> p.retain)
  BY PublishHeader, Zenon
<1>4. One("id", 0) = p.id
  <2>1. <<p.id>>[1] = p.id /\ <<p.id>> # <<>>
    OBVIOUS
  <2> QED BY <1>1, <2>1, Zenon DEF One
<1>5. (FlagsOf(header) >= 8) = p.dup /\ (header % 2 = 1) = p.retain
  BY <1>2, <1>3
<1>6. got.topic[1] = p.topic /\ got.payload[1] = p.payload
  BY <1>1
<1> QED BY <1>1, <1>2, <1>3, <1>4, <1>5, <1>6, Zenon DEF GivenPublish

\* SUBSCRIBE, UNSUBSCRIBE, SUBACK and UNSUBACK are handed over as they were sent.
LEMMA GivenListIs ==
  ASSUME NEW CONSTANT v \in {4, 5}, NEW CONSTANT p, NEW CONSTANT S,
         {"id", "props"} \subseteq S, got = Filled(p, S), p.id # 0
  PROVE  /\ p \in Subscribes(v) /\ {"filters", "options"} \subseteq S => GivenSubscribe = p
         /\ p \in Unsubscribes(v) /\ "filters" \in S => GivenUnsubscribe = p
         /\ p \in Subacks(v) \cup Unsubacks(v) /\ ("codes" \in S \/ p.codes = <<>>) => GivenCodes(p.type) = p
<1>0. Holds(p, S)
  BY GotIs, Zenon
<1>1. got.id = <<p.id>> /\ got.props = p.props /\ got.id[1] = p.id
  <2>1. "id" \in S /\ "props" \in S
    OBVIOUS
  <2>2. got.id = <<p.id>> /\ got.props = p.props
    BY <1>0, <2>1, Zenon DEF Holds
  <2> QED BY <2>2
<1>2. ASSUME p \in Subscribes(v), {"filters", "options"} \subseteq S PROVE GivenSubscribe = p
  <2>1. "filters" \in S /\ "options" \in S
    BY <1>2
  <2>2. got.filters = p.filters /\ got.options = p.options
    BY <1>0, <2>1, Zenon DEF Holds
  <2>3. p = [type |-> "subscribe", id |-> p.id, filters |-> p.filters, options |-> p.options, props |-> p.props]
    BY <1>2 DEF Subscribes
  <2> QED BY <1>1, <2>2, <2>3 DEF GivenSubscribe
<1>3. ASSUME p \in Unsubscribes(v), "filters" \in S PROVE GivenUnsubscribe = p
  <2>2. got.filters = p.filters
    BY <1>0, <1>3, Zenon DEF Holds
  <2>3. p = [type |-> "unsubscribe", id |-> p.id, filters |-> p.filters, props |-> p.props]
    BY <1>3 DEF Unsubscribes
  <2> QED BY <1>1, <2>2, <2>3 DEF GivenUnsubscribe
<1>4. ASSUME p \in Subacks(v) \cup Unsubacks(v), "codes" \in S \/ p.codes = <<>> PROVE GivenCodes(p.type) = p
  <2>2. got.codes = <<p.codes>> \/ (got.codes = <<>> /\ p.codes = <<>>)
    BY <1>0, <1>4, Zenon DEF Holds
  <2>3. p = [type |-> p.type, id |-> p.id, codes |-> p.codes, props |-> p.props]
    BY <1>4, SMT DEF Subacks, Unsubacks
  <2>4. One("codes", <<>>) = p.codes
    <3>1. <<p.codes>>[1] = p.codes /\ <<p.codes>> # <<>>
      OBVIOUS
    <3>2. CASE got.codes = <<p.codes>>
      BY <3>1, <3>2 DEF One
    <3>3. CASE got.codes = <<>> /\ p.codes = <<>>
      BY <3>3 DEF One
    <3> QED BY <2>2, <3>2, <3>3
  <2> QED BY <1>1, <2>3, <2>4, Zenon DEF GivenCodes
<1> QED BY <1>2, <1>3, <1>4

\* The will is the one that was sent.
LEMMA GivenWillIs ==
  ASSUME NEW CONSTANT v \in {4, 5}, NEW CONSTANT p \in Connects(v), NEW CONSTANT S,
         {"flags", "willProps", "willTopic", "willMessage"} \subseteq S, got = Filled(p, S), p.will # <<>>
  PROVE  Will = p.will[1]
<1> DEFINE w == p.will[1]
<1>0. Holds(p, S)
  BY GotIs, Zenon
<1>1. "flags" \in S /\ "willProps" \in S /\ "willTopic" \in S /\ "willMessage" \in S
  OBVIOUS
<1>2. got.flags = <<ConnectFlags(p)>> /\ got.willProps = w.props /\ got.willTopic = <<w.topic>>
      /\ got.willMessage = <<w.message>>
  BY <1>0, <1>1, Zenon DEF Holds
<1>3. w \in Wills(v)
  BY ConnectIs, Zenon
<1>4. w = [topic |-> w.topic, message |-> w.message, qos |-> w.qos, retain |-> w.retain, props |-> w.props]
      /\ w.retain \in BOOLEAN
  <2> HIDE DEF w
  <2> QED BY <1>3 DEF Wills
<1>5. (ConnectFlags(p) \div 8) % 4 = w.qos /\ ((ConnectFlags(p) \div 32) % 2 = 1 <=> w.retain)
  BY FlagsAre, Zenon
<1> HIDE DEF w
<1>6. got.flags[1] = ConnectFlags(p) /\ got.willTopic[1] = w.topic /\ got.willMessage[1] = w.message
      /\ got.willTopic # <<>> /\ got.willMessage # <<>>
  BY <1>2
<1>7. One("willTopic", <<>>) = w.topic /\ One("willMessage", <<>>) = w.message
  BY <1>6, Zenon DEF One
<1>8. (got.flags[1] \div 8) % 4 = w.qos
  BY <1>5, <1>6
<1>9. Flag(32) = w.retain
  <2>1. Flag(32) <=> w.retain
    BY <1>5, <1>6 DEF Flag
  <2> QED BY <1>4, <2>1, Zenon DEF Flag
<1> QED BY <1>2, <1>4, <1>7, <1>8, <1>9, Zenon DEF Will, w

\* CONNECT is handed over as it was sent.
LEMMA GivenConnectIs ==
  ASSUME NEW CONSTANT v \in {4, 5}, NEW CONSTANT p \in Connects(v), NEW CONSTANT S,
         S = Opening \cup WillFields(p) \cup {"user", "password"}, got = Filled(p, S)
  PROVE  GivenConnect = p
<1>1. {"flags", "keepAlive", "props", "clientId", "user", "password"} \subseteq S
      /\ (p.will # <<>> => {"flags", "willProps", "willTopic", "willMessage"} \subseteq S)
  BY DEF Opening, WillFields
<1>2. "keepAlive" \in S /\ "props" \in S /\ "clientId" \in S /\ "user" \in S /\ "password" \in S /\ "flags" \in S
  BY <1>1
<1>0. Holds(p, S)
  BY GotIs, Zenon
<1>3. got.keepAlive = <<p.keepAlive>> /\ got.props = p.props /\ got.clientId = <<p.clientId>>
      /\ got.user = p.user /\ got.password = p.password
  BY <1>0, <1>2, Zenon DEF Holds
<1>4. got.keepAlive[1] = p.keepAlive /\ got.clientId[1] = p.clientId
  BY <1>3
<1>5. p = [type |-> "connect", clean |-> p.clean, keepAlive |-> p.keepAlive, clientId |-> p.clientId,
           will |-> p.will, user |-> p.user, password |-> p.password, props |-> p.props]
      /\ p.clean \in BOOLEAN
  BY DEF Connects
<1>6. (Flag(4) <=> p.will # <<>>) /\ (Flag(2) <=> p.clean)
  BY <1>2, FlagsRead, Zenon
<1>7. Flag(2) = p.clean
  BY <1>5, <1>6, Zenon DEF Flag
<1>8. (IF Flag(4) THEN <<Will>> ELSE <<>>) = p.will
  <2>1. CASE p.will = <<>>
    BY <1>6, <2>1, Zenon
  <2>2. CASE p.will # <<>>
    <3>1. Will = p.will[1]
      BY <1>1, <2>2, GivenWillIs
    <3>2. p.will = <<p.will[1]>>
      BY <2>2, ConnectIs
    <3> QED BY <1>6, <2>2, <3>1, <3>2, Zenon
  <2> QED BY <2>1, <2>2
<1> QED BY <1>3, <1>4, <1>5, <1>7, <1>8, Zenon DEF GivenConnect

\* A packet without reason code on the wire.
Bare(p, s) == [p EXCEPT !.props = <<>>, !.reason = s]

\* It is an acknowledgement.
LEMMA AckExcept ==
  ASSUME NEW t, NEW i, NEW r, NEW q, NEW s, NEW p, p = [type |-> t, id |-> i, reason |-> r, props |-> q]
  PROVE  Bare(p, s) = [type |-> t, id |-> i, reason |-> s, props |-> <<>>]
<1> DEFINE z == <<>>
           a == [p EXCEPT !.props = z]
<1> HIDE DEF z
<1>1. a = [type |-> t, id |-> i, reason |-> r, props |-> z]
  OBVIOUS
<1> HIDE DEF a
<1>2. [a EXCEPT !.reason = s] = [type |-> t, id |-> i, reason |-> s, props |-> z]
  BY <1>1
<1> QED BY ONLY <1>2 DEF a, z, Bare

\* It is a DISCONNECT or AUTH.
LEMMA EndingExcept ==
  ASSUME NEW t, NEW r, NEW q, NEW s, NEW p, p = [type |-> t, reason |-> r, props |-> q]
  PROVE  Bare(p, s) = [type |-> t, reason |-> s, props |-> <<>>]
<1> DEFINE z == <<>>
           a == [p EXCEPT !.props = z]
<1> HIDE DEF z
<1>1. a = [type |-> t, reason |-> r, props |-> z]
  OBVIOUS
<1> HIDE DEF a
<1>2. [a EXCEPT !.reason = s] = [type |-> t, reason |-> s, props |-> z]
  BY <1>1
<1> QED BY ONLY <1>2 DEF a, z, Bare

\* An acknowledgement is handed over as one of its readings.
LEMMA GivenAckIs ==
  ASSUME NEW CONSTANT v \in {4, 5}, NEW CONSTANT p \in Acknowledgements(v), NEW CONSTANT S,
         S = IF p.reason = 0 THEN {"id"} ELSE {"id", "reason", "props"}, got = Filled(p, S), p.id # 0
  PROVE  GivenAck(p.type, One("reason", 0)) \in ReadingsOf(v, p)
<1>0. Holds(p, S)
  BY GotIs, Zenon
<1>1. p = [type |-> p.type, id |-> p.id, reason |-> p.reason, props |-> p.props] /\ p.type \in Acks
      /\ p.type \in Acks \cup {"disconnect", "auth"}
  BY DEF Acknowledgements, Acks
<1>4. Kept(v, p) = p
  <2>1. p.type # "subscribe"
    BY <1>1 DEF Acks
  <2> QED BY <2>1, KeptOthers, Zenon
<1>2. CASE p.reason = 0
  <2>1. "id" \in S /\ "reason" \notin S /\ "props" \notin S
    BY <1>2
  <2>2. got.id = <<p.id>> /\ got.reason = <<>> /\ got.props = <<>>
    BY <1>0, <2>1, Zenon DEF Holds
  <2>3. GivenAck(p.type, One("reason", 0)) = [type |-> p.type, id |-> p.id, reason |-> 0, props |-> <<>>]
    BY <2>2 DEF GivenAck, One
  <2>4. Bare(p, 0) = [type |-> p.type, id |-> p.id, reason |-> 0, props |-> <<>>]
    BY ONLY <1>1, AckExcept
  <2>5. ReadingsOf(v, p) = {Bare(p, r) : r \in {0} \cup (IF p.type \in Acks THEN {} ELSE Reasons)}
    <3>1. p.type \in Acks \cup {"disconnect", "auth"}
      BY <1>1
    <3> QED BY ONLY <1>2, <3>1, Zenon DEF ReadingsOf, Bare
  <2> QED BY <2>3, <2>4, <2>5
<1>3. CASE p.reason # 0
  <2>1. "id" \in S /\ "reason" \in S /\ "props" \in S
    BY <1>3
  <2>2. got.id = <<p.id>> /\ got.reason = <<p.reason>> /\ got.props = p.props
    BY <1>0, <2>1, Zenon DEF Holds
  <2>3. GivenAck(p.type, One("reason", 0)) = [type |-> p.type, id |-> p.id, reason |-> p.reason, props |-> p.props]
    BY <2>2 DEF GivenAck, One
  <2>4. ReadingsOf(v, p) = {p}
    BY <1>3, <1>4, ReadingsAre, Zenon
  <2> QED BY <1>1, <2>3, <2>4
<1> QED BY <1>2, <1>3

\* DISCONNECT and AUTH are handed over as one of their readings.
LEMMA GivenEndingIs ==
  ASSUME NEW CONSTANT v \in {4, 5}, NEW CONSTANT p \in Endings(v), NEW CONSTANT S,
         S = IF p.reason = 0 THEN {} ELSE {"reason", "props"}, got = Filled(p, S),
         p.type \in {"disconnect", "auth"}, NEW r \in Reasonable(p.type)
  PROVE  GivenEnding(p.type, r) \in ReadingsOf(v, p)
<1>0. Holds(p, S)
  BY GotIs, Zenon
<1>1. p = [type |-> p.type, reason |-> p.reason, props |-> p.props] /\ p.type \notin Acks
      /\ p.type \in Acks \cup {"disconnect", "auth"}
  BY DEF Endings, Acks
<1>4. Kept(v, p) = p
  <2>1. p.type # "subscribe"
    OBVIOUS
  <2> QED BY <2>1, KeptOthers, Zenon
<1>2. CASE p.reason = 0
  <2>1. "reason" \notin S /\ "props" \notin S
    BY <1>2
  <2>2. got.reason = <<>> /\ got.props = <<>>
    BY <1>0, <2>1, Zenon DEF Holds
  <2>3. r \in {0} \cup Reasons
    BY <2>2 DEF Reasonable, One
  <2>4. GivenEnding(p.type, r) = Bare(p, r)
    <3>1. GivenEnding(p.type, r) = [type |-> p.type, reason |-> r, props |-> <<>>]
      BY <2>2, Zenon DEF GivenEnding
    <3>2. Bare(p, r) = [type |-> p.type, reason |-> r, props |-> <<>>]
      BY ONLY <1>1, EndingExcept
    <3> QED BY <3>1, <3>2
  <2>5. ReadingsOf(v, p) = {Bare(p, q) : q \in {0} \cup (IF p.type \in Acks THEN {} ELSE Reasons)}
    <3>1. p.type \in Acks \cup {"disconnect", "auth"}
      BY <1>1
    <3> QED BY ONLY <1>2, <3>1, Zenon DEF ReadingsOf, Bare
  <2>6. r \in {0} \cup (IF p.type \in Acks THEN {} ELSE Reasons)
    BY <1>1, <2>3
  <2> QED BY ONLY <2>4, <2>5, <2>6
<1>3. CASE p.reason # 0
  <2>1. "reason" \in S /\ "props" \in S
    BY <1>3
  <2>2. got.reason = <<p.reason>> /\ got.props = p.props
    BY <1>0, <2>1, Zenon DEF Holds
  <2>3. r = p.reason
    <3>1. got.reason # <<>> /\ got.reason[1] = p.reason
      BY <2>2
    <3>2. Reasonable(p.type) = {One("reason", 0)} /\ One("reason", 0) = p.reason
      BY <3>1, Zenon DEF Reasonable, One
    <3> QED BY <3>2
  <2>4. GivenEnding(p.type, r) = p
    BY <1>1, <2>2, <2>3 DEF GivenEnding
  <2>5. ReadingsOf(v, p) = {p}
    BY <1>3, <1>4, ReadingsAre, Zenon
  <2> QED BY <2>4, <2>5
<1> QED BY <1>2, <1>3

\* Every packet is handed over as one of its readings.
LEMMA HandedOver ==
  ASSUME NEW CONSTANT v \in {4, 5}, NEW CONSTANT p \in Packets(v), Kept(v, p) = p, header = HeaderOf(p),
         got = Filled(p, AllFields(v, p)), NEW r \in Received
  PROVE  r \in ReadingsOf(v, p)
<1> DEFINE S == AllFields(v, p)
           type == p.type
<1>1. TypeOf(header) = type /\ type \in TypeNames
  BY WireForm, Zenon
<1>2. type \notin Acks \cup {"disconnect", "auth"} => ReadingsOf(v, p) = {p}
  BY ReadingsAre, Zenon
<1>3. CASE type = "connect"
  <2>1. p \in Connects(v) /\ S = Opening \cup WillFields(p) \cup {"user", "password"}
    BY <1>3, PacketSorts, AllFieldsAre, Zenon
  <2> HIDE DEF S
  <2>2. got = Filled(p, S)
    BY DEF S
  <2>3. GivenConnect = p
    BY ONLY <2>1, <2>2, v \in {4, 5}, GivenConnectIs
  <2>4. Received = {GivenConnect}
    BY <1>1, <1>3, ReceivedOf, Zenon
  <2>5. type \notin Acks \cup {"disconnect", "auth"}
    BY <1>3 DEF Acks
  <2> QED BY <1>2, <2>3, <2>4, <2>5
<1>4. CASE type = "connack"
  <2>1. p \in Connacks(v) /\ S = {"sessionPresent", "reason", "props"}
    BY <1>4, PacketSorts, AllFieldsAre, Zenon
  <2> HIDE DEF S
  <2>2. got = Filled(p, S)
    BY DEF S
  <2>3. GivenConnack = p
    BY ONLY <2>1, <2>2, v \in {4, 5}, GivenConnackIs
  <2>4. Received = {GivenConnack}
    BY <1>1, <1>4, ReceivedOf, Zenon
  <2>5. type \notin Acks \cup {"disconnect", "auth"}
    BY <1>4 DEF Acks
  <2> QED BY <1>2, <2>3, <2>4, <2>5
<1>5. CASE type = "publish"
  <2>1. p \in Publishes(v) /\ S = {"topic", "id", "props", "payload"}
    BY <1>5, PacketSorts, AllFieldsAre, Zenon
  <2> HIDE DEF S
  <2>2. got = Filled(p, S)
    BY DEF S
  <2>3. GivenPublish = p
    BY ONLY <2>1, <2>2, v \in {4, 5}, header = HeaderOf(p), GivenPublishIs
  <2>4. Received = {GivenPublish}
    BY <1>1, <1>5, ReceivedOf, Zenon
  <2>5. type \notin Acks \cup {"disconnect", "auth"}
    BY <1>5 DEF Acks
  <2> QED BY <1>2, <2>3, <2>4, <2>5
<1>6. CASE type \in Acks
  <2>1. p \in Acknowledgements(v) /\ S = IF p.reason = 0 THEN {"id"} ELSE {"id", "reason", "props"}
    BY <1>6, PacketSorts, AllFieldsAre, Zenon
  <2>2. p.id # 0
    BY <2>1, IdsAreTwoBytes DEF Acknowledgements
  <2> HIDE DEF S
  <2>3. got = Filled(p, S)
    BY DEF S
  <2>4. GivenAck(p.type, One("reason", 0)) \in ReadingsOf(v, p)
    BY ONLY <2>1, <2>2, <2>3, v \in {4, 5}, GivenAckIs
  <2>5. Received = {GivenAck(type, q) : q \in {One("reason", 0)}}
    BY <1>1, <1>6, ReceivedOf, Zenon
  <2> QED BY <2>4, <2>5
<1>7. CASE type \in {"subscribe", "unsubscribe", "suback", "unsuback"}
  <2>1. /\ type = "subscribe" => p \in Subscribes(v) /\ S = {"id", "props", "filters", "options"}
        /\ type = "unsubscribe" => p \in Unsubscribes(v) /\ S = {"id", "props", "filters"}
        /\ type = "suback" => p \in Subacks(v) /\ S = {"id", "props", "codes"}
        /\ type = "unsuback" => p \in Unsubacks(v) /\ S = IF v = 5 THEN {"id", "props", "codes"} ELSE {"id", "props"}
    BY PacketSorts, AllFieldsAre, Zenon
  <2>2. p.id # 0
    BY <1>7, <2>1, IdsAreTwoBytes DEF Subscribes, Unsubscribes, Subacks, Unsubacks
  <2> HIDE DEF S
  <2>3. got = Filled(p, S)
    BY DEF S
  <2>4. {"id", "props"} \subseteq S
    BY <1>7, <2>1
  <2>5. type \notin Acks \cup {"disconnect", "auth"}
    BY <1>7 DEF Acks
  <2>6. /\ p \in Subscribes(v) /\ {"filters", "options"} \subseteq S => GivenSubscribe = p
        /\ p \in Unsubscribes(v) /\ "filters" \in S => GivenUnsubscribe = p
        /\ p \in Subacks(v) \cup Unsubacks(v) /\ ("codes" \in S \/ p.codes = <<>>) => GivenCodes(p.type) = p
    BY ONLY <2>2, <2>3, <2>4, v \in {4, 5}, GivenListIs
  <2>7. CASE type = "subscribe"
    <3>1. GivenSubscribe = p
      BY <2>1, <2>6, <2>7
    <3>2. Received = {GivenSubscribe}
      BY <1>1, <2>7, ReceivedOf, Zenon
    <3> QED BY <1>2, <2>5, <3>1, <3>2
  <2>8. CASE type = "unsubscribe"
    <3>1. GivenUnsubscribe = p
      BY <2>1, <2>6, <2>8
    <3>2. Received = {GivenUnsubscribe}
      BY <1>1, <2>8, ReceivedOf, Zenon
    <3> QED BY <1>2, <2>5, <3>1, <3>2
  <2>9. CASE type \in {"suback", "unsuback"}
    <3>0. type = "unsuback" /\ v = 4 => p.codes = <<>>
      BY <2>1, UnsubackFramed
    <3>3. p \in Subacks(v) \cup Unsubacks(v) /\ ("codes" \in S \/ p.codes = <<>>)
      BY <2>1, <2>9, <3>0
    <3>1. GivenCodes(type) = p
      BY <2>6, <3>3
    <3>2. Received = {GivenCodes(type)}
      BY <1>1, <2>9, ReceivedOf, Zenon
    <3> QED BY <1>2, <2>5, <3>1, <3>2
  <2> QED BY <1>7, <2>7, <2>8, <2>9
<1>8. CASE type \in {"pingreq", "pingresp"}
  <2>1. p \in Pings
    BY <1>8, PacketSorts, Zenon
  <2>2. p = [type |-> type, props |-> <<>>]
    BY <2>1 DEF Pings
  <2>3. Received = {[type |-> type, props |-> <<>>]}
    BY <1>1, <1>8, ReceivedOf, Zenon
  <2>5. type \notin Acks \cup {"disconnect", "auth"}
    BY <1>8 DEF Acks
  <2> QED BY <1>2, <2>2, <2>3, <2>5
<1>9. CASE type \in {"disconnect", "auth"}
  <2>1. p \in Endings(v) /\ S = IF p.reason = 0 THEN {} ELSE {"reason", "props"}
    BY <1>9, PacketSorts, AllFieldsAre, Zenon
  <2> HIDE DEF S
  <2>3. got = Filled(p, S)
    BY DEF S
  <2>4. \A q \in Reasonable(p.type) : GivenEnding(p.type, q) \in ReadingsOf(v, p)
    BY ONLY <1>9, <2>1, <2>3, v \in {4, 5}, GivenEndingIs
  <2>5. Received = {GivenEnding(type, q) : q \in Reasonable(type)}
    BY <1>1, <1>9, ReceivedOf, Zenon
  <2> QED BY <2>4, <2>5
<1> QED BY <1>1, <1>3, <1>4, <1>5, <1>6, <1>7, <1>8, <1>9, SMT DEF TypeNames, Acks

-----------------------------------------------------------------------------
\* What the sender puts behind.

\* The sender puts e on the wire.
Grows(e) == stream' = stream \o e /\ UNCHANGED <<pc, rem, left, buf, got>>

\* What is left of the packet is the same when more is put behind it.
LEMMA PlacedGrows ==
  ASSUME NEW CONSTANT R \in Seq(Byte), NEW CONSTANT T \in Seq(Byte), NEW CONSTANT e \in Seq(Byte),
         NEW CONSTANT U, U = T \o e, Placed(Cursor, R, T), Grows(e)
  PROVE  Placed(Cursor, R, U)'
<1>1. /\ stream \in Seq(Byte) /\ buf \in Seq(Byte) /\ rem \in Nat /\ left \in Nat
      /\ buf \o stream = R \o T /\ Len(buf) <= Len(R) /\ Len(R) <= rem /\ Len(R) < LengthLimit
  BY CursorIs, Zenon DEF Placed
<1>2. stream' = stream \o e /\ buf' = buf /\ rem' = rem /\ left' = left
  BY Zenon DEF Grows
<1>3. PICK s, b : s = stream /\ b = buf
  OBVIOUS
<1>4. b \o s = R \o T /\ s \in Seq(Byte) /\ b \in Seq(Byte) /\ stream' = s \o e /\ buf' = b
  BY <1>1, <1>2, <1>3
<1>40. b \in Seq(Byte) /\ s \in Seq(Byte) /\ e \in Seq(Byte)
  BY <1>4
<1>5. (b \o s) \o e = b \o (s \o e)
  BY ONLY <1>40, AssociateBytes, SMTT(30)
<1>6. (R \o T) \o e = R \o (T \o e)
  BY ONLY R \in Seq(Byte), T \in Seq(Byte), e \in Seq(Byte), AssociateBytes, SMTT(30)
<1>7. b \o (s \o e) = R \o U /\ s \o e \in Seq(Byte)
  <2>1. s \o e \in Seq(Byte)
    BY <1>4, OfJoined
  <2> QED BY <1>4, <1>5, <1>6, <2>1
<1>8. Cursor' = [stream |-> stream', buf |-> buf', rem |-> rem', left |-> left']
  BY Zenon DEF Cursor
<1>9. /\ stream' \in Seq(Byte) /\ buf' \in Seq(Byte) /\ rem' \in Nat /\ left' \in Nat
      /\ buf' \o stream' = R \o U
      /\ Len(buf') <= Len(R) /\ Len(R) <= rem' /\ Len(R) < LengthLimit
  <2>1. buf' \o stream' = R \o U
    BY <1>4, <1>7
  <2>2. stream' \in Seq(Byte) /\ buf' \in Seq(Byte)
    BY <1>4, <1>7
  <2>3. rem' \in Nat /\ left' \in Nat /\ Len(buf') <= Len(R) /\ Len(R) <= rem' /\ Len(R) < LengthLimit
    BY <1>1, <1>2
  <2> QED BY <2>1, <2>2, <2>3
<1> QED BY ONLY <1>8, <1>9 DEF Placed

\* The reader stays where it is, at a field,
LEMMA SpotGrows ==
  ASSUME NEW CONSTANT g, NEW CONSTANT R, NEW CONSTANT T \in Seq(Byte), NEW CONSTANT x, NEW CONSTANT N,
         NEW CONSTANT e \in Seq(Byte), NEW CONSTANT U, U = T \o e, Spot(g, R, T, x, N), Grows(e)
  PROVE  Spot(g, R, U, x, N)'
<1>1. /\ left = 0 /\ got = g /\ R \in Seq(Byte) /\ Placed(Cursor, R, T) /\ rem = Len(R) + x
      /\ Len(buf) \in {0, Len(R)} \cup N
  BY Zenon DEF Spot
<1>2. left' = 0 /\ got' = g /\ rem' = Len(R) + x /\ Len(buf') \in {0, Len(R)} \cup N
  BY <1>1 DEF Grows
<1>3. Placed(Cursor, R, U)'
  BY <1>1, PlacedGrows
<1> QED BY <1>1, <1>2, <1>3, Zenon DEF Spot

\* between two properties,
LEMMA BetweenGrows ==
  ASSUME NEW CONSTANT f, NEW CONSTANT p, NEW CONSTANT S, NEW CONSTANT j, NEW CONSTANT A,
         NEW CONSTANT T \in Seq(Byte), NEW CONSTANT x,
         NEW CONSTANT e \in Seq(Byte), NEW CONSTANT U, U = T \o e, Between(f, p, S, j, A, T, x), Grows(e)
  PROVE  Between(f, p, S, j, A, U, x)'
<1> DEFINE Q == RestOf(Pieces(Value(p, f)), j)
           R == Q \o A
<1>1. /\ left = Len(Q) /\ left # 0 /\ got = Partly(p, S, f, j)
      /\ R \in Seq(Byte) /\ Placed(Cursor, R, T) /\ rem = Len(R) + x
      /\ Len(buf) \in {0, 1, Len(Q), Len(R)}
  BY Zenon DEF Between
<1> HIDE DEF Q, R
<1>2. left' = Len(Q) /\ left' # 0 /\ got' = Partly(p, S, f, j) /\ rem' = Len(R) + x
      /\ Len(buf') \in {0, 1, Len(Q), Len(R)}
  BY <1>1 DEF Grows
<1>3. Placed(Cursor, R, U)'
  BY <1>1, PlacedGrows
<1> QED BY <1>1, <1>2, <1>3, Zenon DEF Between, Q, R

\* at properties,
LEMMA PropsGrow ==
  ASSUME NEW CONSTANT f, NEW CONSTANT p, NEW CONSTANT S, NEW CONSTANT A,
         NEW CONSTANT T \in Seq(Byte), NEW CONSTANT x, NEW CONSTANT N,
         NEW CONSTANT e \in Seq(Byte), NEW CONSTANT U, U = T \o e, AtProps(f, p, S, A, T, x, N), Grows(e)
  PROVE  AtProps(f, p, S, A, U, x, N)'
<1>1. pc' = f
  BY DEF Grows, AtProps
<1>2. \A j : Between(f, p, S, j, A, T, x) => Between(f, p, S, j, A, U, x)'
  BY BetweenGrows
<1>3. \A g, R : Spot(g, R, T, x, N) => Spot(g, R, U, x, N)'
  BY SpotGrows
<1> QED BY <1>1, <1>2, <1>3, Zenon DEF AtProps

\* and in every stage of a packet.
LEMMA MidGrows ==
  ASSUME NEW CONSTANT v, NEW CONSTANT p, NEW CONSTANT T \in Seq(Byte), NEW CONSTANT e \in Seq(Byte),
         NEW CONSTANT U, U = T \o e, Grows(e)
  PROVE  (Mid(v, p, T) => Mid(v, p, U)') /\ (Done(v, p, T) => Done(v, p, U)')
<1>1. \A g, R, x, N : Spot(g, R, T, x, N) => Spot(g, R, U, x, N)'
  BY SpotGrows
<1>2. \A f, S, A, x, N : AtProps(f, p, S, A, T, x, N) => AtProps(f, p, S, A, U, x, N)'
  BY PropsGrow
<1>3. pc' = pc /\ (buf # <<>> => buf' # <<>>)
  BY DEF Grows
<1>4. MidConnect(v, p, T) => MidConnect(v, p, U)'
  BY <1>1, <1>2, <1>3, Zenon DEF MidConnect
<1>5. MidConnack(v, p, T) => MidConnack(v, p, U)'
  BY <1>1, <1>2, <1>3, Zenon DEF MidConnack
<1>6. MidPublish(v, p, T) => MidPublish(v, p, U)'
  BY <1>1, <1>2, <1>3, Zenon DEF MidPublish
<1>7. MidAck(v, p, T) => MidAck(v, p, U)'
  BY <1>1, <1>2, <1>3, Zenon DEF MidAck
<1>8. MidSubscribe(v, p, T) => MidSubscribe(v, p, U)'
  BY <1>1, <1>2, <1>3, Zenon DEF MidSubscribe
<1>9. MidUnsubscribe(v, p, T) => MidUnsubscribe(v, p, U)'
  BY <1>1, <1>2, <1>3, Zenon DEF MidUnsubscribe
<1>10. MidSuback(v, p, T) => MidSuback(v, p, U)'
  BY <1>1, <1>2, <1>3, Zenon DEF MidSuback
<1>11. MidEnding(v, p, T) => MidEnding(v, p, U)'
  BY <1>1, <1>2, <1>3, Zenon DEF MidEnding
<1>12. Done(v, p, T) => Done(v, p, U)'
  BY <1>1, <1>3, Zenon DEF Done
<1>13. Mid(v, p, T) => Mid(v, p, U)'
  BY <1>4, <1>5, <1>6, <1>7, <1>8, <1>9, <1>10, <1>11, Zenon DEF Mid
<1> QED BY <1>12, <1>13

-----------------------------------------------------------------------------
\* The end of a packet.

\* At the end of a packet the block is used up and the wire holds the others.
LEMMA DoneEnds ==
  ASSUME NEW CONSTANT v, NEW CONSTANT p, NEW CONSTANT T \in Seq(Byte), Done(v, p, T)
  PROVE  /\ pc = "done" /\ buf = <<>> /\ stream = T /\ left = 0 /\ rem = Uncounted(p)
         /\ got = Filled(p, AllFields(v, p))
<1> DEFINE E == <<>>
<1>1. E \in Seq(Byte) /\ Len(E) = 0
  OBVIOUS
<1>0. E = <<>>
  OBVIOUS
<1> HIDE DEF E
<1>2. /\ pc = "done" /\ left = 0 /\ got = Filled(p, AllFields(v, p)) /\ Placed(Cursor, E, T)
      /\ rem = Len(E) + Uncounted(p)
  BY Zenon DEF Done, Spot, E
<1>3. PICK c : c = Cursor
  OBVIOUS
<1>4. c.buf = buf /\ c.stream = stream
  BY <1>3, CursorIs, Zenon
<1>5. c.stream \in Seq(Byte) /\ c.buf \in Seq(Byte) /\ c.buf \o c.stream = E \o T /\ Len(c.buf) <= Len(E)
  BY <1>2, <1>3, Zenon DEF Placed
<1>6. c.buf = <<>>
  BY <1>1, <1>5
<1>7. c.stream = T
  <2>1. \A x \in Seq(Byte) : <<>> \o x = x
    BY WiredEmpty, Zenon
  <2>2. <<>> \o c.stream = c.stream /\ <<>> \o T = T
    BY <1>5, <2>1
  <2> QED BY <1>0, <1>5, <1>6, <2>2, Zenon
<1>8. rem = Uncounted(p)
  BY <1>1, <1>2 DEF Uncounted
<1> QED BY <1>2, <1>4, <1>6, <1>7, <1>8

\* The packet is handed over, and the next can begin.
LEMMA HandOverStep ==
  ASSUME NEW CONSTANT v \in {4, 5}, NEW CONSTANT s \in Seq(Packets(v)), s # <<>>, inFlight = s,
         header = HeaderOf(Kept(v, s[1])), Done(v, Kept(v, s[1]), WireOf(v, Tail(s))), HandOver
  PROVE  /\ Idle' /\ stream' = WireOf(v, Tail(s)) /\ inFlight' = Tail(s) /\ Tail(s) \in Seq(Packets(v))
         /\ last' \in ReadingsOf(v, s[1]) /\ known' = known /\ UNCHANGED <<config, begun, ended>>
         /\ pc' = (IF s[1].type = "disconnect" THEN "closed" ELSE "header")
         /\ mqttConnected' = (mqttConnected \/ s[1].type \in {"connect", "connack"})
<1> DEFINE p == Kept(v, s[1])
           T == WireOf(v, Tail(s))
<1>1. /\ p \in Packets(v) /\ T \in Seq(Byte) /\ Tail(s) \in Seq(Packets(v)) /\ Kept(v, p) = p
      /\ p.type = s[1].type /\ ReadingsOf(v, p) = ReadingsOf(v, s[1])
  <2>1. s[1] \in Packets(v) /\ T \in Seq(Byte) /\ Tail(s) \in Seq(Packets(v))
    BY WireMore, Zenon
  <2> QED BY <2>1, KeptIs, Zenon
<1> HIDE DEF p, T
<1>2. header = HeaderOf(p) /\ Done(v, p, T)
  BY DEF p, T
<1>3. stream = T /\ got = Filled(p, AllFields(v, p))
  BY ONLY <1>1, <1>2, DoneEnds
<1>4. \A r \in Received : r \in ReadingsOf(v, p)
  BY ONLY v \in {4, 5}, <1>1, <1>2, <1>3, HandedOver
<1>5. TypeOf(header) = p.type
  BY <1>1, <1>2, WireForm, Zenon
<1>6. /\ last' \in Received /\ inFlight' = Tail(inFlight)
      /\ mqttConnected' = (mqttConnected \/ TypeOf(header) \in {"connect", "connack"})
      /\ pc' = (IF TypeOf(header) = "disconnect" THEN "closed" ELSE "header")
      /\ left' = 0 /\ buf' = <<>> /\ got' = Nothing
      /\ UNCHANGED <<config, begun, ended, stream, known>>
  BY Zenon DEF HandOver
<1> QED BY <1>1, <1>3, <1>4, <1>5, <1>6, Zenon DEF Idle, p, T

-----------------------------------------------------------------------------
\* Stored messages.

\* The parts of a stored PUBLISH, joined either way.
Joins(x, a, s, i, r) == Cat(Cat(Cat(Cat(x, a), s), i), r) = Cat(x, Cat(Cat(a, s), Cat(i, r)))
JoinsProperties(x, a, s, i, w, m, d) ==
  Cat(Cat(Cat(Cat(Cat(Cat(x, a), s), i), w), m), d) = Cat(x, Cat(Cat(a, s), Cat(i, Cat(Cat(w, m), d))))

\* Joining associates, for five parts
LEMMA Rejoined ==
  ASSUME NEW x \in Seq(Byte), NEW a \in Seq(Byte), NEW s \in Seq(Byte), NEW i \in Seq(Byte), NEW r \in Seq(Byte)
  PROVE  Joins(x, a, s, i, r)
<1>0. Cat(x, a) \in Seq(Byte) /\ Cat(a, s) \in Seq(Byte) /\ Cat(i, r) \in Seq(Byte)
  BY CatJoins
<1> DEFINE y == Cat(Cat(x, a), s)
<1>1. y \in Seq(Byte) /\ y = Cat(x, Cat(a, s))
  BY <1>0, CatJoins
<1> HIDE DEF y
<1>2. Cat(Cat(y, i), r) = Cat(y, Cat(i, r))
  BY <1>1, CatJoins
<1>3. Cat(Cat(x, Cat(a, s)), Cat(i, r)) = Cat(x, Cat(Cat(a, s), Cat(i, r)))
  BY <1>0, CatJoins
<1>4. Cat(Cat(y, i), r) = Cat(x, Cat(Cat(a, s), Cat(i, r)))
  BY <1>1, <1>2, <1>3, Zenon
<1> QED BY <1>4, Zenon DEF Joins, y

\* and for seven.
LEMMA RejoinedProperties ==
  ASSUME NEW x \in Seq(Byte), NEW a \in Seq(Byte), NEW s \in Seq(Byte), NEW i \in Seq(Byte), NEW w \in Seq(Byte),
         NEW m \in Seq(Byte), NEW d \in Seq(Byte)
  PROVE  JoinsProperties(x, a, s, i, w, m, d)
<1>0. Cat(w, m) \in Seq(Byte) /\ Cat(m, d) \in Seq(Byte) /\ Cat(x, a) \in Seq(Byte)
  BY CatJoins
<1>1. Cat(Cat(w, m), d) \in Seq(Byte) /\ Cat(Cat(x, a), s) \in Seq(Byte) /\ Cat(Cat(w, m), d) = Cat(w, Cat(m, d))
  BY <1>0, CatJoins
<1>2. Joins(x, a, s, i, Cat(Cat(w, m), d))
  BY <1>1, Rejoined, Zenon
<1> DEFINE y == Cat(Cat(Cat(x, a), s), i)
<1>3. y \in Seq(Byte)
  BY <1>1, CatJoins
<1> HIDE DEF y
<1>4. Cat(Cat(Cat(y, w), m), d) = Cat(Cat(y, w), Cat(m, d)) /\ Cat(Cat(y, w), Cat(m, d)) = Cat(y, Cat(w, Cat(m, d)))
  <2>1. Cat(y, w) \in Seq(Byte)
    BY <1>3, CatJoins
  <2> QED BY <1>0, <1>3, <2>1, CatJoins
<1>5. Cat(Cat(Cat(y, w), m), d) = Cat(y, Cat(Cat(w, m), d))
  BY <1>1, <1>4, Zenon
<1>6. Cat(y, Cat(Cat(w, m), d)) = Cat(x, Cat(Cat(a, s), Cat(i, Cat(Cat(w, m), d))))
  BY <1>2, Zenon DEF Joins, y
<1>7. Cat(Cat(Cat(y, w), m), d) = Cat(x, Cat(Cat(a, s), Cat(i, Cat(Cat(w, m), d))))
  BY <1>5, <1>6, Zenon
<1> QED BY <1>7, Zenon DEF JoinsProperties, y

\* How a stored PUBLISH is taken apart: what is behind the fixed header, and behind the topic.
Buffer(e) == Behind(e, HeaderUsed(e))
BehindTopic(e) == Behind(Buffer(e), TextUsed(Buffer(e)))

TakenApart(p, e, r) ==
  /\ First(e, HeaderUsed(e)) \in Seq(Byte) /\ PublishId(p) \in Seq(Byte) /\ r \in Seq(Byte)
  /\ BigEndian(Len(p.topic), 2) \in Seq(Byte) /\ p.topic \in Seq(Byte)
  /\ e = First(e, HeaderUsed(e)) \o ((BigEndian(Len(p.topic), 2) \o p.topic) \o (PublishId(p) \o r))
  /\ First(Buffer(e), 2) = BigEndian(Len(p.topic), 2) /\ TextAt(Buffer(e)) = p.topic
  /\ ~(Len(Buffer(e)) < 2) /\ ~(Len(Buffer(e)) < TextUsed(Buffer(e)))
  /\ ~(Len(BehindTopic(e)) < IdSize(e[1]))
  /\ First(BehindTopic(e), IdSize(e[1])) = PublishId(p)
  /\ Behind(BehindTopic(e), IdSize(e[1])) = r

\* How a stored PUBLISH is taken apart.
LEMMA PublishTaken ==
  ASSUME NEW v \in {4, 5}, NEW p \in Packets(v), p.type = "publish", NEW e, e = Encoded(v, p),
         NEW r, r = PropBytes(v, p.props) \o p.payload
  PROVE  TakenApart(p, e, r) /\ p.payload \in Seq(Byte) /\ p.props \in PropsOf(v)
<1>1. p \in Publishes(v)
  BY PacketSorts, Zenon
<1>2. /\ p.topic \in Strings /\ p.id \in TwoBytes /\ p.payload \in Seq(Byte) /\ p.props \in PropsOf(v) /\ p.qos \in 0..2
  BY <1>1 DEF Publishes
<1> DEFINE x == First(e, HeaderUsed(e))
           t == Text(p.topic)
           z == BigEndian(Len(p.topic), 2)
           i == PublishId(p)
           q == PropBytes(v, p.props)
           d == p.payload
           b == Buffer(e)
           y == i \o r
<1>3. e[1] = HeaderOf(p) /\ b = Body(v, p) /\ x \o b = e /\ x \in Seq(Byte)
  BY HeaderBack, Zenon DEF Buffer
<1>4. Body(v, p) = t \o (i \o (q \o d))
  BY Zenon DEF Body, Acks
<1>5. q \in Seq(Byte)
  BY <1>2, WiredPropBytes DEF Wired
<1>6. i \in Seq(Byte) /\ Len(i) = IF p.qos > 0 THEN 2 ELSE 0
  <2>1. BigEndian(p.id, 2) \in Seq(Byte) /\ 2 = Len(BigEndian(p.id, 2))
    BY <1>2, WiredId DEF Wired
  <2>2. i = IF p.qos > 0 THEN BigEndian(p.id, 2) ELSE <<>>
    BY Zenon DEF PublishId
  <2>3. CASE p.qos > 0
    BY <2>1, <2>2, <2>3, Zenon
  <2>4. CASE ~(p.qos > 0)
    <3>1. i = <<>>
      BY <2>2, <2>4, Zenon
    <3>2. <<>> \in Seq(Byte) /\ Len(<<>>) = 0
      OBVIOUS
    <3> HIDE DEF i
    <3> DEFINE c == p.qos > 0
    <3>3. i \in Seq(Byte) /\ Len(i) = 0 /\ ~c
      BY <2>4, <3>1, <3>2
    <3> HIDE DEF c
    <3>4. i \in Seq(Byte) /\ Len(i) = IF c THEN 2 ELSE 0
      BY ONLY <3>3
    <3> QED BY <3>4 DEF c
  <2> QED BY <2>3, <2>4, Zenon
<1>7. IdSize(e[1]) = Len(i)
  <2>1. QosOf(HeaderOf(p)) = p.qos
    BY <1>1, PublishHeader, Zenon
  <2> QED BY <1>3, <1>6, <2>1 DEF IdSize
<1>8. /\ p.topic \in Seq(Byte) /\ z \in Seq(Byte) /\ t = z \o p.topic /\ t \in Seq(Byte) /\ Len(t) = 2 + Len(p.topic)
      /\ Len(p.topic) \in Nat
  <2> DEFINE s == p.topic
  <2>1. s \in Strings
    BY <1>2
  <2> HIDE DEF s
  <2>2. /\ s \in Seq(Byte) /\ BigEndian(Len(s), 2) \in Seq(Byte) /\ Text(s) = BigEndian(Len(s), 2) \o s
        /\ Text(s) \in Seq(Byte) /\ Len(Text(s)) = 2 + Len(s) /\ Len(s) \in Nat
    BY ONLY <2>1, TextIs
  <2> QED BY <2>2, Zenon DEF s, z, t
<1>9. r \in Seq(Byte)
  <2>1. q \in Seq(Byte) /\ d \in Seq(Byte)
    BY <1>2, <1>5
  <2> HIDE DEF q, d
  <2>2. q \o d \in Seq(Byte)
    BY ONLY <2>1, OfJoined
  <2> QED BY <2>2 DEF q, d
<1>10. b = t \o y
  BY <1>3, <1>4
<1> HIDE DEF x, t, z, i, q, d, b, y
<1>11. y \in Seq(Byte) /\ First(y, Len(i)) = i /\ Behind(y, Len(i)) = r /\ Len(y) = Len(i) + Len(r) /\ Len(i) \in Nat
       /\ Len(r) \in Nat
  <2>1. i \in Seq(Byte) /\ r \in Seq(Byte)
    BY <1>6, <1>9
  <2> QED BY ONLY <2>1, OfJoined DEF y
<1>12. TextUsed(b) = Len(t) /\ TextAt(b) = p.topic /\ Behind(b, TextUsed(b)) = y /\ First(b, 2) = z
  BY <1>2, <1>10, <1>11, TextBack, Zenon DEF t, z
<1>13. Len(b) = Len(t) + Len(y) /\ Len(y) \in Nat
  <2>1. t \in Seq(Byte) /\ y \in Seq(Byte)
    BY <1>8, <1>11
  <2> QED BY ONLY <2>1, <1>10, OfJoined
<1>14. ~(Len(b) < 2) /\ ~(Len(b) < TextUsed(b))
  BY <1>8, <1>12, <1>13
<1>15. BehindTopic(e) = y
  BY <1>12, Zenon DEF BehindTopic, b
<1>16. ~(Len(y) < Len(i))
  <2> DEFINE j == Len(i)
             k == Len(r)
             l == Len(y)
  <2>1. j \in Nat /\ k \in Nat /\ l = j + k
    BY <1>11
  <2> HIDE DEF j, k, l
  <2>2. ~(l < j)
    BY <2>1
  <2> QED BY <2>2 DEF l, j
<1>17. e = x \o ((z \o p.topic) \o y)
  BY <1>3, <1>8, <1>10
<1> QED BY <1>2, <1>3, <1>6, <1>7, <1>8, <1>9, <1>11, <1>12, <1>14, <1>15, <1>16, <1>17, Zenon
        DEF TakenApart, x, z, i, b, y, d

\* A stored PUBLISH is sent again byte for byte, in MQTT 3.1.1
LEMMA RestoredPublishBack ==
  ASSUME NEW p \in Packets(4), p.type = "publish"
  PROVE  RestoredPublish(Encoded(4, p)) = Encoded(4, p)
<1> DEFINE f == 4
           e == Encoded(f, p)
           r == PropBytes(f, p.props) \o p.payload
           x == First(e, HeaderUsed(e))
           z == BigEndian(Len(p.topic), 2)
           s == p.topic
           i == PublishId(p)
           b == Buffer(e)
           y == BehindTopic(e)
           k == IdSize(e[1])
<1>0. f \in {4, 5} /\ p \in Packets(f)
  OBVIOUS
<1> HIDE DEF f
<1>1. /\ x \in Seq(Byte) /\ i \in Seq(Byte) /\ r \in Seq(Byte) /\ z \in Seq(Byte) /\ s \in Seq(Byte)
      /\ e = x \o ((z \o s) \o (i \o r)) /\ First(b, 2) = z /\ TextAt(b) = s
      /\ ~(Len(b) < 2) /\ ~(Len(b) < TextUsed(b)) /\ ~(Len(y) < k) /\ First(y, k) = i /\ Behind(y, k) = r
  <2>1. TakenApart(p, e, r)
    BY <1>0, PublishTaken, Zenon
  <2> QED BY <2>1, Zenon DEF TakenApart
<1>2. (((x \o z) \o s) \o i) \o r = x \o ((z \o s) \o (i \o r))
  <2>1. x \in Seq(Byte) /\ i \in Seq(Byte) /\ r \in Seq(Byte) /\ z \in Seq(Byte) /\ s \in Seq(Byte)
    BY <1>1
  <2> HIDE DEF x, i, r, z, s
  <2>2. Joins(x, z, s, i, r)
    BY ONLY <2>1, Rejoined
  <2> QED BY <2>2, Zenon DEF Joins, Cat
<1>3. RestoredPublish(e) =
        IF Len(b) < 2 \/ Len(b) < TextUsed(b) \/ Len(y) < k THEN <<>>
        ELSE x \o First(b, 2) \o TextAt(b) \o First(y, k) \o Behind(y, k)
  BY Zenon DEF RestoredPublish, Buffer, BehindTopic
<1> HIDE DEF x, i, r, z, s, b, y, k
<1>4. RestoredPublish(e) = (((x \o z) \o s) \o i) \o r
  BY <1>1, <1>3, Zenon
<1>5. RestoredPublish(e) = e
  BY <1>1, <1>2, <1>4, Zenon
<1> QED BY <1>5 DEF f

\* and in MQTT 5, properties and all.
LEMMA RestoredPublishV5Back ==
  ASSUME NEW p \in Packets(5), p.type = "publish"
  PROVE  RestoredPublishV5(Encoded(5, p)) = Encoded(5, p)
<1> DEFINE f == 5
           e == Encoded(f, p)
           r == PropBytes(f, p.props) \o p.payload
           x == First(e, HeaderUsed(e))
           z == BigEndian(Len(p.topic), 2)
           s == p.topic
           i == PublishId(p)
           b == Buffer(e)
           y == BehindTopic(e)
           k == IdSize(e[1])
           m == PropertyBytes(p.props)
           n == Len(m)
           w == VarBytes(n)
           d == p.payload
           g == Behind(y, k)
           l == VariableLength(g)
           h == Behind(g, l.used)
<1>0. f \in {4, 5} /\ p \in Packets(f)
  OBVIOUS
<1>10. PropBytes(f, p.props) = Properties(p.props) /\ PropsOf(f) = Seq(PropertyValues)
  BY DEF PropBytes, PropsOf
<1> HIDE DEF f
<1>1. /\ x \in Seq(Byte) /\ i \in Seq(Byte) /\ r \in Seq(Byte) /\ z \in Seq(Byte) /\ s \in Seq(Byte)
      /\ e = x \o ((z \o s) \o (i \o r)) /\ First(b, 2) = z /\ TextAt(b) = s
      /\ ~(Len(b) < 2) /\ ~(Len(b) < TextUsed(b)) /\ ~(Len(y) < k) /\ First(y, k) = i /\ Behind(y, k) = r
      /\ d \in Seq(Byte) /\ p.props \in Seq(PropertyValues)
  <2>1. TakenApart(p, e, r) /\ p.payload \in Seq(Byte) /\ p.props \in PropsOf(f)
    BY <1>0, PublishTaken, Zenon
  <2> QED BY <1>10, <2>1, Zenon DEF TakenApart
<1>2. /\ Properties(p.props) = w \o m /\ m \in Seq(Byte) /\ n \in Nat
  BY <1>1, WiredProperties, Zenon
<1>3. n < LengthLimit
  <2>1. Len(Body(f, p)) < LengthLimit /\ Len(Body(f, p)) \in Nat /\ LengthLimit \in Nat
    BY <1>0, WireForm, LimitIs, Zenon
  <2>2. Body(f, p) = Text(p.topic) \o (PublishId(p) \o (Properties(p.props) \o p.payload))
    BY <1>10, Zenon DEF Body, Acks
  <2>3. Text(s) = z \o s
    BY Zenon DEF Text
  <2> DEFINE q == Properties(p.props)
             t == z \o s
  <2>4. q \in Seq(Byte) /\ n <= Len(q)
    BY <1>1, WiredProperties DEF Wired
  <2>5. Body(f, p) = t \o (i \o (q \o d))
    BY <2>2, <2>3, Zenon
  <2>6. t \in Seq(Byte)
    <3>1. z \in Seq(Byte) /\ s \in Seq(Byte)
      BY <1>1
    <3> HIDE DEF z, s
    <3> QED BY ONLY <3>1, OfJoined DEF t
  <2>7. d \in Seq(Byte) /\ i \in Seq(Byte)
    BY <1>1
  <2> HIDE DEF q, t, d, i, n
  <2>8. q \o d \in Seq(Byte) /\ Len(q) <= Len(q \o d)
    BY <2>4, <2>7, OfJoined
  <2>9. i \o (q \o d) \in Seq(Byte) /\ Len(q \o d) <= Len(i \o (q \o d))
    BY <2>7, <2>8, OfJoined
  <2>10. Len(i \o (q \o d)) <= Len(t \o (i \o (q \o d)))
    BY <2>6, <2>9, OfJoined
  <2>11. Len(q) \in Nat /\ Len(q \o d) \in Nat /\ Len(i \o (q \o d)) \in Nat
    BY <2>4, <2>8, <2>9, LenProperties
  <2> HIDE DEF f
  <2> QED BY <1>2, <2>1, <2>4, <2>5, <2>8, <2>9, <2>10, <2>11, SMT DEF n
<1>4. r = (w \o m) \o d /\ g = r
  BY <1>1, <1>2, <1>10, Zenon
<1>5. w \in Seq(Byte) /\ Len(w) \in Nat
  BY <1>2, <1>3, WiredEmpty, VariableBack
<1>11. w \in Seq(Byte) /\ m \in Seq(Byte) /\ d \in Seq(Byte)
  BY <1>1, <1>2, <1>5
<1>6. (w \o m) \o d = w \o (m \o d) /\ m \o d \in Seq(Byte)
      /\ Behind(w \o (m \o d), Len(w)) = m \o d /\ First(w \o (m \o d), Len(w)) = w
      /\ First(m \o d, Len(m)) = m /\ Behind(m \o d, Len(m)) = d /\ Len(m \o d) = Len(m) + Len(d) /\ Len(d) \in Nat
  <2> HIDE DEF w, m, d
  <2>1. m \o d \in Seq(Byte) /\ First(m \o d, Len(m)) = m /\ Behind(m \o d, Len(m)) = d
        /\ Len(m \o d) = Len(m) + Len(d) /\ Len(d) \in Nat
    BY ONLY <1>11, OfJoined
  <2>2. (w \o m) \o d = w \o (m \o d)
    BY ONLY <1>11, AssociateBytes, SMTT(30)
  <2>3. w \in Seq(Byte) /\ m \o d \in Seq(Byte)
    BY <1>11, <2>1
  <2>4. Behind(w \o (m \o d), Len(w)) = m \o d /\ First(w \o (m \o d), Len(w)) = w
    BY ONLY <2>3, OfJoined
  <2> QED BY <2>1, <2>2, <2>4
<1>7. l.value = n /\ l.used = Len(w) /\ l.used # 0
  <2>1. g = w \o (m \o d)
    BY <1>4, <1>6
  <2> HIDE DEF g
  <2>2. VariableLength(w \o (m \o d)).value = n /\ VariableLength(w \o (m \o d)).used = Len(w) /\ Len(w) # 0
    BY <1>2, <1>3, <1>6, VariableBack, Zenon
  <2> QED BY <2>1, <2>2
<1>8. /\ h = m \o d /\ First(g, l.used) = w /\ ~(Len(h) < l.value) /\ First(h, l.value) = m /\ Behind(h, l.value) = d
  <2>1. g = w \o (m \o d)
    BY <1>4, <1>6
  <2> HIDE DEF g, l, w, m, d
  <2>2. h = m \o d /\ First(g, l.used) = w
    BY <1>6, <1>7, <2>1, Zenon
  <2> HIDE DEF h
  <2> QED BY <1>2, <1>6, <1>7, <2>2
<1>9. PropertyBytes(Parse(m)) = m
  BY <1>1, ParseBack, Zenon
<1>12. (((((x \o z) \o s) \o i) \o w) \o m) \o d = x \o ((z \o s) \o (i \o ((w \o m) \o d)))
  <2>1. x \in Seq(Byte) /\ i \in Seq(Byte) /\ z \in Seq(Byte) /\ s \in Seq(Byte)
    BY <1>1
  <2> HIDE DEF x, i, z, s, w, m, d
  <2>2. JoinsProperties(x, z, s, i, w, m, d)
    BY ONLY <2>1, <1>11, RejoinedProperties
  <2> QED BY <2>2, Zenon DEF JoinsProperties, Cat
<1>13. RestoredPublishV5(e) =
        IF Len(b) < 2 \/ Len(b) < TextUsed(b) \/ Len(y) < k \/ l.used = 0 \/ Len(h) < l.value THEN <<>>
        ELSE x \o First(b, 2) \o TextAt(b) \o First(y, k) \o First(g, l.used)
               \o PropertyBytes(Parse(First(h, l.value))) \o Behind(h, l.value)
  BY Zenon DEF RestoredPublishV5, Buffer, BehindTopic
<1> HIDE DEF x, i, r, z, s, b, y, k, g, l, h, w, m, d, n
<1>14. RestoredPublishV5(e) = (((((x \o z) \o s) \o i) \o w) \o m) \o d
  BY <1>1, <1>7, <1>8, <1>9, <1>13, Zenon
<1>15. RestoredPublishV5(e) = e
  BY <1>1, <1>4, <1>12, <1>14, Zenon
<1> QED BY <1>15 DEF f

\* The length of a PUBREL in MQTT 3.1.1.
LEMMA TwoIsOneByte == Len(VarBytes(2)) = 1 /\ VarBytes(2)[1] = 2 /\ VarBytes(2) \in Seq(Byte)
<1> DEFINE n == 2
           k == VarSize(n)
<1>0. n \in Nat /\ n < LengthLimit /\ n < 128
  BY LimitIs, SMT
<1> HIDE DEF n
<1>1. k = 1
  <2>1. k \in 1..4 /\ (k > 1 => n >= 128)
    BY <1>0, VarSizeIs
  <2> HIDE DEF k
  <2> QED BY <1>0, <2>1, SMT
<1>2. /\ VarBytes(n) \in Seq(Byte) /\ Len(VarBytes(n)) = 1
      /\ VarBytes(n)[1] = Digit(n, 1) + (IF 1 < 1 THEN 128 ELSE 0)
  <2>1. /\ VarBytes(n) \in Seq(Byte) /\ Len(VarBytes(n)) = k
        /\ \A j \in 1..k : VarBytes(n)[j] = Digit(n, j) + (IF j < k THEN 128 ELSE 0)
    BY <1>0, LengthType, Zenon
  <2> DEFINE b == VarBytes(n)
             d(j) == Digit(n, j)
  <2> HIDE DEF k, b, d
  <2>2. b \in Seq(Byte) /\ Len(b) = k /\ \A j \in 1..k : b[j] = d(j) + (IF j < k THEN 128 ELSE 0)
    BY <2>1, Zenon DEF b, d
  <2>3. b \in Seq(Byte) /\ Len(b) = 1 /\ b[1] = d(1) + (IF 1 < 1 THEN 128 ELSE 0)
    BY <1>1, <2>2
  <2> QED BY <2>3 DEF b, d
<1>3. Digit(n, 1) = 2
  <2>1. LengthUnits[1] = 1
    BY DEF LengthUnits
  <2> QED BY <2>1, SMT DEF Digit, n
<1> QED BY <1>2, <1>3 DEF n

\* A stored PUBREL is sent again byte for byte, in MQTT 3.1.1
LEMMA RestoredPubrelBack ==
  ASSUME NEW p \in Packets(4), p.type = "pubrel"
  PROVE  RestoredPubrel(Encoded(4, p)) = Encoded(4, p)
<1> DEFINE f == 4
           e == Encoded(f, p)
           h == HeaderOf(p)
           i == IdBytes(p)
           w == VarBytes(2)
<1>0. f \in {4, 5} /\ p \in Packets(f) /\ p.type \in Acks
  BY DEF Acks
<1> HIDE DEF f
<1>1. p \in Acknowledgements(f)
  BY <1>0, PacketSorts, Zenon
<1>2. p.id \in Ids /\ p.reason = 0
  BY <1>1 DEF Acknowledgements, ReasonsOf, f
<1>3. i \in Seq(Byte) /\ Len(i) = 2
  BY <1>2, WiredIds DEF Wired
<1>4. Body(f, p) = i
  <2>1. Body(f, p) = i \o ReasonPart(p)
    BY <1>0, Zenon DEF Body, Acks
  <2>2. ReasonPart(p) = <<>>
    BY <1>2, Zenon DEF ReasonPart
  <2> HIDE DEF i
  <2>3. i \o <<>> = i
    BY <1>3, WiredEmpty
  <2> QED BY <2>1, <2>2, <2>3, Zenon
<1>5. e = <<h>> \o (VarBytes(Len(Body(f, p))) \o Body(f, p))
  BY <1>0, WireForm, Zenon
<1>6. w \in Seq(Byte) /\ Len(w) = 1 /\ w[1] = 2
  BY TwoIsOneByte
<1>7. e = <<h>> \o (w \o i) /\ <<h>> \in Seq(Byte)
  <2>1. <<h>> \in Seq(Byte)
    BY <1>0, WireForm, Zenon
  <2> QED BY <1>3, <1>4, <1>5, <2>1, Zenon
<1> DEFINE x == <<h>>
           y == w \o i
<1>8. Len(x) = 1
  OBVIOUS
<1> HIDE DEF x, w, i
<1>9. x \in Seq(Byte) /\ e = x \o y
  BY <1>7 DEF x
<1>10. y \in Seq(Byte) /\ Len(y) = 3 /\ y[1] = 2
  <2>1. w \in Seq(Byte) /\ i \in Seq(Byte)
    BY <1>3, <1>6
  <2>2. y \in Seq(Byte) /\ Len(y) = Len(w) + Len(i) /\ \A j \in 1..Len(w) : y[j] = w[j]
    BY ONLY <2>1, OfJoined
  <2>3. y[1] = w[1]
    BY <1>6, <2>2
  <2> HIDE DEF y
  <2> QED BY <1>3, <1>6, <2>2, <2>3
<1> HIDE DEF y, e
<1>11. Len(e) = 4 /\ e[2] = 2
  <2>1. x \in Seq(Byte) /\ y \in Seq(Byte)
    BY <1>9, <1>10
  <2>2. Len(x \o y) = Len(x) + Len(y) /\ Behind(x \o y, Len(x)) = y /\ x \o y \in Seq(Byte) /\ Len(x) \in Nat
    BY ONLY <2>1, OfJoined
  <2> DEFINE z == x \o y
  <2> HIDE DEF z
  <2>3. Len(z) = 4 /\ Behind(z, 1) = y /\ z \in Seq(Byte)
    BY <1>8, <1>10, <2>2 DEF z
  <2>4. 1 \in 0..Len(z) /\ \A j \in 1..(Len(z) - 1) : Behind(z, 1)[j] = z[1 + j]
    <3>1. 1 \in 0..Len(z)
      BY <2>3
    <3> QED BY <2>3, <3>1, FirstBehind
  <2>5. z[2] = 2
    BY <1>10, <2>3, <2>4
  <2> QED BY <1>9, <2>3, <2>5, Zenon DEF z
<1> QED BY <1>11 DEF RestoredPubrel, e, f

\* and in MQTT 5.
LEMMA RestoredPubrelV5Back ==
  ASSUME NEW p \in Packets(5), p.type = "pubrel"
  PROVE  RestoredPubrelV5(Encoded(5, p)) = Encoded(5, p)
<1> DEFINE f == 5
           e == Encoded(f, p)
           x == First(e, HeaderUsed(e))
           b == Buffer(e)
           g == Behind(b, 3)
           l == VariableLength(g)
           h == Behind(g, l.used)
           i == IdBytes(p)
           c == <<p.reason>>
           m == PropertyBytes(p.props)
           n == Len(m)
           w == VarBytes(n)
<1>0. f \in {4, 5} /\ p \in Packets(f) /\ p.type \in Acks
  BY DEF Acks
<1>00. PropsOf(f) = Seq(PropertyValues) /\ ReasonsOf(f) = Byte
  BY DEF PropsOf, ReasonsOf
<1> HIDE DEF f
<1>1. p \in Acknowledgements(f)
  BY <1>0, PacketSorts, Zenon
<1>2. p.id \in Ids /\ p.reason \in Byte /\ p.props \in Seq(PropertyValues)
  BY <1>1, <1>00 DEF Acknowledgements
<1>3. i \in Seq(Byte) /\ Len(i) = 2 /\ c \in Seq(Byte) /\ Len(c) = 1
  BY <1>2, WiredIds DEF Wired
<1>4. b = Body(f, p) /\ x \o b = e /\ x \in Seq(Byte)
  BY <1>0, HeaderBack, Zenon DEF Buffer
<1>5. Body(f, p) = i \o ReasonPart(p)
  BY <1>0, Zenon DEF Body, Acks
<1>6. RestoredPubrelV5(e) =
        IF Len(b) < 2 THEN <<>>
        ELSE IF Len(b) <= 3 THEN e
        ELSE IF Len(h) # l.value THEN <<>>
        ELSE x \o First(b, 3) \o (IF Parse(h) = <<>> THEN <<>> ELSE First(g, l.used) \o PropertyBytes(Parse(h)))
  BY Zenon DEF RestoredPubrelV5, Buffer
<1>7. CASE p.reason = 0
  <2>1. ReasonPart(p) = <<>>
    BY <1>7, Zenon DEF ReasonPart
  <2> HIDE DEF i, e, x, b
  <2>2. i \o <<>> = i
    BY <1>3, WiredEmpty
  <2>3. Len(b) = 2
    BY <1>3, <1>4, <1>5, <2>1, <2>2
  <2>4. RestoredPubrelV5(e) = e
    BY <1>6, <2>3
  <2> QED BY <2>4 DEF e, f
<1>8. CASE p.reason # 0 /\ p.props = <<>>
  <2>1. ReasonPart(p) = c
    BY <1>8, Zenon DEF ReasonPart
  <2> HIDE DEF i, e, x, b, c
  <2>2. Len(i \o c) = 3
    <3>1. i \in Seq(Byte) /\ c \in Seq(Byte)
      BY <1>3
    <3>2. Len(i \o c) = Len(i) + Len(c)
      BY ONLY <3>1, OfJoined
    <3> QED BY <1>3, <3>2
  <2>3. Len(b) = 3
    BY <1>4, <1>5, <2>1, <2>2
  <2>4. RestoredPubrelV5(e) = e
    BY <1>6, <2>3
  <2> QED BY <2>4 DEF e, f
<1>9. CASE p.reason # 0 /\ p.props # <<>>
  <2> DEFINE q == Properties(p.props)
             a == i \o c
  <2>1. ReasonPart(p) = c \o q
    BY <1>9, Zenon DEF ReasonPart
  <2>2. q = w \o m /\ q \in Seq(Byte) /\ m \in Seq(Byte) /\ n \in Nat /\ n <= Len(q) /\ Len(q) >= 1
    BY <1>2, WiredProperties DEF Wired
  <2> HIDE DEF q
  <2>3. i \o (c \o q) = (i \o c) \o q
    <3>1. i \in Seq(Byte) /\ c \in Seq(Byte) /\ q \in Seq(Byte)
      BY <1>3, <2>2
    <3> HIDE DEF i, c
    <3> QED BY ONLY <3>1, AssociateBytes, SMTT(30)
  <2>4. b = a \o q
    BY <1>4, <1>5, <2>1, <2>3, Zenon
  <2>5. a \in Seq(Byte) /\ Len(a) = 3
    <3>1. i \in Seq(Byte) /\ c \in Seq(Byte) /\ Len(i) = 2 /\ Len(c) = 1
      BY <1>3
    <3> HIDE DEF i, c
    <3>2. i \in Seq(Byte) /\ c \in Seq(Byte)
      BY <3>1
    <3>3. a \in Seq(Byte) /\ Len(a) = Len(i) + Len(c)
      BY ONLY <3>2, OfJoined DEF a
    <3> HIDE DEF a
    <3> QED BY <3>1, <3>3
  <2>6. a \in Seq(Byte) /\ q \in Seq(Byte)
    BY <2>2, <2>5
  <2> HIDE DEF a
  <2>7. First(a \o q, Len(a)) = a /\ Behind(a \o q, Len(a)) = q /\ Len(a \o q) = Len(a) + Len(q) /\ Len(q) \in Nat
    BY ONLY <2>6, OfJoined
  <2> HIDE DEF b
  <2>8. First(b, 3) = a /\ g = q /\ ~(Len(b) < 2) /\ ~(Len(b) <= 3)
    BY <2>2, <2>4, <2>5, <2>7
  <2>9. n < LengthLimit
    <3>1. Len(Body(f, p)) < LengthLimit /\ Len(Body(f, p)) \in Nat /\ LengthLimit \in Nat
      BY <1>0, WireForm, LimitIs, Zenon
    <3>2. Len(Body(f, p)) = 3 + Len(q)
      BY <1>4, <2>4, <2>5, <2>7
    <3> DEFINE d == Len(Body(f, p))
    <3> HIDE DEF d, n
    <3> QED BY <2>2, <2>7, <3>1, <3>2, SMT DEF d
  <2>10. w \in Seq(Byte)
    BY <2>2, <2>9, WiredEmpty, VariableBack
  <2>11. w \in Seq(Byte) /\ m \in Seq(Byte)
    BY <2>2, <2>10
  <2>12. Behind(w \o m, Len(w)) = m /\ First(w \o m, Len(w)) = w
    <3> HIDE DEF w, m
    <3> QED BY ONLY <2>11, OfJoined
  <2>13. VariableLength(w \o m).value = n /\ VariableLength(w \o m).used = Len(w)
    BY <2>2, <2>9, VariableBack, Zenon
  <2>14. l.value = n /\ h = m /\ First(g, l.used) = w
    <3>1. g = w \o m
      BY <2>2, <2>8, Zenon
    <3> HIDE DEF g
    <3>2. l.value = n /\ l.used = Len(w)
      BY <2>13, <3>1, Zenon
    <3> HIDE DEF l
    <3> QED BY <2>12, <3>1, <3>2, Zenon
  <2>15. Parse(m) = p.props
    BY <1>2, ParseBack, Zenon
  <2> HIDE DEF g, l, h, w, x, e
  <2>16. RestoredPubrelV5(e) = x \o a \o (w \o m)
    BY <1>6, <1>9, <2>8, <2>14, <2>15, Zenon
  <2>17. (x \o a) \o q = x \o (a \o q)
    <3>1. x \in Seq(Byte) /\ a \in Seq(Byte) /\ q \in Seq(Byte)
      BY <1>4, <2>6
    <3> QED BY ONLY <3>1, AssociateBytes, SMTT(30)
  <2>18. RestoredPubrelV5(e) = e
    BY <1>4, <2>2, <2>4, <2>16, <2>17, Zenon
  <2> QED BY <2>18 DEF e, f
<1> QED BY <1>7, <1>8, <1>9, Zenon

-----------------------------------------------------------------------------
\* A step of the sender.

\* The packets of the sender are of Packets.
LEMMA SentAre ==
  ASSUME Config, NEW k \in DOMAIN Sends
  PROVE  Sends[k] \in Packets(version) /\ Sends[k].type # (IF asServer THEN "connack" ELSE "connect")
<1>1. CASE asServer
  BY <1>1, PacketsAssumption, Zenon DEF PacketsAssumption, Config, Sends
<1>2. CASE ~asServer
  BY <1>2, PacketsAssumption, Zenon DEF PacketsAssumption, Config, Sends
<1> QED BY <1>1, <1>2

\* A message that was stored is sent again as it was sent first.
LEMMA RestoredSame ==
  ASSUME version \in {4, 5}, NEW p \in Packets(version), SendRestored(p)
  PROVE  Send(p)
<1>1. version = 4 => p \in Packets(4) /\ Encoded(version, p) = Encoded(4, p)
  OBVIOUS
<1>2. version # 4 => version = 5 /\ p \in Packets(5) /\ Encoded(version, p) = Encoded(5, p)
  OBVIOUS
<1>3. CASE p.type = "publish" /\ SendsAs(p, IF version = 4 THEN RestoredPublish(Encoded(4, p))
                                             ELSE RestoredPublishV5(Encoded(5, p)))
  BY <1>1, <1>2, <1>3, RestoredPublishBack, RestoredPublishV5Back, Zenon DEF Send
<1>4. CASE p.type = "pubrel" /\ SendsAs(p, IF version = 4 THEN RestoredPubrel(Encoded(4, p))
                                            ELSE RestoredPubrelV5(Encoded(5, p)))
  BY <1>1, <1>2, <1>4, RestoredPubrelBack, RestoredPubrelV5Back, Zenon DEF Send
<1> QED BY <1>3, <1>4, Zenon DEF SendRestored

\* One element more at the end.
LEMMA AppendTail ==
  ASSUME NEW S, NEW s \in Seq(S), NEW p \in S
  PROVE  /\ Append(s, p) \in Seq(S) /\ Len(Append(s, p)) = Len(s) + 1 /\ Append(s, p) # <<>>
         /\ \A k \in 1..Len(s) : Append(s, p)[k] = s[k]
         /\ Append(s, p)[Len(s) + 1] = p
         /\ s # <<>> => Append(s, p)[1] = s[1] /\ Tail(Append(s, p)) = Append(Tail(s), p) /\ Tail(s) \in Seq(S)
         /\ SubSeq(Append(s, p), 1, Len(s)) = s
OBVIOUS

\* What is behind a packet on the wire grows by what is sent.
LEMMA ReadingGrows ==
  ASSUME NEW CONSTANT v, NEW CONSTANT p, NEW CONSTANT T \in Seq(Byte), NEW CONSTANT e \in Seq(Byte),
         NEW CONSTANT U, U = T \o e, Grows(e), header' = header, ReadingPacket(v, p, T),
         VarBytes(Len(Body(v, p))) \in Seq(Byte), Body(v, p) \in Seq(Byte)
  PROVE  ReadingPacket(v, p, U)'
<1> DEFINE b == Body(v, p)
           w == VarBytes(Len(b))
<1>1. stream' = stream \o e /\ pc' = pc /\ rem' = rem /\ (Idle => Idle')
  BY Zenon DEF Grows, Idle
<1>2. b \in Seq(Byte) /\ w \in Seq(Byte) /\ T \in Seq(Byte) /\ e \in Seq(Byte)
  OBVIOUS
<1>3. (b \o T) \o e = b \o U /\ (w \o (b \o T)) \o e = w \o (b \o U)
  <2>1. Cat(Cat(b, T), e) = Cat(b, Cat(T, e)) /\ Cat(b, T) \in Seq(Byte)
    <3> HIDE DEF b, w
    <3> QED BY <1>2, CatJoins
  <2>2. Cat(Cat(w, Cat(b, T)), e) = Cat(w, Cat(Cat(b, T), e))
    <3> HIDE DEF b, w
    <3> QED BY <1>2, <2>1, CatJoins
  <2> QED BY <2>1, <2>2, Zenon DEF Cat
<1>4. CASE pc = "length" /\ Idle /\ header = HeaderOf(p) /\ stream = w \o (b \o T)
  BY <1>1, <1>3, <1>4, Zenon DEF ReadingPacket
<1>5. CASE pc = "block" /\ Idle /\ header = HeaderOf(p) /\ rem = Len(b) /\ rem # 0 /\ stream = b \o T
  BY <1>1, <1>3, <1>5, Zenon DEF ReadingPacket
<1>6. CASE header = HeaderOf(p) /\ (Mid(v, p, T) \/ Done(v, p, T))
  <2>1. Mid(v, p, U)' \/ Done(v, p, U)'
    BY <1>6, MidGrows
  <2> QED BY <1>6, <2>1, Zenon DEF ReadingPacket
<1> QED BY <1>4, <1>5, <1>6, Zenon DEF ReadingPacket

\* A packet that is sent keeps the invariant.
LEMMA SendStep ==
  ASSUME IInv, NEW CONSTANT p, p \in Packets(version), p.type # (IF asServer THEN "connack" ELSE "connect"), Send(p)
  PROVE  IInv' /\ inFlight' = Append(inFlight, p) /\ inFlight \in Seq(Packets(version)) /\ last' = Nobody
         /\ version' = version
<1>1. PICK v, s : v = version /\ s = inFlight
  OBVIOUS
<1>2. v \in {4, 5} /\ s \in Seq(Packets(v)) /\ p \in Packets(v)
  BY <1>1, Zenon DEF IInv, Config, Flight
<1> DEFINE e == Encoded(v, p)
           u == Append(s, p)
<1>3. /\ MaySend(p) /\ inFlight' = u /\ stream' = stream \o e /\ begun' = TRUE /\ last' = Nobody
      /\ version' = v /\ config' = config
      /\ pc' = pc /\ known' = known /\ mqttConnected' = mqttConnected /\ header' = header
      /\ rem' = rem /\ left' = left /\ buf' = buf /\ got' = got
  BY <1>1, Zenon DEF Send, SendsAs, config, reader
<1>4. /\ u \in Seq(Packets(v)) /\ Len(u) = Len(s) + 1 /\ u # <<>> /\ \A k \in 1..Len(s) : u[k] = s[k]
      /\ u[Len(s) + 1] = p /\ Len(s) \in Nat
      /\ s # <<>> => u[1] = s[1] /\ Tail(u) = Append(Tail(s), p) /\ Tail(s) \in Seq(Packets(v))
  BY ONLY <1>2, AppendTail
<1>5. e \in Seq(Byte)
  BY <1>2, WireForm, Zenon
<1> HIDE DEF e, u
<1>6. Config'
  BY <1>3 DEF IInv, Config, config
<1>7. Flight'
  <2>1. inFlight' \in Seq(Packets(version'))
    BY <1>3, <1>4
  <2>2. \A k \in 1..Len(inFlight') : inFlight'[k].type # (IF asServer' THEN "connack" ELSE "connect")
    <3>1. asServer' = asServer
      BY <1>3 DEF config
    <3>2. \A k \in 1..Len(s) : s[k].type # (IF asServer THEN "connack" ELSE "connect")
      BY <1>1, Zenon DEF IInv, Flight
    <3>3. \A k \in 1..Len(u) : k \in 1..Len(s) \/ k = Len(s) + 1
      BY <1>4
    <3>4. \A k \in 1..Len(u) : u[k].type # (IF asServer THEN "connack" ELSE "connect")
      BY <1>4, <3>2, <3>3, Zenon
    <3> QED BY <1>3, <3>1, <3>4, Zenon
  <2>3. mqttConnected' \/ (inFlight' # <<>> /\ Opens(inFlight'[1]))
    <3>1. CASE mqttConnected
      BY <1>3, <3>1
    <3>2. CASE ~begun
      <4>1. s = <<>> /\ Opens(p)
        BY <1>1, <1>3, <3>2, Zenon DEF IInv, Flight, MaySend
      <4>2. Len(s) + 1 = 1
        BY <4>1
      <4> QED BY <1>3, <1>4, <4>1, <4>2, Zenon
    <3>3. CASE inFlight # <<>> /\ Opens(inFlight[1])
      BY <1>1, <1>3, <1>4, <3>3, Zenon
    <3> QED BY <3>1, <3>2, <3>3, Zenon DEF IInv, Flight
  <2>4. known' = version' \/ (known' = 0 /\ asServer' /\ ~mqttConnected' /\ pc' \in {"header", "length", "block", "flags"})
    <3>1. asServer' = asServer
      BY <1>3 DEF config
    <3> QED BY <1>1, <1>3, <3>1, Zenon DEF IInv, Flight
  <2> QED BY <1>3, <2>1, <2>2, <2>3, <2>4, Zenon DEF Flight
<1>8. Reader'
  <2>1. CASE pc = "header" /\ Idle /\ stream = WireOf(version, inFlight)
    <3>1. WireOf(v, u) = WireOf(v, s) \o e
      BY <1>2, WireAppend, Zenon DEF u, e
    <3> QED BY <1>1, <1>3, <2>1, <3>1, Zenon DEF Reader, Idle
  <2>2. CASE s # <<>> /\ ReadingPacket(v, Kept(v, s[1]), WireOf(v, Tail(s)))
    <3> DEFINE q == Kept(v, s[1])
               T == WireOf(v, Tail(s))
               U == WireOf(v, Tail(u))
    <3>1. q \in Packets(v) /\ T \in Seq(Byte)
      <4>1. s[1] \in Packets(v) /\ T \in Seq(Byte)
        BY <1>2, <2>2, WireMore, Zenon
      <4> QED BY <1>2, <4>1, KeptIs, Zenon
    <3>2. U = T \o e
      BY <1>2, <1>4, <2>2, WireAppend, Zenon DEF e
    <3>3. VarBytes(Len(Body(v, q))) \in Seq(Byte) /\ Body(v, q) \in Seq(Byte)
      BY <1>2, <3>1, WireForm, Zenon
    <3>4. Grows(e)
      BY <1>3, Zenon DEF Grows
    <3>5. ReadingPacket(v, q, T) /\ header' = header
      BY <1>3, <2>2
    <3>6. Kept(v, u[1]) = q
      BY <1>4, <2>2
    <3> HIDE DEF q, T, U
    <3>7. ReadingPacket(v, q, U)'
      BY ONLY <1>5, <3>1, <3>2, <3>3, <3>4, <3>5, ReadingGrows
    <3>8. u # <<>> /\ ReadingPacket(v, Kept(v, u[1]), WireOf(v, Tail(u)))'
      BY <1>4, <3>6, <3>7, Zenon DEF U
    <3> QED BY <1>3, <3>8, Zenon DEF Reader
  <2>3. CASE pc = "closed"
    BY <1>3, <2>3, Zenon DEF Reader
  <2>4. Reader
    BY DEF IInv
  <2> QED BY <1>1, <2>1, <2>2, <2>3, <2>4, Zenon DEF Reader
<1> QED BY <1>1, <1>2, <1>3, <1>6, <1>7, <1>8, Zenon DEF IInv, u

-----------------------------------------------------------------------------
\* What is counted.

\* remaining_length_ is x more than what is left of the packet.
Gap(T, x) == stream \in Seq(Byte) /\ rem = Len(buf) + Len(stream) - Len(T) + x

\* So it is at a field,
LEMMA PlacedGap ==
  ASSUME NEW R \in Seq(Byte), NEW T \in Seq(Byte), NEW x \in Nat, Placed(Cursor, R, T), rem = Len(R) + x
  PROVE  Gap(T, x)
<1>1. /\ stream \in Seq(Byte) /\ buf \in Seq(Byte) /\ buf \o stream = R \o T
  BY CursorIs, Zenon DEF Placed
<1>2. Len(buf \o stream) = Len(buf) + Len(stream) /\ Len(buf) \in Nat /\ Len(stream) \in Nat
  BY <1>1, OfJoined
<1>3. Len(R \o T) = Len(R) + Len(T) /\ Len(R) \in Nat /\ Len(T) \in Nat
  BY OfJoined
<1> DEFINE a == Len(buf)
           b == Len(stream)
           c == Len(R)
           d == Len(T)
<1>4. a \in Nat /\ b \in Nat /\ c \in Nat /\ d \in Nat /\ a + b = c + d /\ rem = c + x
  BY <1>1, <1>2, <1>3
<1> HIDE DEF a, b, c, d
<1>5. rem = a + b - d + x
  BY <1>4
<1> QED BY <1>1, <1>5 DEF Gap, a, b, c, d

\* at a field that begins,
LEMMA SpotGap ==
  ASSUME NEW g, NEW R, NEW T \in Seq(Byte), NEW x \in Nat, NEW N, Spot(g, R, T, x, N)
  PROVE  Gap(T, x)
<1>1. R \in Seq(Byte) /\ Placed(Cursor, R, T) /\ rem = Len(R) + x
  BY Zenon DEF Spot
<1> QED BY <1>1, PlacedGap

\* at properties,
LEMMA PropsGap ==
  ASSUME NEW f, NEW p, NEW S, NEW A, NEW T \in Seq(Byte), NEW x \in Nat, NEW N, AtProps(f, p, S, A, T, x, N)
  PROVE  Gap(T, x) /\ pc = f
<1>1. ASSUME NEW j, Between(f, p, S, j, A, T, x) PROVE Gap(T, x)
  <2> DEFINE R == RestOf(Pieces(Value(p, f)), j) \o A
  <2>1. R \in Seq(Byte) /\ Placed(Cursor, R, T) /\ rem = Len(R) + x
    BY <1>1, Zenon DEF Between
  <2> HIDE DEF R
  <2> QED BY <2>1, PlacedGap
<1> QED BY <1>1, SpotGap, Zenon DEF AtProps

\* and in every stage of a packet but CONNECT and CONNACK,
LEMMA MidGap ==
  ASSUME NEW v, NEW p, NEW T \in Seq(Byte), Mid(v, p, T), p.type \notin {"connect", "connack"}
  PROVE  Gap(T, 0)
<1> DEFINE z == 0
<1>0. z \in Nat
  OBVIOUS
<1>00. z = 0
  OBVIOUS
<1> HIDE DEF z
<1>1. \A g, R, N : Spot(g, R, T, z, N) => Gap(T, z)
  BY <1>0, SpotGap
<1>2. \A f, S, A, N : AtProps(f, p, S, A, T, z, N) => Gap(T, z)
  BY <1>0, PropsGap
<1>3. CASE MidPublish(v, p, T)
  BY <1>1, <1>2, <1>3, <1>00, Zenon DEF MidPublish
<1>4. CASE MidAck(v, p, T)
  BY <1>1, <1>2, <1>4, <1>00, Zenon DEF MidAck
<1>5. CASE MidSubscribe(v, p, T)
  BY <1>1, <1>2, <1>5, <1>00, Zenon DEF MidSubscribe
<1>6. CASE MidUnsubscribe(v, p, T)
  BY <1>1, <1>2, <1>6, <1>00, Zenon DEF MidUnsubscribe
<1>7. CASE MidSuback(v, p, T)
  BY <1>1, <1>2, <1>7, <1>00, Zenon DEF MidSuback
<1>8. CASE MidEnding(v, p, T)
  BY <1>1, <1>2, <1>8, <1>00, Zenon DEF MidEnding
<1>9. p.type # "connect" /\ p.type # "connack"
  OBVIOUS
<1> QED BY <1>3, <1>4, <1>5, <1>6, <1>7, <1>8, <1>9, Zenon DEF Mid

\* where the part read with the block is not taken off.
LEMMA MidGapOpening ==
  ASSUME NEW v, NEW p, NEW T \in Seq(Byte), Mid(v, p, T)
  PROVE  /\ p.type = "connect" => Gap(T, IF pc = "flags" THEN 0 ELSE 10)
         /\ p.type = "connack" => Gap(T, IF pc = "flags" THEN 0 ELSE 2)
<1> DEFINE z == 0
           t == 10
           s == 2
<1>0. z \in Nat /\ t \in Nat /\ s \in Nat
  OBVIOUS
<1>00. z = 0 /\ t = 10 /\ s = 2
  OBVIOUS
<1> HIDE DEF z, t, s
<1>3. /\ \A g, R, N : Spot(g, R, T, z, N) => Gap(T, z)
      /\ \A g, R, N : Spot(g, R, T, t, N) => Gap(T, t)
      /\ \A g, R, N : Spot(g, R, T, s, N) => Gap(T, s)
      /\ \A f, S, A, N : AtProps(f, p, S, A, T, t, N) => Gap(T, t) /\ pc = f
      /\ \A f, S, A, N : AtProps(f, p, S, A, T, s, N) => Gap(T, s) /\ pc = f
  <2>1. \A g, R, N : Spot(g, R, T, z, N) => Gap(T, z)
    BY <1>0, SpotGap
  <2>2. \A g, R, N : Spot(g, R, T, t, N) => Gap(T, t)
    BY <1>0, SpotGap
  <2>3. \A g, R, N : Spot(g, R, T, s, N) => Gap(T, s)
    BY <1>0, SpotGap
  <2>4. \A f, S, A, N : AtProps(f, p, S, A, T, t, N) => Gap(T, t) /\ pc = f
    BY <1>0, PropsGap
  <2>5. \A f, S, A, N : AtProps(f, p, S, A, T, s, N) => Gap(T, s) /\ pc = f
    BY <1>0, PropsGap
  <2> QED BY <2>1, <2>2, <2>3, <2>4, <2>5
<1>4. "flags" \notin {"props", "clientId", "willProps", "willTopic", "willMessage", "user", "password"}
  BY SMT
<1>5. ASSUME p.type = "connect" PROVE (pc = "flags" /\ Gap(T, z)) \/ (pc # "flags" /\ Gap(T, t))
  <2>1. MidConnect(v, p, T)
    BY <1>5, MidOf, Zenon
  <2> QED BY <2>1, <1>3, <1>4, <1>00, Zenon DEF MidConnect
<1>6. ASSUME p.type = "connack" PROVE (pc = "flags" /\ Gap(T, z)) \/ (pc # "flags" /\ Gap(T, s))
  <2>1. MidConnack(v, p, T)
    BY <1>6, MidOf, Zenon
  <2> QED BY <2>1, <1>3, <1>4, <1>00, Zenon DEF MidConnack
<1> QED BY <1>5, <1>6, <1>00, Zenon

-----------------------------------------------------------------------------
\* The invariant, and its steps.

\* The stages of the reader.
LEMMA StageOf ==
  ASSUME Reader
  PROVE  /\ pc = "header" => Idle /\ stream = WireOf(version, inFlight)
         /\ \A v, s : v = version /\ s = inFlight /\ pc \notin {"header", "closed"} =>
              s # <<>> /\ ReadingPacket(v, Kept(v, s[1]), WireOf(v, Tail(s)))
         /\ pc \in {"header", "length", "block", "done", "closed"} \cup Fields
<1>1. ASSUME NEW v, NEW p, NEW T, ReadingPacket(v, p, T)
      PROVE  pc \in {"length", "block", "done"} \cup Fields /\ pc # "header" /\ pc # "closed"
  <2>0. \A x \in Fields : x # "header" /\ x # "closed"
    BY FieldsApart
  <2>1. pc \in {"length", "block", "done"} \cup Fields
    <3>1. Mid(v, p, T) => pc \in Fields
      BY MidPc
    <3> QED BY <1>1, <3>1, Zenon DEF ReadingPacket, Done
  <2> QED BY <2>0, <2>1
<1>2. CASE pc = "header" /\ Idle /\ stream = WireOf(version, inFlight)
  BY <1>2, Zenon
<1>3. CASE \E v \in {version}, s \in {inFlight} : s # <<>> /\ ReadingPacket(v, Kept(v, s[1]), WireOf(v, Tail(s)))
  BY <1>1, <1>3, Zenon
<1>4. CASE pc = "closed"
  <2>1. pc # "header"
    BY <1>4
  <2> QED BY <1>4, <2>1, Zenon
<1> QED BY <1>2, <1>3, <1>4, Zenon DEF Reader

\* Between two steps of the reader, at pc, v being the version and s the packets on their way.
Before(v, s) ==
  /\ version = v /\ inFlight = s /\ v \in {4, 5} /\ s \in Seq(Packets(v)) /\ IInv
  /\ pc \notin {"header", "closed"} =>
       s # <<>> /\ begun /\ (mqttConnected \/ Opens(Kept(v, s[1]))) /\ s[1] \in Packets(v)
         /\ Kept(v, s[1]) \in Packets(v) /\ Kept(v, Kept(v, s[1])) = Kept(v, s[1])
         /\ Tail(s) \in Seq(Packets(v)) /\ WireOf(v, Tail(s)) \in Seq(Byte)
         /\ ReadingPacket(v, Kept(v, s[1]), WireOf(v, Tail(s)))
         /\ known \in {0, v} /\ (known # v => Kept(v, s[1]).type = "connect")
         /\ (pc \notin {"length", "block", "flags"} => known = v)

\* That is what the invariant says.
LEMMA BeforeIs ==
  ASSUME IInv
  PROVE  \E v, s : Before(v, s)
<1>1. PICK v, s : v = version /\ s = inFlight
  OBVIOUS
<1>2. v \in {4, 5} /\ s \in Seq(Packets(v))
  BY <1>1, Zenon DEF IInv, Config, Flight
<1>3. ASSUME pc \notin {"header", "closed"}
      PROVE  s # <<>> /\ begun /\ (mqttConnected \/ Opens(Kept(v, s[1]))) /\ s[1] \in Packets(v)
         /\ Kept(v, s[1]) \in Packets(v) /\ Kept(v, Kept(v, s[1])) = Kept(v, s[1])
               /\ Tail(s) \in Seq(Packets(v)) /\ WireOf(v, Tail(s)) \in Seq(Byte)
               /\ ReadingPacket(v, Kept(v, s[1]), WireOf(v, Tail(s)))
               /\ known \in {0, v} /\ (known # v => Kept(v, s[1]).type = "connect")
               /\ (pc \notin {"length", "block", "flags"} => known = v)
  <2>1. s # <<>> /\ ReadingPacket(v, Kept(v, s[1]), WireOf(v, Tail(s)))
    BY <1>1, <1>3, StageOf, Zenon DEF IInv
  <2>2. s[1] \in Packets(v) /\ Tail(s) \in Seq(Packets(v)) /\ WireOf(v, Tail(s)) \in Seq(Byte)
    BY <1>2, <2>1, WireMore, Zenon
  <2>8. /\ Kept(v, s[1]) \in Packets(v) /\ Kept(v, Kept(v, s[1])) = Kept(v, s[1])
        /\ Kept(v, s[1]).type = s[1].type /\ (Opens(Kept(v, s[1])) <=> Opens(s[1]))
    BY <1>2, <2>2, KeptIs, Zenon
  <2>3. begun /\ (mqttConnected \/ Opens(s[1]))
    BY <1>1, <2>1, Zenon DEF IInv, Flight
  <2>4. known = v \/ (known = 0 /\ asServer /\ ~mqttConnected /\ pc \in {"header", "length", "block", "flags"})
    BY <1>1, Zenon DEF IInv, Flight
  <2>5. asServer => s[1].type # "connack"
    <3>1. 1 \in 1..Len(s)
      BY <1>2, <2>1
    <3> QED BY <1>1, <3>1, Zenon DEF IInv, Flight
  <2>6. known # v => s[1].type = "connect"
    BY <2>3, <2>4, <2>5, Zenon DEF Opens
  <2>7. pc \notin {"length", "block", "flags"} => known = v
    BY <1>3, <2>4
  <2> QED BY <2>1, <2>2, <2>3, <2>4, <2>6, <2>7, <2>8, Zenon
<1> QED BY <1>1, <1>2, <1>3, Zenon DEF Before

\* The invariant holds initially.
LEMMA IInvInit ==
  ASSUME Init
  PROVE  IInv
<1>1. Config
  BY PacketsAssumption DEF Init, Config, PacketsAssumption
<1>2. Flight
  <2> DEFINE Q == Packets(version)
             E == <<>>
  <2>1. E \in Seq(Q) /\ Len(E) = 0 /\ 1..0 = {}
    OBVIOUS
  <2>2. inFlight = E
    BY DEF Init
  <2> HIDE DEF Q, E
  <2>3. inFlight \in Seq(Q) /\ 1..Len(inFlight) = {}
    BY <2>1, <2>2
  <2>4. known = version \/ (known = 0 /\ asServer)
    BY DEF Init
  <2>5. inFlight = <<>> /\ pc = "header" /\ mqttConnected = FALSE /\ begun = FALSE
    BY DEF Init
  <2> QED BY <2>3, <2>4, <2>5 DEF Flight, Q
<1>3. Reader
  BY WireEmpty, Zenon DEF Init, Reader, Idle
<1> QED BY <1>1, <1>2, <1>3 DEF IInv

\* What a step of the reader leaves of the invariant that only the sender changes.
LEMMA ReaderOnly ==
  ASSUME IInv, UNCHANGED <<config, sender, mqttConnected>>, begun,
         NEW v, v = version,
         known' = v \/ (known' = 0 /\ known = 0 /\ pc' \in {"header", "length", "block", "flags"}),
         Reader'
  PROVE  IInv'
<1>1. Config'
  BY DEF IInv, Config, config
<1>2. version' = version /\ asServer' = asServer /\ begun' = begun /\ inFlight' = inFlight
      /\ mqttConnected' = mqttConnected
  BY DEF config, sender
<1>3. Flight
  BY DEF IInv
<1>4. /\ inFlight' \in Seq(Packets(version'))
      /\ \A k \in 1..Len(inFlight') : inFlight'[k].type # (IF asServer' THEN "connack" ELSE "connect")
      /\ mqttConnected' \/ (inFlight' # <<>> /\ Opens(inFlight'[1]))
  <2>1. PICK s, a, c, w : s = inFlight /\ a = asServer /\ c = mqttConnected /\ w = version
    OBVIOUS
  <2>2. /\ s \in Seq(Packets(w))
        /\ \A k \in 1..Len(s) : s[k].type # (IF a THEN "connack" ELSE "connect")
        /\ c \/ (s # <<>> /\ Opens(s[1]))
    BY <1>3, <2>1, Zenon DEF Flight
  <2>3. inFlight' = s /\ asServer' = a /\ mqttConnected' = c /\ version' = w
    BY <1>2, <2>1
  <2> QED BY <2>2, <2>3
<1>5. known' = version' \/ (known' = 0 /\ asServer' /\ ~mqttConnected' /\ pc' \in {"header", "length", "block", "flags"})
  <2>1. known = 0 => asServer /\ ~mqttConnected
    <3>1. version # 0
      BY DEF IInv, Config
    <3> QED BY <1>3, <3>1 DEF Flight
  <2>2. version' = v
    BY <1>2
  <2>3. CASE known' = v
    BY <2>2, <2>3
  <2>4. CASE known' = 0 /\ known = 0 /\ pc' \in {"header", "length", "block", "flags"}
    BY <1>2, <2>1, <2>4
  <2> QED BY <2>3, <2>4
<1>6. Flight'
  BY <1>2, <1>4, <1>5, Zenon DEF Flight
<1> QED BY <1>1, <1>6, Zenon DEF IInv

\* A step of the reader that hands nothing over.
Quietly == IInv' /\ version' = version /\ inFlight' = inFlight /\ last' = last

\* The first of the packets on their way is still read.
LEMMA ReadingNext ==
  ASSUME NEW v, NEW s, version' = v, inFlight' = s, s # <<>>, ReadingPacket(v, Kept(v, s[1]), WireOf(v, Tail(s)))'
  PROVE  Reader'
BY Zenon DEF Reader

\* Reading the first byte keeps the invariant.
LEMMA TypeKeeps ==
  ASSUME IInv, ReadControlPacketType
  PROVE  Quietly
<1>1. PICK v, s : Before(v, s)
  BY BeforeIs, Zenon
<1>2. pc = "header"
  BY Zenon DEF ReadControlPacketType
<1>3. version = v /\ inFlight = s /\ v \in {4, 5} /\ s \in Seq(Packets(v)) /\ Idle /\ stream = WireOf(v, s)
  <2>1. version = v /\ inFlight = s /\ v \in {4, 5} /\ s \in Seq(Packets(v))
    BY <1>1, Zenon DEF Before
  <2> QED BY <1>2, <2>1, StageOf, Zenon DEF IInv
<1>4. /\ s # <<>> /\ ReadingPacket(v, Kept(v, s[1]), WireOf(v, Tail(s)))' /\ pc' = "length"
      /\ UNCHANGED <<config, sender, known, mqttConnected, last>>
  BY <1>3, TypeStep
<1>5. UNCHANGED <<config, sender, mqttConnected>> /\ known' = known /\ version' = v /\ inFlight' = s /\ last' = last
  BY <1>3, <1>4 DEF config, sender
<1>6. begun
  BY <1>3, <1>4, Zenon DEF IInv, Flight
<1>7. known' = v \/ (known' = 0 /\ known = 0 /\ pc' \in {"header", "length", "block", "flags"})
  <2>1. known = v \/ known = 0
    BY <1>3, Zenon DEF IInv, Flight
  <2> QED BY <1>4, <1>5, <2>1
<1>8. Reader'
  BY <1>4, <1>5, ReadingNext
<1>9. IInv'
  BY <1>3, <1>5, <1>6, <1>7, <1>8, ReaderOnly
<1> QED BY <1>3, <1>5, <1>9 DEF Quietly

\* Reading the remaining length keeps the invariant.
LEMMA LengthKeeps ==
  ASSUME IInv, HandleRemainingLength
  PROVE  Quietly
<1>1. PICK v, s : Before(v, s)
  BY BeforeIs, Zenon
<1> DEFINE p == Kept(v, s[1])
           T == WireOf(v, Tail(s))
<1>2. pc = "length"
  BY Zenon DEF HandleRemainingLength
<1>3. /\ version = v /\ inFlight = s /\ v \in {4, 5} /\ s # <<>> /\ begun /\ (mqttConnected \/ Opens(p))
      /\ p \in Packets(v) /\ T \in Seq(Byte) /\ ReadingPacket(v, p, T)
      /\ known \in {0, v} /\ (known # v => p.type = "connect")
  <2>1. pc \notin {"header", "closed"}
    BY <1>2
  <2> QED BY <1>1, <2>1, Zenon DEF Before
<1>4. Idle /\ header = HeaderOf(p) /\ stream = VarBytes(Len(Body(v, p))) \o (Body(v, p) \o T)
  <2>1. pc # "block" /\ pc # "done" /\ pc \notin Fields
    <3>1. "length" \notin Fields
      BY FieldsApart
    <3> QED BY <1>2, <3>1
  <2>2. ~Mid(v, p, T) /\ ~Done(v, p, T)
    <3>1. Mid(v, p, T) => pc \in Fields
      BY MidPc
    <3> QED BY <2>1, <3>1, Zenon DEF Done
  <2> HIDE DEF p, T
  <2> QED BY <1>3, <2>1, <2>2, Zenon DEF ReadingPacket
<1> HIDE DEF p, T
<1>5. /\ ReadingPacket(v, p, T)' /\ (pc' = "block" \/ (pc' = "done" /\ ~Opens(p)))
      /\ UNCHANGED <<config, sender, known, mqttConnected, header, last>>
  BY <1>2, <1>3, <1>4, LengthStep
<1>6. UNCHANGED <<config, sender, mqttConnected>> /\ known' = known /\ version' = v /\ inFlight' = s /\ last' = last
  BY <1>3, <1>5 DEF config, sender
<1>7. known' = v \/ (known' = 0 /\ known = 0 /\ pc' \in {"header", "length", "block", "flags"})
  <2>1. CASE known = v
    BY <1>6, <2>1
  <2>2. CASE known = 0 /\ known # v
    <3>1. Opens(p)
      BY <1>3, <2>2, Zenon DEF Opens
    <3>2. pc' = "block"
      BY <1>5, <3>1
    <3> QED BY <1>6, <2>2, <3>2
  <2> QED BY <1>3, <2>1, <2>2
<1>8. Reader'
  BY <1>3, <1>5, <1>6, ReadingNext DEF p, T
<1>9. IInv'
  BY <1>3, <1>6, <1>7, <1>8, ReaderOnly
<1> QED BY <1>3, <1>6, <1>9 DEF Quietly

\* Reading the block keeps the invariant.
LEMMA BlockKeeps ==
  ASSUME IInv, ProcessHeader
  PROVE  Quietly
<1>1. PICK v, s : Before(v, s)
  BY BeforeIs, Zenon
<1> DEFINE p == Kept(v, s[1])
           T == WireOf(v, Tail(s))
<1>2. pc = "block"
  BY Zenon DEF ProcessHeader
<1>3. /\ version = v /\ inFlight = s /\ v \in {4, 5} /\ s # <<>> /\ begun
      /\ p \in Packets(v) /\ T \in Seq(Byte) /\ ReadingPacket(v, p, T)
      /\ known \in {0, v} /\ (known # v => p.type = "connect")
  <2>1. pc \notin {"header", "closed"}
    BY <1>2
  <2> QED BY <1>1, <2>1, Zenon DEF Before
<1>4. Idle /\ header = HeaderOf(p) /\ rem = Len(Body(v, p)) /\ rem # 0 /\ stream = Body(v, p) \o T
  <2>1. pc # "length" /\ pc # "done" /\ pc \notin Fields
    <3>1. "block" \notin Fields
      BY FieldsApart
    <3> QED BY <1>2, <3>1
  <2>2. ~Mid(v, p, T) /\ ~Done(v, p, T)
    <3>1. Mid(v, p, T) => pc \in Fields
      BY MidPc
    <3> QED BY <2>1, <3>1, Zenon DEF Done
  <2> HIDE DEF p, T
  <2> QED BY <1>3, <2>1, <2>2, Zenon DEF ReadingPacket
<1> HIDE DEF p, T
<1>0. packetLimit \in Nat
  BY DEF IInv, Config
<1>5. /\ Mid(v, p, T)' /\ (p.type \in {"connect", "connack"} => pc' = "flags")
      /\ UNCHANGED <<config, sender, known, mqttConnected, header, last>>
  BY <1>0, <1>2, <1>3, <1>4, BlockStep
<1>6. UNCHANGED <<config, sender, mqttConnected>> /\ known' = known /\ version' = v /\ inFlight' = s /\ last' = last
      /\ header' = header
  BY <1>3, <1>5 DEF config, sender
<1>7. known' = v \/ (known' = 0 /\ known = 0 /\ pc' \in {"header", "length", "block", "flags"})
  <2>1. CASE known = v
    BY <1>6, <2>1
  <2>2. CASE known = 0 /\ known # v
    <3>2. pc' = "flags"
      BY <1>3, <1>5, <2>2
    <3> QED BY <1>6, <2>2, <3>2
  <2> QED BY <1>3, <2>1, <2>2
<1>8. Reader'
  <2>1. ReadingPacket(v, p, T)'
    BY <1>4, <1>5, <1>6, Zenon DEF ReadingPacket
  <2> QED BY <1>3, <1>6, <2>1, ReadingNext DEF p, T
<1>9. IInv'
  BY <1>3, <1>6, <1>7, <1>8, ReaderOnly
<1> QED BY <1>3, <1>6, <1>9 DEF Quietly

\* Every read of a packet behind its block keeps the invariant.
LEMMA CoroutineKeeps ==
  ASSUME IInv, Coroutine
  PROVE  Quietly
<1>1. PICK v, s : Before(v, s)
  BY BeforeIs, Zenon
<1> DEFINE p == Kept(v, s[1])
           T == WireOf(v, Tail(s))
<1>2. pc \in Fields /\ pc # "header" /\ pc # "length" /\ pc # "block" /\ pc # "done" /\ pc # "closed"
  <2>1. pc \in Fields
    BY CoroutinePc
  <2> QED BY <2>1, FieldsApart
<1>3. /\ version = v /\ inFlight = s /\ v \in {4, 5} /\ s # <<>> /\ begun
      /\ p \in Packets(v) /\ T \in Seq(Byte) /\ ReadingPacket(v, p, T) /\ Kept(v, p) = p
      /\ known \in {0, v} /\ (known # v => p.type = "connect")
      /\ (pc \notin {"length", "block", "flags"} => known = v)
  <2>1. pc \notin {"header", "closed"}
    BY <1>2
  <2> QED BY <1>1, <2>1, Zenon DEF Before
<1>4. header = HeaderOf(p) /\ Mid(v, p, T)
  <2> HIDE DEF p, T
  <2> QED BY <1>2, <1>3, Zenon DEF ReadingPacket, Done
<1> HIDE DEF p, T
<1>0. propsLimit \in Nat /\ (pc # "flags" => known = v) /\ (known = v \/ p.type = "connect")
  <2>1. propsLimit \in Nat
    BY DEF IInv, Config
  <2> QED BY <1>2, <1>3, <2>1
<1>5. /\ Mid(v, p, T)' \/ Done(v, p, T)'
      /\ known' = v /\ UNCHANGED <<config, sender, mqttConnected, header, last>>
  BY <1>0, <1>3, <1>4, MidStep
<1>6. UNCHANGED <<config, sender, mqttConnected>> /\ version' = v /\ inFlight' = s /\ last' = last
      /\ header' = header
  BY <1>3, <1>5 DEF config, sender
<1>7. known' = v \/ (known' = 0 /\ known = 0 /\ pc' \in {"header", "length", "block", "flags"})
  BY <1>5
<1>8. Reader'
  <2>1. ReadingPacket(v, p, T)'
    BY <1>4, <1>5, <1>6, Zenon DEF ReadingPacket
  <2> QED BY <1>3, <1>6, <2>1, ReadingNext DEF p, T
<1>9. IInv'
  BY <1>3, <1>6, <1>7, <1>8, ReaderOnly
<1> QED BY <1>3, <1>6, <1>9 DEF Quietly

\* Handing over a packet keeps the invariant, and is one of its readings.
LEMMA HandOverKeeps ==
  ASSUME IInv, HandOver
  PROVE  IInv' /\ inFlight # <<>> /\ inFlight' = Tail(inFlight) /\ version' = version /\ last' \in ReadingsOf(version, Head(inFlight))
<1>1. PICK v, s : Before(v, s)
  BY BeforeIs, Zenon
<1>2. pc = "done"
  BY Zenon DEF HandOver
<1>3. /\ version = v /\ inFlight = s /\ v \in {4, 5} /\ s \in Seq(Packets(v)) /\ s # <<>> /\ begun
      /\ (mqttConnected \/ Opens(s[1]))
      /\ s[1] \in Packets(v) /\ ReadingPacket(v, Kept(v, s[1]), WireOf(v, Tail(s)))
      /\ (pc \notin {"length", "block", "flags"} => known = v)
  <2>1. pc \notin {"header", "closed"}
    BY <1>2
  <2>2. /\ version = v /\ inFlight = s /\ v \in {4, 5} /\ s \in Seq(Packets(v)) /\ s # <<>> /\ begun
        /\ (mqttConnected \/ Opens(Kept(v, s[1])))
        /\ s[1] \in Packets(v) /\ ReadingPacket(v, Kept(v, s[1]), WireOf(v, Tail(s)))
        /\ (pc \notin {"length", "block", "flags"} => known = v)
    BY <1>1, <2>1, Zenon DEF Before
  <2>3. Opens(Kept(v, s[1])) <=> Opens(s[1])
    BY <2>2, KeptIs, Zenon
  <2> QED BY <2>2, <2>3, Zenon
<1>4. header = HeaderOf(Kept(v, s[1])) /\ Done(v, Kept(v, s[1]), WireOf(v, Tail(s))) /\ known = v
  <2>1. pc # "length" /\ pc # "block" /\ pc \notin Fields /\ pc \notin {"length", "block", "flags"}
    <3>1. "done" \notin Fields
      BY FieldsApart
    <3> QED BY <1>2, <3>1
  <2>2. ~Mid(v, Kept(v, s[1]), WireOf(v, Tail(s)))
    BY <2>1, MidPc
  <2> QED BY <1>3, <2>1, <2>2, Zenon DEF ReadingPacket
<1>5. /\ Idle' /\ stream' = WireOf(v, Tail(s)) /\ inFlight' = Tail(s) /\ Tail(s) \in Seq(Packets(v))
      /\ last' \in ReadingsOf(v, s[1]) /\ known' = known /\ UNCHANGED <<config, begun, ended>>
      /\ pc' = (IF s[1].type = "disconnect" THEN "closed" ELSE "header")
      /\ mqttConnected' = (mqttConnected \/ s[1].type \in {"connect", "connack"})
  BY <1>3, <1>4, HandOverStep
<1>6. version' = v /\ asServer' = asServer /\ begun' /\ mqttConnected' /\ known' = v
  BY <1>3, <1>4, <1>5 DEF config, Opens
<1>7. Config'
  BY <1>5 DEF IInv, Config, config
<1>8. \A k \in 1..Len(Tail(s)) : Tail(s)[k].type # (IF asServer THEN "connack" ELSE "connect")
  <2>1. \A k \in 1..Len(s) : s[k].type # (IF asServer THEN "connack" ELSE "connect")
    BY <1>3, Zenon DEF IInv, Flight
  <2>2. \A k \in 1..Len(Tail(s)) : k + 1 \in 1..Len(s) /\ Tail(s)[k] = s[k + 1]
    BY <1>3
  <2> QED BY <2>1, <2>2, Zenon
<1>9. Flight'
  <2>1. PICK t, a : t = Tail(s) /\ a = asServer
    OBVIOUS
  <2>2. t \in Seq(Packets(v)) /\ \A k \in 1..Len(t) : t[k].type # (IF a THEN "connack" ELSE "connect")
    BY <1>5, <1>8, <2>1
  <2>3. inFlight' = t /\ asServer' = a /\ version' = v
    BY <1>5, <1>6, <2>1
  <2>4. inFlight' \in Seq(Packets(version'))
        /\ \A k \in 1..Len(inFlight') : inFlight'[k].type # (IF asServer' THEN "connack" ELSE "connect")
    BY <2>2, <2>3
  <2> QED BY <1>6, <2>4 DEF Flight
<1>10. Reader'
  <2>1. CASE s[1].type = "disconnect"
    BY <1>5, <2>1, Zenon DEF Reader
  <2>2. CASE s[1].type # "disconnect"
    <3>1. pc' = "header" /\ Idle' /\ stream' = WireOf(version', inFlight')
      BY <1>5, <1>6, <2>2, Zenon
    <3> QED BY <3>1, Zenon DEF Reader
  <2> QED BY <2>1, <2>2
<1>11. Head(s) = s[1]
  BY <1>3
<1>12. inFlight # <<>> /\ inFlight' = Tail(inFlight) /\ version' = version /\ last' \in ReadingsOf(version, Head(inFlight))
  BY <1>3, <1>5, <1>6, <1>11
<1>13. IInv'
  BY <1>7, <1>9, <1>10, Zenon DEF IInv
<1> QED BY <1>12, <1>13

\* Every step of the reader.
LEMMA ReadKeeps ==
  ASSUME IInv, Read
  PROVE  Quietly \/ (IInv' /\ inFlight # <<>> /\ inFlight' = Tail(inFlight) /\ version' = version /\ last' \in ReadingsOf(version, Head(inFlight)))
<1>1. CASE HandOver
  BY <1>1, HandOverKeeps
<1>2. CASE Coroutine
  BY <1>2, CoroutineKeeps
<1>3. CASE ReadControlPacketType
  BY <1>3, TypeKeeps
<1>4. CASE HandleRemainingLength
  BY <1>4, LengthKeeps
<1>5. CASE ProcessHeader
  BY <1>5, BlockKeeps
<1> QED BY <1>1, <1>2, <1>3, <1>4, <1>5, Zenon DEF Read, Coroutine

\* Every step of the sender.
LEMMA SendKeeps ==
  ASSUME IInv, NEW k \in DOMAIN Sends, Send(Sends[k]) \/ SendRestored(Sends[k])
  PROVE  /\ IInv' /\ inFlight' = Append(inFlight, Sends[k]) /\ inFlight \in Seq(Packets(version))
         /\ Sends[k] \in Packets(version) /\ last' = Nobody /\ version' = version
<1>1. PICK p : p = Sends[k]
  OBVIOUS
<1>2. p \in Packets(version) /\ p.type # (IF asServer THEN "connack" ELSE "connect")
  BY <1>1, SentAre DEF IInv
<1>3. Send(p)
  <2>1. CASE Send(Sends[k])
    BY <1>1, <2>1, Zenon
  <2>2. CASE SendRestored(Sends[k])
    <3>1. SendRestored(p)
      BY <1>1, <2>2, Zenon
    <3>2. version \in {4, 5}
      BY DEF IInv, Config
    <3> QED BY <1>2, <3>1, <3>2, RestoredSame
  <2> QED BY <2>1, <2>2
<1>4. /\ IInv' /\ inFlight' = Append(inFlight, p) /\ inFlight \in Seq(Packets(version)) /\ last' = Nobody
      /\ version' = version
  BY <1>2, <1>3, SendStep
<1> QED BY <1>1, <1>2, <1>4

\* The wire holds bytes.
LEMMA StreamOf ==
  ASSUME NEW CONSTANT v \in {4, 5}, NEW CONSTANT p \in Packets(v), NEW CONSTANT T \in Seq(Byte), ReadingPacket(v, p, T)
  PROVE  stream \in Seq(Byte)
<1> DEFINE b == Body(v, p)
           w == VarBytes(Len(b))
<1>1. b \in Seq(Byte) /\ w \in Seq(Byte)
  BY WireForm, Zenon
<1>2. b \o T \in Seq(Byte) /\ w \o (b \o T) \in Seq(Byte)
  <2> HIDE DEF b, w
  <2>1. Cat(b, T) \in Seq(Byte) /\ Cat(w, Cat(b, T)) \in Seq(Byte)
    <3>1. Cat(b, T) \in Seq(Byte)
      BY <1>1, CatJoins
    <3> QED BY <1>1, <3>1, CatJoins
  <2> QED BY <2>1, Zenon DEF Cat
<1>3. Done(v, p, T) => stream \in Seq(Byte)
  BY DoneEnds
<1>4. Mid(v, p, T) => stream \in Seq(Byte)
  <2> SUFFICES ASSUME Mid(v, p, T) PROVE stream \in Seq(Byte)
    OBVIOUS
  <2>1. CASE p.type \notin {"connect", "connack"}
    BY <2>1, MidGap DEF Gap
  <2>2. CASE p.type \in {"connect", "connack"}
    <3>1. /\ p.type = "connect" => Gap(T, IF pc = "flags" THEN 0 ELSE 10)
          /\ p.type = "connack" => Gap(T, IF pc = "flags" THEN 0 ELSE 2)
      BY MidGapOpening
    <3> QED BY <2>2, <3>1 DEF Gap
  <2> QED BY <2>1, <2>2
<1> QED BY <1>2, <1>3, <1>4, Zenon DEF ReadingPacket

\* A stuttering step.
LEMMA IInvStutters ==
  ASSUME IInv, UNCHANGED vars
  PROVE  IInv' /\ UNCHANGED <<version, inFlight, last>>
<1>1. /\ version' = version /\ asServer' = asServer /\ packetLimit' = packetLimit /\ propsLimit' = propsLimit
      /\ begun' = begun /\ inFlight' = inFlight /\ stream' = stream /\ pc' = pc /\ known' = known
      /\ mqttConnected' = mqttConnected /\ header' = header /\ rem' = rem /\ left' = left /\ buf' = buf
      /\ got' = got /\ last' = last /\ ended' = ended
  BY DEF vars, config, sender, reader
<1>2. Config'
  BY <1>1 DEF IInv, Config
<1>3. Flight'
  <2>1. PICK s, a, c, w, b, k, q : /\ s = inFlight /\ a = asServer /\ c = mqttConnected /\ w = version /\ b = begun
                                   /\ k = known /\ q = pc
    OBVIOUS
  <2>2. /\ s \in Seq(Packets(w))
        /\ \A j \in 1..Len(s) : s[j].type # (IF a THEN "connack" ELSE "connect")
        /\ ~b => s = <<>> /\ q = "header" /\ ~c
        /\ c \/ ~b \/ (s # <<>> /\ Opens(s[1]))
        /\ k = w \/ (k = 0 /\ a /\ ~c /\ q \in {"header", "length", "block", "flags"})
    BY <2>1, Zenon DEF IInv, Flight
  <2>3. inFlight' = s /\ asServer' = a /\ mqttConnected' = c /\ version' = w /\ begun' = b /\ known' = k /\ pc' = q
    BY <1>1, <2>1
  <2> QED BY <2>2, <2>3 DEF Flight
<1>4. Reader'
  <2>1. PICK v, s : Before(v, s)
    BY BeforeIs, Zenon
  <2>2. version' = v /\ inFlight' = s
    BY <1>1, <2>1 DEF Before
  <2>3. CASE pc = "header"
    <3>1. Idle' /\ stream' = WireOf(version', inFlight')
      <4>1. Idle /\ stream = WireOf(v, s)
        BY <2>1, <2>3, StageOf, Zenon DEF IInv, Before
      <4> QED BY <1>1, <2>2, <4>1 DEF Idle
    <3> QED BY <1>1, <2>3, <3>1 DEF Reader
  <2>4. CASE pc = "closed"
    BY <1>1, <2>4, Zenon DEF Reader
  <2>5. CASE pc \notin {"header", "closed"}
    <3> DEFINE p == Kept(v, s[1])
               T == WireOf(v, Tail(s))
               e == <<>>
    <3>1. s # <<>> /\ p \in Packets(v) /\ T \in Seq(Byte) /\ ReadingPacket(v, p, T) /\ v \in {4, 5}
      BY <2>1, <2>5, Zenon DEF Before
    <3> HIDE DEF p, T
    <3>2. e \in Seq(Byte) /\ T = T \o e
      <4>1. T \o e = T
        BY <3>1, WiredEmpty, Zenon
      <4> QED BY <4>1
    <3>3. Grows(e)
      <4>1. \A x \in Seq(Byte) : x \o e = x
        BY WiredEmpty, Zenon
      <4>2. stream \in Seq(Byte)
        <5>1. ReadingPacket(v, p, T) => stream \in Seq(Byte)
          BY <3>1, StreamOf
        <5> QED BY <3>1, <5>1
      <4> QED BY <1>1, <4>1, <4>2 DEF Grows
    <3>4. VarBytes(Len(Body(v, p))) \in Seq(Byte) /\ Body(v, p) \in Seq(Byte)
      BY <3>1, WireForm, Zenon
    <3> HIDE DEF e
    <3>5. ReadingPacket(v, p, T)'
      BY <1>1, <3>1, <3>2, <3>3, <3>4, ReadingGrows
    <3> QED BY <2>2, <3>1, <3>5, ReadingNext DEF p, T
  <2> QED BY <2>3, <2>4, <2>5
<1> QED BY <1>1, <1>2, <1>3, <1>4 DEF IInv

-----------------------------------------------------------------------------
\* The theorems.

\* Every step keeps the invariant.
LEMMA IInvNext ==
  ASSUME IInv, [Next]_vars
  PROVE  IInv'
<1>1. CASE Read
  BY <1>1, ReadKeeps DEF Quietly
<1>2. CASE \E k \in DOMAIN Sends : Send(Sends[k]) \/ SendRestored(Sends[k])
  BY <1>2, SendKeeps
<1>3. CASE UNCHANGED vars
  BY <1>3, IInvStutters
<1> QED BY <1>1, <1>2, <1>3 DEF Next

\* It says that nothing is refused,
LEMMA NotRefused ==
  ASSUME IInv
  PROVE  NeverRefused
<1>1. pc \in {"header", "length", "block", "done", "closed"} \cup Fields
  BY StageOf DEF IInv
<1>2. "refused" \notin Fields
  BY FieldsApart
<1> QED BY <1>1, <1>2 DEF NeverRefused

\* Two names of what is on the wire.
LEMMA WireIs ==
  ASSUME NEW s
  PROVE  OnTheWire(s) = WireOf(version, s)
BY DEF OnTheWire, WireOf

\* that the reader begins and ends at the boundary of a packet,
LEMMA AtBoundary ==
  ASSUME IInv
  PROVE  BoundaryKept
<1>1. PICK v, s : Before(v, s)
  BY BeforeIs, Zenon
<1>2. version = v /\ inFlight = s
  BY <1>1 DEF Before
<1>3. ASSUME pc = "header" PROVE stream = OnTheWire(inFlight)
  <2>1. stream = WireOf(version, inFlight)
    BY <1>3, StageOf, Zenon DEF IInv
  <2> QED BY <2>1, WireIs
<1>4. ASSUME pc = "done" PROVE buf = <<>> /\ stream = OnTheWire(Tail(inFlight))
  <2> DEFINE p == Kept(v, s[1])
             T == WireOf(v, Tail(s))
  <2>1. T \in Seq(Byte) /\ ReadingPacket(v, p, T)
    <3>1. pc \notin {"header", "closed"}
      BY <1>4
    <3> QED BY <1>1, <3>1, Zenon DEF Before
  <2> HIDE DEF p, T
  <2>2. pc # "length" /\ pc # "block" /\ pc \notin Fields
    BY <1>4, FieldsApart
  <2>3. Done(v, p, T)
    <3>1. Mid(v, p, T) => pc \in Fields
      BY MidPc
    <3> QED BY <2>1, <2>2, <3>1, Zenon DEF ReadingPacket
  <2>4. buf = <<>> /\ stream = T
    BY <2>1, <2>3, DoneEnds
  <2> QED BY <1>2, <2>4, WireIs DEF T
<1> QED BY <1>3, <1>4 DEF BoundaryKept

\* that every byte taken off the wire was counted,
LEMMA IsCounted ==
  ASSUME IInv
  PROVE  Counted
<1> SUFFICES ASSUME pc \in Fields \cup {"block", "done"} PROVE Counted
  BY DEF Counted
<1>1. PICK v, s : Before(v, s)
  BY BeforeIs, Zenon
<1> DEFINE p == Kept(v, s[1])
           T == WireOf(v, Tail(s))
           x == CASE TypeOf(header) = "connect" -> 10 [] TypeOf(header) = "connack" -> 2 [] OTHER -> 0
           y == IF pc \in {"block", "flags"} THEN 0 ELSE x
<1>2. v \in {4, 5} /\ p \in Packets(v) /\ T \in Seq(Byte) /\ ReadingPacket(v, p, T) /\ version = v /\ inFlight = s
  <2>1. pc \notin {"header", "closed"}
    BY FieldsApart
  <2> QED BY <1>1, <2>1, Zenon DEF Before
<1>3. SUFFICES rem = (Len(buf) + Len(stream) - Len(T)) + y
  BY <1>2, WireIs DEF Counted, Reading
<1> HIDE DEF p, T
<1>4. TypeOf(header) = p.type
  <2>1. header = HeaderOf(p)
    BY <1>2, Zenon DEF ReadingPacket
  <2> QED BY <1>2, <2>1, WireForm, Zenon
<1>5. /\ p.type = "connect" => x = 10
      /\ p.type = "connack" => x = 2
      /\ p.type \notin {"connect", "connack"} => x = 0
  BY <1>4
<1> HIDE DEF x
<1>6. CASE pc = "block"
  <2> DEFINE b == Body(v, p)
  <2>1. buf = <<>> /\ rem = Len(b) /\ stream = b \o T
    <3>1. pc # "length" /\ pc # "done" /\ pc \notin Fields
      BY <1>6, FieldsApart
    <3>2. Mid(v, p, T) => pc \in Fields
      BY MidPc
    <3> QED BY <1>2, <3>1, <3>2, Zenon DEF ReadingPacket, Done, Idle
  <2>2. b \in Seq(Byte)
    BY <1>2, WireForm, Zenon
  <2> HIDE DEF b
  <2>3. Len(b \o T) = Len(b) + Len(T) /\ Len(b) \in Nat /\ Len(T) \in Nat
    BY <1>2, <2>2, OfJoined
  <2>4. Len(buf) = 0 /\ Len(stream) = Len(b) + Len(T) /\ y = 0
    BY <1>6, <2>1, <2>3
  <2> DEFINE m == Len(b)
             n == Len(T)
             i == Len(buf)
             j == Len(stream)
  <2>5. m \in Nat /\ n \in Nat /\ i = 0 /\ j = m + n /\ y = 0 /\ rem = m
    BY <2>1, <2>3, <2>4
  <2> HIDE DEF m, n, i, j, y
  <2>6. rem = (i + j - n) + y
    BY <2>5
  <2> QED BY <2>6 DEF i, j, n
<1>7. CASE pc = "done"
  <2>1. Done(v, p, T)
    <3>1. pc # "length" /\ pc # "block" /\ pc \notin Fields
      BY <1>7, FieldsApart
    <3>2. Mid(v, p, T) => pc \in Fields
      BY MidPc
    <3> QED BY <1>2, <3>1, <3>2, Zenon DEF ReadingPacket
  <2>2. buf = <<>> /\ stream = T /\ rem = Uncounted(p)
    BY <1>2, <2>1, DoneEnds
  <2>3. Uncounted(p) = x
    BY <1>5 DEF Uncounted
  <2>4. y = x
    BY <1>7
  <2>5. Len(T) \in Nat /\ x \in Nat /\ Len(buf) = 0
    <3>1. x \in Nat
      BY <1>5
    <3> QED BY <1>2, <2>2, <3>1
  <2> DEFINE n == Len(T)
             i == Len(buf)
             j == Len(stream)
  <2>6. n \in Nat /\ x \in Nat /\ i = 0 /\ j = n /\ rem = x /\ y = x
    BY <2>2, <2>3, <2>4, <2>5
  <2> HIDE DEF n, i, j, y
  <2>7. rem = (i + j - n) + y
    BY <2>6
  <2> QED BY <2>7 DEF i, j, n
<1>8. CASE pc \in Fields
  <2>1. Mid(v, p, T) /\ pc # "block"
    <3>1. pc # "length" /\ pc # "block" /\ pc # "done"
      BY <1>8, FieldsApart
    <3> QED BY <1>2, <3>1, Zenon DEF ReadingPacket, Done
  <2>2. y = IF pc = "flags" THEN 0 ELSE x
    BY <2>1
  <2>3. CASE p.type \notin {"connect", "connack"}
    <3>1. Gap(T, 0)
      BY <1>2, <2>1, <2>3, MidGap
    <3>2. y = 0
      BY <1>5, <2>2, <2>3
    <3> HIDE DEF y
    <3> QED BY <3>1, <3>2, Zenon DEF Gap
  <2>4. CASE p.type \in {"connect", "connack"}
    <3>1. /\ p.type = "connect" => Gap(T, IF pc = "flags" THEN 0 ELSE 10)
          /\ p.type = "connack" => Gap(T, IF pc = "flags" THEN 0 ELSE 2)
      BY <1>2, <2>1, MidGapOpening
    <3>2. Gap(T, y)
      BY <1>5, <2>2, <2>4, <3>1
    <3> HIDE DEF y
    <3> QED BY <3>2, Zenon DEF Gap
  <2> QED BY <2>3, <2>4
<1> QED BY <1>6, <1>7, <1>8

\* and that a step of the reader and the sender is a step of the channel, or none.
LEMMA ChannelNext ==
  ASSUME IInv, [Next]_vars
  PROVE  [Channel!Put \/ Channel!Take]_<<version, inFlight, last>>
<1>1. CASE Read
  <2>1. CASE Quietly
    BY <2>1 DEF Quietly
  <2>2. CASE inFlight # <<>> /\ inFlight' = Tail(inFlight) /\ version' = version
                /\ last' \in ReadingsOf(version, Head(inFlight))
    <3>1. Channel!Take
      BY <2>2, Zenon DEF Channel!Take
    <3> QED BY <3>1
  <2> QED BY <1>1, <2>1, <2>2, ReadKeeps
<1>2. CASE \E k \in DOMAIN Sends : Send(Sends[k]) \/ SendRestored(Sends[k])
  <2>1. PICK k \in DOMAIN Sends : Send(Sends[k]) \/ SendRestored(Sends[k])
    BY <1>2
  <2>2. PICK s, p, v : s = inFlight /\ p = Sends[k] /\ v = version
    OBVIOUS
  <2>3. inFlight' = Append(s, p) /\ s \in Seq(Packets(v)) /\ p \in Packets(v) /\ last' = Nobody
        /\ version' = version
    BY <2>1, <2>2, SendKeeps
  <2>4. Len(Append(s, p)) = Len(s) + 1 /\ SubSeq(Append(s, p), 1, Len(s)) = s
    BY ONLY <2>3, AppendTail
  <2>5. Channel!Nobody = Nobody
    BY DEF Nobody, Channel!Nobody
  <2>6. Channel!Put
    BY <2>2, <2>3, <2>4, <2>5, Zenon DEF Channel!Put
  <2> QED BY <2>6
<1>3. CASE UNCHANGED vars
  BY <1>3, IInvStutters
<1> QED BY <1>1, <1>2, <1>3 DEF Next

\* Between two steps, whichever of Packets are sent and however they are cut into reads, what was read and
\* what is left on the wire are those packets, as their constructors keep them (endpoint.hpp
\* async_read_control_packet_type to the coroutines of every packet).
THEOREM ReaderInvariant == Spec => []IInv
<1>1. Init => IInv
  BY IInvInit
<1>2. IInv /\ [Next]_vars => IInv'
  BY IInvNext
<1> QED BY <1>1, <1>2, PTL DEF Spec

\* What the constructors of message.hpp and v5_message.hpp write, given ids other than 0, a topic filter at
\* least and options with a QoS of enum qos (Packets), the reader never refuses as malformed or too large.
THEOREM PacketsAreNeverRefused == Spec => []NeverRefused
<1>1. IInv => NeverRefused
  BY NotRefused
<1> QED BY <1>1, ReaderInvariant, PTL

\* The reader stops in front of the next packet's first byte, never before and never behind it, with
\* nothing left over.
THEOREM BoundariesAreKept == Spec => []BoundaryKept
<1>1. IInv => BoundaryKept
  BY AtBoundary
<1> QED BY <1>1, ReaderInvariant, PTL

\* remaining_length_ is what is left of the packet, but for the ten and two bytes that CONNECT and
\* CONNACK leave.
THEOREM BytesAreCounted == Spec => []Counted
<1>1. IInv => Counted
  BY IsCounted
<1> QED BY <1>1, ReaderInvariant, PTL

\* Sender and reader are a channel: the packets are handed over in the order they were sent, none is
\* skipped, repeated or made up, and what is handed over is one of ReadingsOf what was sent: the packet,
\* but for the options of a 3.1.1 SUBSCRIBE, of which message.hpp:788 keeps the QoS, and for what goes
\* with a reason code of 0 (safety; that it arrives eventually is ImplementsChannel of the run).
THEOREM PacketsArriveInOrder ==
  Spec => Channel!ChannelInit /\ [][Channel!Put \/ Channel!Take]_<<version, inFlight, last>>
<1>1. Init => Channel!ChannelInit
  BY DEF Init, Channel!ChannelInit, Nobody, Channel!Nobody
<1>2. IInv /\ [Next]_vars => [Channel!Put \/ Channel!Take]_<<version, inFlight, last>>
  BY ChannelNext
<1> QED BY <1>1, <1>2, ReaderInvariant, PTL DEF Spec
=============================================================================
