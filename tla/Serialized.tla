----------------------------- MODULE Serialized -----------------------------
(***************************************************************************)
(* Stored messages that outlive the program: continuous_buffer is handed   *)
(* to the application by on_serialize, and after a restart a message is    *)
(* made from those bytes again (restore_serialized_message), to be sent    *)
(* once more. A message is given as the bytes it is then sent as; <<>> is  *)
(* an exception.                                                           *)
(***************************************************************************)
EXTENDS MessageV5

\* The first n bytes, and the ones behind them.
First(bytes, n) == SubSeq(bytes, 1, n)
Behind(bytes, n) == SubSeq(bytes, n + 1, Len(bytes))

VariableLength(bytes) ==
  LET size == IF LengthEnd(bytes) = 0 THEN Len(bytes) ELSE LengthEnd(bytes)
  IN IF size > 4 THEN [value |-> 0, used |-> 0]
     ELSE [value |-> LengthValue(bytes, size), used |-> size]

TextUsed(buf) == IF Len(buf) < 2 THEN 2 ELSE 2 + Number(First(buf, 2))
TextAt(buf) == SubSeq(buf, 3, TextUsed(buf))

\* property::parse_one: a property and how many bytes it took, 0 if it is none.
\* The length of a text was checked when it was written.
ParseOne(buf) ==
  LET id == buf[1]
      body == Tail(buf)
      variable == VariableLength(body)
      behindKey == Behind(body, TextUsed(body))
  IN CASE id \in TextIds -> [prop |-> [id |-> id, val |-> TextAt(body)], used |-> 1 + TextUsed(body)]
       [] id \in VariableIds -> [prop |-> [id |-> id, val |-> variable.value],
                                 used |-> IF variable.used = 0 THEN 0 ELSE 1 + variable.used]
       [] id \in PairIds -> [prop |-> [id |-> id, val |-> <<TextAt(body), TextAt(behindKey)>>],
                             used |-> 1 + TextUsed(body) + TextUsed(behindKey)]
       [] OTHER -> [prop |-> [id |-> id, val |-> Number(First(body, NumberSize(id)))],
                    used |-> 1 + NumberSize(id)]

\* property::parse: from[k] are the properties behind the first k bytes.
Parse(buf) ==
  LET from[k \in 0..Len(buf)] ==
        LET next == ParseOne(Behind(buf, k))
        IN IF k = Len(buf) \/ next.used = 0 \/ k + next.used > Len(buf) THEN <<>>
           ELSE <<next.prop>> \o from[k + next.used]
  IN from[0]

\* The bytes behind the fixed header and the remaining length, those included.
HeaderUsed(bytes) == 1 + VariableLength(Tail(bytes)).used
QosOf(header) == (header % 8) \div 2
IdSize(header) == IF QosOf(header) > 0 THEN 2 ELSE 0

RestoredPublish(bytes) ==
  LET buf == Behind(bytes, HeaderUsed(bytes))
      behindTopic == Behind(buf, TextUsed(buf))
  IN IF Len(buf) < 2 \/ Len(buf) < TextUsed(buf) \/ Len(behindTopic) < IdSize(bytes[1]) THEN <<>>
     ELSE First(bytes, HeaderUsed(bytes)) \o First(buf, 2) \o TextAt(buf)
            \o First(behindTopic, IdSize(bytes[1])) \o Behind(behindTopic, IdSize(bytes[1]))

RestoredPublishV5(bytes) ==
  LET buf == Behind(bytes, HeaderUsed(bytes))
      behindTopic == Behind(buf, TextUsed(buf))
      behindId == Behind(behindTopic, IdSize(bytes[1]))
      length == VariableLength(behindId)
      rest == Behind(behindId, length.used)
  IN IF Len(buf) < 2 \/ Len(buf) < TextUsed(buf) \/ Len(behindTopic) < IdSize(bytes[1])
        \/ length.used = 0 \/ Len(rest) < length.value THEN <<>>
     ELSE First(bytes, HeaderUsed(bytes)) \o First(buf, 2) \o TextAt(buf)
            \o First(behindTopic, IdSize(bytes[1])) \o First(behindId, length.used)
            \o PropertyBytes(Parse(First(rest, length.value))) \o Behind(rest, length.value)

RestoredPubrel(bytes) == IF Len(bytes) # 4 \/ bytes[2] # 2 THEN <<>> ELSE bytes

\* A message with a reason code and no property length is sent like one without properties.
RestoredPubrelV5(bytes) ==
  LET buf == Behind(bytes, HeaderUsed(bytes))
      behindReason == Behind(buf, 3)
      length == VariableLength(behindReason)
      rest == Behind(behindReason, length.used)
      props == Parse(rest)
  IN IF Len(buf) < 2 THEN <<>>
     ELSE IF Len(buf) <= 3 THEN bytes
     ELSE IF Len(rest) # length.value THEN <<>>
     ELSE First(bytes, HeaderUsed(bytes)) \o First(buf, 3)
            \o (IF props = <<>> THEN <<>> ELSE First(behindReason, length.used) \o PropertyBytes(props))
=============================================================================
