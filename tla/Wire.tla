-------------------------------- MODULE Wire --------------------------------
(***************************************************************************)
(* Bytes on the wire: fixed headers (src/vrpc/mqtt/fixed_header.hpp,       *)
(* control_packet_type.hpp), integers and lengths of variable size         *)
(* (variable_length.hpp), and what property.hpp makes of the properties of *)
(* MQTT 5. A byte is a number, a string a sequence of bytes.               *)
(***************************************************************************)
EXTENDS Naturals, Sequences, SequencesExt

Types == <<"connect", "connack", "publish", "puback", "pubrec", "pubrel", "pubcomp", "subscribe",
           "suback", "unsubscribe", "unsuback", "pingreq", "pingresp", "disconnect", "auth">>

FixedHeader(type, flags) == 16 * (CHOOSE n \in DOMAIN Types : Types[n] = type) + flags
TypeOf(header) == IF header \div 16 = 0 THEN "none" ELSE Types[header \div 16]
FlagsOf(header) == header % 16
ReservedBits(type) == IF type \in {"pubrel", "subscribe", "unsubscribe"} THEN 2 ELSE 0
ValidHeader(header) ==
  /\ TypeOf(header) # "none"
  /\ TypeOf(header) = "publish" \/ FlagsOf(header) = ReservedBits(TypeOf(header))

SumOf(numbers) == FoldLeft(LAMBDA sum, n : sum + n, 0, numbers)

\* (65536 * 65536 is too large a number for TLC.)
Byte == 0..255
TwoBytes == {n \in Nat : n < 65536}
FourBytes == {n \in Nat : n \div 65536 < 65536}

\* n in 1, 2 or 4 bytes, the highest first, and back.
Units == <<1, 256, 256 * 256, 256 * 256 * 256>>
BigEndian(n, size) == [k \in 1..size |-> (n \div Units[size + 1 - k]) % 256]
Number(bytes) ==
  LET digit(k) == IF k <= Len(bytes) THEN bytes[Len(bytes) + 1 - k] ELSE 0
  IN digit(1) + Units[2] * digit(2) + Units[3] * digit(3) + Units[4] * digit(4)

\* A length takes up to four bytes of seven bits, the lowest first. All but the
\* last have the highest bit. Lengths that need more are refused.
LengthUnits == <<1, 128, 128 * 128, 128 * 128 * 128>>
LengthLimit == 128 * 128 * 128 * 128
VarSize(n) == Min({k \in 1..4 : k = 4 \/ n < 128 * LengthUnits[k]})
VarBytes(n) ==
  [k \in 1..VarSize(n) |->
     ((n \div LengthUnits[k]) % 128) + (IF k < VarSize(n) THEN 128 ELSE 0)]

\* Where a length ends, 0 if it does not within four bytes, and what it is.
LengthEnd(bytes) ==
  LET ends == {k \in 1..4 : k \in DOMAIN bytes /\ bytes[k] < 128}
  IN IF ends = {} THEN 0 ELSE Min(ends)
LengthValue(bytes, size) ==
  LET digit(k) == IF k <= size THEN bytes[k] % 128 ELSE 0
  IN digit(1) + LengthUnits[2] * digit(2) + LengthUnits[3] * digit(3) + LengthUnits[4] * digit(4)

Strings == {s \in Seq(Byte) : Len(s) < 65536}
Text(string) == BigEndian(Len(string), 2) \o string
Texts(strings) == FlattenSeq([k \in DOMAIN strings |-> Text(strings[k])])
TextsSize(strings) == SumOf([k \in DOMAIN strings |-> 2 + Len(strings[k])])

\* A whole packet: its length is what its class computed, not what it measures.
Framed(header, length, body) == <<header>> \o VarBytes(length) \o body

(***************************************************************************)
(* Properties, [id, val]: the sorts of value they have.                    *)
(***************************************************************************)
OneByteIds == {1, 23, 25, 36, 37, 40, 41, 42}
TwoByteIds == {19, 33, 34, 35}
FourByteIds == {2, 17, 24, 39}
VariableIds == {11}
PairIds == {38}
TextIds == {3, 8, 9, 18, 21, 22, 26, 28, 31}
NumberSize(id) == IF id \in OneByteIds THEN 1 ELSE IF id \in TwoByteIds THEN 2 ELSE 4
\* The properties that the constructors of their classes accept.
PropertyValues ==
  [id : OneByteIds, val : Byte] \cup [id : TwoByteIds, val : TwoBytes]
    \cup [id : FourByteIds, val : FourBytes] \cup [id : VariableIds, val : 0..(LengthLimit - 1)]
    \cup [id : TextIds, val : Strings] \cup [id : PairIds, val : Strings \X Strings]

NBytesProperty(p) ==
  [bytes |-> <<p.id>> \o BigEndian(p.val, NumberSize(p.id)), size |-> 1 + NumberSize(p.id)]
BinaryProperty(p) == [bytes |-> <<p.id>> \o Text(p.val), size |-> 1 + 2 + Len(p.val)]
VariableProperty(p) == [bytes |-> <<p.id>> \o VarBytes(p.val), size |-> 1 + Len(VarBytes(p.val))]
UserProperty(p) ==
  [bytes |-> <<p.id>> \o Text(p.val[1]) \o Text(p.val[2]),
   size  |-> 1 + 2 + Len(p.val[1]) + 2 + Len(p.val[2])]

Property(p) ==
  CASE p.id \in TextIds -> BinaryProperty(p)
    [] p.id \in VariableIds -> VariableProperty(p)
    [] p.id \in PairIds -> UserProperty(p)
    [] OTHER -> NBytesProperty(p)

PropertiesLength(props) == SumOf([k \in DOMAIN props |-> Property(props[k]).size])
PropertyBytes(props) == FlattenSeq([k \in DOMAIN props |-> Property(props[k]).bytes])
\* property_length_buf_ and the properties.
Properties(props) == VarBytes(PropertiesLength(props)) \o PropertyBytes(props)
\* Mutant: the length of the properties is taken to be one byte.
PropertiesSizeShort(props) == 1 + PropertiesLength(props)
PropertiesSize(props) == Len(VarBytes(PropertiesLength(props))) + PropertiesLength(props)
=============================================================================
