------------------------------ MODULE XfireCodec ------------------------------
(* Packets as bytes: what Packet and PeerToPeerPacket write, what they read     *)
(* back, and how many bytes they ask for (src/libxfire).                        *)
(*                                                                              *)
(* One packet is composed, written in front of whatever comes next, and may     *)
(* have a byte changed: a server of a later version and any sender of UDP       *)
(* datagrams write other packets than this code does.  A number is a sequence   *)
(* of bytes, most significant first, unless it is a length.  A function that    *)
(* may fail returns a set: empty, or what it read and the bytes used so far.    *)
(* A text, a QString in the code, is the sequence of bytes toUtf8 gives for it.  *)
(*                                                                              *)
(* Xfire's server is taken to write the format as this code does.  An operator  *)
(* that continues the name of the one below it is a plausible fault of it.      *)
EXTENDS Integers, Sequences, SequencesExt

CONSTANTS
    Packets,         \* kinds and ids of packets to compose
    Attributes,      \* the attributes they may get
    LargeAttributes, \* those they get only as the first
    Trailers,        \* what can come behind a packet
    AlteredTo,       \* values a byte may be changed to
    MaxPosition,     \* of a byte that is changed
    MaxAttributes

VARIABLES
    packet,     \* the packet: kind, id and m_attributes
    buffer,     \* the bytes at the reader; none before it is written
    altered     \* a byte was changed

vars == <<packet, buffer, altered>>

Byte == 0..255

String == 1
Int32 == 2
SID == 3
List == 4
ParentString == 5
CID == 6
Int64 == 7
Bool == 8
ParentByte == 9

\* The types a list may have elements of.
DataType == {String, Int32, SID, CID, Int64, Bool}

\* The bytes of a value that has no length of its own.
Width(type) ==
    CASE type = Int32 -> 4 [] type = Int64 -> 8 [] type = Bool -> 1
      [] type = SID -> 16  [] type = CID -> 21

\* A length in w bytes: what does not fit is cut off.
LittleEndian(n, w) == [i \in 1..w |-> (n \div 256^(i - 1)) % 256]


Number(bytes) == FoldRight(LAMBDA b, n : 256 * n + b, bytes, 0)

\* qToLittleEndian and back: integers are turned round, identifiers are not.
OnWire(type, bytes) == IF type \in {Int32, Int64} THEN Reverse(bytes) ELSE bytes

\* U+FFFD, which stands for what is no character, and the byte order mark.
Replacement == <<239, 191, 189>>
ByteOrderMark == <<239, 187, 191>>

\* The bytes of the character that begins at byte i of s, 0 if none does.
CharacterLen(s, i) ==
    LET next == {j \in DOMAIN s : j > i /\ s[j] \in 128..191}
    IN CASE s[i] < 128 -> 1
         [] s[i] \in 194..223 /\ i + 1 \in next -> 2
         [] /\ s[i] \in 224..239 /\ {i + 1, i + 2} \subseteq next
            /\ (s[i] = 224 => s[i + 1] >= 160) /\ (s[i] = 237 => s[i + 1] < 160) -> 3
         [] /\ s[i] \in 240..244 /\ {i + 1, i + 2, i + 3} \subseteq next
            /\ (s[i] = 240 => s[i + 1] >= 144) /\ (s[i] = 244 => s[i + 1] < 144) -> 4
         [] OTHER -> 0

HeaderLen(kind) == IF kind = "p2p" THEN 7 ELSE 5

LengthWidth(kind) == IF kind = "p2p" THEN 4 ELSE 2

\* The packets whose attributes are named by strings.
StringPackets(kind) ==
    IF kind = "p2p" THEN 16007..16014
    ELSE {2} \cup 128..131 \cup 133..139 \cup 143..145 \cup 147..149
             \cup {154, 156} \cup 400..402 \cup {404}

IdType(kind, id) == IF id \in StringPackets(kind) THEN "string" ELSE "byte"

--------------------------------------------------------------------------------
(* Writing. *)

\* FlattenSeq, by halves: TLC's stack is not made for hundreds of turns.
RECURSIVE Concat(_)
Concat(seqs) ==
    CASE seqs = <<>> -> <<>>
      [] Len(seqs) = 1 -> seqs[1]
      [] Len(seqs) > 1 -> LET n == Len(seqs) \div 2
                          IN Concat(SubSeq(seqs, 1, n)) \o Concat(SubSeq(seqs, n + 1, Len(seqs)))

\* QString::fromUtf8: drops a byte order mark in front and replaces the bytes that
\* belong to no character (some of them by one U+FFFD, depending on Qt's version).
FromUtf8(s) ==
    LET t == IF IsPrefix(ByteOrderMark, s) THEN SubSeq(s, 4, Len(s)) ELSE s
        InCharacter(j) == \E i \in (j - 3)..j \cap DOMAIN t : i + CharacterLen(t, i) > j
    IN Concat([j \in DOMAIN t |-> IF InCharacter(j) THEN <<t[j]>> ELSE Replacement])

Truncate(s, n) == IF Len(s) <= n THEN s ELSE SubSeq(s, 1, n)

WriteElement(type, v) ==
    IF type = String
    THEN LET s == Truncate(v, 65535) IN LittleEndian(Len(s), 2) \o s
    ELSE OnWire(type, v)

\* ListAttribute::writeDataToByteArray.
WriteList(list) ==
    <<list.of>> \o LittleEndian(Len(list.elements), 2)
    \o Concat([i \in DOMAIN list.elements |-> WriteElement(list.of, list.elements[i])])

\* writeIDToByteArray, and the type.
WriteIDWhole(a) ==
    (IF a.idType = "string" THEN <<Len(a.id)>> \o a.id ELSE <<a.id>>) \o <<a.type>>
WriteID(a) ==
    (IF a.idType = "string"
     THEN LET s == Truncate(a.id, 255) IN <<Len(s)>> \o s
     ELSE <<a.id>>) \o <<a.type>>

RECURSIVE WriteAttribute(_)

\* ParentStringAttribute and ParentByteAttribute::writeDataToByteArray.
WriteParent(attrs) ==
    <<Len(attrs) % 256>>
    \o Concat([i \in DOMAIN attrs |-> WriteAttribute(attrs[i])])

WriteAttribute(a) ==
    WriteID(a) \o CASE a.type = List -> WriteList(a.value)
                    [] a.type \in {ParentString, ParentByte} -> WriteParent(a.value)
                    [] OTHER -> WriteElement(a.type, a.value)

\* toByteArray; an invalid packet is written as nothing.
ToByteArray(p) ==
    LET body == LittleEndian(p.id, 2) \o WriteParent(p.attributes)
        w == LengthWidth(p.kind)
    IN IF p.id = 0 THEN <<>> ELSE LittleEndian(w + Len(body), w) \o body

--------------------------------------------------------------------------------
(* Reading b, of which `at' bytes are used, up to len. *)

Read(val, at) == [val |-> val, at |-> at]

TakeStrict(n, b, at, len) ==
    IF len - at <= n THEN {} ELSE {Read(SubSeq(b, at + 1, at + n), at + n)}
Take(n, b, at, len) ==
    IF len - at < n THEN {} ELSE {Read(SubSeq(b, at + 1, at + n), at + n)}

ParseElement(type, b, at, len) ==
    IF type = String
    THEN UNION {{Read(FromUtf8(f.val), f.at) : f \in Take(Number(l.val), b, l.at, len)} :
                l \in Take(2, b, at, len)}
    ELSE {Read(OnWire(type, f.val), f.at) : f \in Take(Width(type), b, at, len)}

\* An Int64 in a list is read through the Int32 pointer of the union: four bytes
\* of the eight.
ParseListElement(type, b, at, len) ==
    IF type = Int64
    THEN {Read(<<0, 0, 0, 0>> \o f.val, f.at) : f \in ParseElement(Int32, b, at, len)}
    ELSE ParseElement(type, b, at, len)

\* n elements, by halves again.
RECURSIVE ParseElements(_, _, _, _, _)
ParseElements(n, type, b, at, len) ==
    CASE n = 0 -> {Read(<<>>, at)}
      [] n = 1 -> {Read(<<e.val>>, e.at) : e \in ParseListElement(type, b, at, len)}
      [] n > 1 -> UNION {{Read(l.val \o r.val, r.at) :
                             r \in ParseElements(n - n \div 2, type, b, l.at, len)} :
                         l \in ParseElements(n \div 2, type, b, at, len)}

\* ListAttribute::parseData.  Elements of an unknown type are pointers nobody set,
\* and are followed: any values, or a crash, stand behind the empty ones here.
ParseList(b, at, len) ==
    UNION {LET type == h.val[1]
               n == Number(Tail(h.val))
           IN {Read([of |-> type, elements |-> es.val], es.at) :
                  es \in IF type \in DataType
                         THEN ParseElements(n, type, b, h.at, len)
                         ELSE {Read([i \in 1..n |-> <<>>], h.at)}} :
           h \in Take(3, b, at, len)}

\* The id and the type: the beginning of parseAttributeString and -Byte.
ParseID(idType, b, at, len) ==
    IF idType = "string"
    THEN IF len - at < 4 \/ len - at - 1 < b[at + 1] + 2 THEN {}
         ELSE LET n == b[at + 1]
              IN {Read([id |-> FromUtf8(SubSeq(b, at + 2, at + 1 + n)),
                        type |-> b[at + 2 + n]], at + 2 + n)}
    ELSE IF len - at < 3 THEN {}
         ELSE {Read([id |-> b[at + 1], type |-> b[at + 2]], at + 2)}

RECURSIVE ParseAttributes(_, _, _, _, _)

\* ParentStringAttribute and ParentByteAttribute::parseData.
ParseParent(idType, b, at, len) ==
    UNION {ParseAttributes(c.val[1], idType, b, c.at, len) : c \in Take(1, b, at, len)}

ParseValue(type, b, at, len) ==
    CASE type = List -> ParseList(b, at, len)
      [] type = ParentString -> ParseParent("string", b, at, len)
      [] type = ParentByte -> ParseParent("byte", b, at, len)
      [] type \in DataType -> ParseElement(type, b, at, len)
      [] OTHER -> {}

\* parseAttributeString, parseAttributeByte.
ParseAttribute(idType, b, at, len) ==
    UNION {{Read([idType |-> idType, id |-> h.val.id, type |-> h.val.type, value |-> v.val],
                 v.at) : v \in ParseValue(h.val.type, b, h.at, len)} :
           h \in ParseID(idType, b, at, len)}

ParseAttributes(n, idType, b, at, len) ==
    CASE n = 0 -> {Read(<<>>, at)}
      [] n = 1 -> {Read(<<a.val>>, a.at) : a \in ParseAttribute(idType, b, at, len)}
      [] n > 1 -> UNION {{Read(l.val \o r.val, r.at) :
                             r \in ParseAttributes(n - n \div 2, idType, b, l.at, len)} :
                         l \in ParseAttributes(n \div 2, idType, b, at, len)}

\* How many bytes a packet that begins with b has.
RequiredLenEager(kind, b) ==
    LET w == LengthWidth(kind) IN IF Len(b) < w THEN 0 ELSE Number(SubSeq(b, 1, w))
RequiredLen(kind, b) ==
    LET w == LengthWidth(kind) IN IF Len(b) < w THEN w ELSE Number(SubSeq(b, 1, w))

\* Packet::parseData and PeerToPeerPacket::parseData; as every caller does, a
\* packet with the id 0 is refused.
ParseDataPartly(kind, b) ==
    LET len == RequiredLen(kind, b)
        w == LengthWidth(kind)
        id == Number(SubSeq(b, w + 1, w + 2))
    IN IF Len(b) < HeaderLen(kind) \/ len < HeaderLen(kind) \/ Len(b) < len THEN {}
       ELSE {[kind |-> kind, id |-> id, attributes |-> r.val] :
                r \in {r \in ParseParent(IdType(kind, id), b, w + 2, len) : id # 0}}
ParseData(kind, b) ==
    LET len == RequiredLen(kind, b)
        w == LengthWidth(kind)
        id == Number(SubSeq(b, w + 1, w + 2))
    IN IF Len(b) < HeaderLen(kind) \/ len < HeaderLen(kind) \/ Len(b) < len THEN {}
       ELSE {[kind |-> kind, id |-> id, attributes |-> r.val] :
                r \in {r \in ParseParent(IdType(kind, id), b, w + 2, len) :
                           id # 0 /\ r.at = len}}

--------------------------------------------------------------------------------

\* addAttribute, by the sender.
AddAttribute(a) ==
    /\ buffer = <<>>
    /\ a.idType = IdType(packet.kind, packet.id)
    /\ Len(packet.attributes) < MaxAttributes
    /\ a \in LargeAttributes => packet.attributes = <<>>
    /\ packet' = [packet EXCEPT !.attributes = Append(@, a)]
    /\ UNCHANGED <<buffer, altered>>

\* The packet is written and arrives, with what comes behind it.
Send(next) ==
    /\ buffer = <<>>
    /\ buffer' = ToByteArray(packet) \o next
    /\ UNCHANGED <<packet, altered>>

\* What arrived differs in one byte from what this code writes.
Alter(i, v) ==
    /\ ~altered /\ buffer[i] # v
    /\ buffer' = [buffer EXCEPT ![i] = v]
    /\ altered' = TRUE
    /\ UNCHANGED packet

Init ==
    /\ packet \in {[kind |-> p.kind, id |-> p.id, attributes |-> <<>>] : p \in Packets}
    /\ buffer = <<>>
    /\ altered = FALSE

Next ==
    \/ \E a \in Attributes \cup LargeAttributes : AddAttribute(a)
    \/ \E next \in Trailers : Send(next)
    \/ \E i \in DOMAIN buffer \cap 1..MaxPosition, v \in AlteredTo : Alter(i, v)

Spec == Init /\ [][Next]_vars

--------------------------------------------------------------------------------

\* Attributes that every layer can express: a byte order mark in front of a text is
\* lost, a list of Int64 is read wrongly, and one of an unknown type is undefined.
RECURSIVE Regular(_)
Regular(attrs) ==
    \A i \in DOMAIN attrs :
        /\ attrs[i].idType = "string" =>
               Len(attrs[i].id) \in 1..255 /\ attrs[i].id = FromUtf8(attrs[i].id)
        /\ CASE attrs[i].type = List ->
                    \/ attrs[i].value.of \in DataType \ {Int64}
                    \/ attrs[i].value.elements = <<>>
             [] attrs[i].type = String -> attrs[i].value = FromUtf8(attrs[i].value)
             [] attrs[i].type \in {ParentString, ParentByte} -> Regular(attrs[i].value)
             [] OTHER -> TRUE

\* A packet is written as bytes and read back as it was composed, whatever comes
\* behind it (toByteArray against parseData, for every attribute type and both
\* id types).
RoundTrip ==
    /\ \A i \in DOMAIN buffer : buffer[i] \in Byte
    /\ buffer # <<>> /\ ~altered /\ Regular(packet.attributes)
        => ParseData(packet.kind, buffer) = {packet}

\* While bytes of a packet are missing, the reader asks for more than it has, never
\* for more than the packet's, and takes nothing for a packet.
PrefixesWait ==
    buffer # <<>> /\ ~altered =>
        LET kind == packet.kind IN
        \A n \in 0..RequiredLen(kind, buffer) - 1 :
            LET b == SubSeq(buffer, 1, n) IN
            /\ RequiredLen(kind, b) \in n + 1..RequiredLen(kind, buffer)
            /\ ParseData(kind, b) = {}

Has(bytes, part) == \E i \in 1..Len(bytes) - 2 : SubSeq(bytes, i, i + 2) = part

\* A frame that is accepted is that of the packet it is taken for, and no part of it
\* is ignored: two frames are read as the same packet only by what fromUtf8 makes of
\* their texts, where bytes that are no character all become U+FFFD and a byte order
\* mark goes (parseData, XfirePacket.cpp:121, XfireAttribute.cpp:35 and :287).
NothingIgnored ==
    LET frame == SubSeq(buffer, 1, RequiredLen(packet.kind, buffer)) IN
    \A p \in ParseData(packet.kind, buffer) :
        Regular(p.attributes) =>
            \/ ToByteArray(p) = frame
            \/ Has(ToByteArray(p), Replacement) \/ Has(frame, ByteOrderMark)
================================================================================
