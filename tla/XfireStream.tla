------------------------------ MODULE XfireStream ------------------------------
(***************************************************************************)
(* XfireServer::socketRead and Packet::requiredLen / parseData: how the    *)
(* bytes of the TCP connection, cut anywhere by the network, become the    *)
(* packets handed to handlePacket, and what is left in m_buffer when a     *)
(* connection ends.                                                        *)
(*                                                                         *)
(* Bytes are counted, not stored.  `written', `arrived' and `parsed' are   *)
(* positions in the stream of the current connection: the server wrote     *)
(* bytes 0..written-1, the client appended 0..arrived-1 to m_buffer and    *)
(* removed 0..parsed-1 from it, so m_buffer holds arrived - parsed bytes.  *)
(* A packet is a record of where it starts, of the length its header       *)
(* declares and of what the client makes of it:                            *)
(*   "ok"      parses and its handler keeps the connection,                *)
(*   "goodbye" parses and its handler calls logOff (0x81, 0x86, 0x91),     *)
(*   "bad"     parseData or isValid rejects it.                            *)
(* One step is one turn of the while loop of socketRead; `reading' keeps   *)
(* the other slots of the (single) GUI thread out until the loop ends.     *)
(*                                                                         *)
(* closeConnection leaves m_buffer alone, so a connection may open with    *)
(* bytes of an earlier one in front: `leftover' says of what kind.  What   *)
(* such a buffer parses to depends on the data and is left open.           *)
(*                                                                         *)
(* A definition named after another one plus a fault (CompleteStrict) is a *)
(* plausible mistake in that code; it is used only to see that a property  *)
(* notices the mistake, never by the specification.                        *)
(***************************************************************************)
EXTENDS Integers, Sequences

CONSTANTS HeaderLen,       \* XFIRE_HEADER_LEN
          Frames,          \* the [size, kind] the server may send
          MaxPackets,      \* bound on the packets of one connection
          MaxConnections   \* bound on the connections of one run

Kinds == {"ok", "goodbye", "bad"}

ASSUME HeaderLenAssumption == HeaderLen \in Nat /\ HeaderLen >= 2
ASSUME BoundsAssumption == MaxPackets \in Nat /\ MaxConnections \in Nat
\* A header that declares less than a header is a bad packet.
ASSUME FramesAssumption ==
    /\ Frames \subseteq [size : Nat, kind : Kinds]
    /\ \A f \in Frames : f.kind # "bad" => f.size >= HeaderLen

VARIABLES online, connections, leftover, stream, written, arrived, parsed,
          handled, reading

vars == <<online, connections, leftover, stream, written, arrived, parsed,
          handled, reading>>

Packets == [at : Nat, size : Nat, kind : Kinds]

Buffered == arrived - parsed

\* The packets of this connection that start where m_buffer starts.
Front == {i \in DOMAIN stream : stream[i].at = parsed}

\* Packet::requiredLen: two bytes are needed to read the declared length.
RequiredLen(i) == IF Buffered < 2 THEN 2 ELSE stream[i].size

\* The test of the while loop: the frame in front is completely buffered.
CompleteStrict(i) == RequiredLen(i) < Buffered
Complete(i) == RequiredLen(i) <= Buffered

\* m_buffer.remove(0, len).
ConsumedNothing(i) == 0
ConsumedPayload(i) == RequiredLen(i) - 2 * HeaderLen
Consumed(i) == RequiredLen(i)

\* parseData and isValid, for a frame that is completely buffered.
Valid(i) == stream[i].kind # "bad" /\ stream[i].size >= HeaderLen

\* Bytes the packet occupies: a length that cannot be still takes two bytes.
Extent(f) == IF f.size < 2 THEN 2 ELSE f.size

--------------------------------------------------------------------------------

Init ==
    /\ online = FALSE
    /\ connections = 0
    /\ leftover = "none"
    /\ stream = <<>>
    /\ written = 0 /\ arrived = 0 /\ parsed = 0
    /\ handled = <<>>
    /\ reading = FALSE

\* What m_buffer holds when the next connection opens.
NextLeftover ==
    IF leftover # "none" THEN leftover
    ELSE IF parsed = arrived THEN "none"
    ELSE IF \E i \in Front : ~Valid(i) /\ Complete(i)
         THEN "invalid" ELSE "torn"

\* connectToServer and the server accepting: a new stream, the old m_buffer.
Connect ==
    /\ ~online /\ ~reading
    /\ connections < MaxConnections
    /\ online' = TRUE
    /\ connections' = connections + 1
    /\ leftover' = NextLeftover
    /\ stream' = <<>>
    /\ written' = 0 /\ arrived' = 0 /\ parsed' = 0
    /\ handled' = <<>>
    /\ UNCHANGED reading

\* The server writes one packet.
ServerWrites(f) ==
    /\ online
    /\ Len(stream) < MaxPackets
    /\ stream' = Append(stream, [at |-> written, size |-> f.size, kind |-> f.kind])
    /\ written' = written + Extent(f)
    /\ UNCHANGED <<online, connections, leftover, arrived, parsed, handled, reading>>

\* readyRead: socketRead appends the n bytes that are there and starts its loop.
SocketRead(n) ==
    /\ online /\ ~reading
    /\ arrived' = arrived + n
    /\ reading' = TRUE
    /\ UNCHANGED <<online, connections, leftover, stream, written, parsed, handled>>

\* The loop test fails: the frame in front is not complete.
ReadDone ==
    /\ reading /\ leftover = "none"
    /\ \/ Buffered < 2
       \/ \E i \in Front : ~Complete(i)
    /\ reading' = FALSE
    /\ UNCHANGED <<online, connections, leftover, stream, written, arrived, parsed, handled>>

\* handlePacket on a complete frame; its handler may log the account off, and
\* the loop goes on either way.
HandleFrame ==
    /\ reading /\ leftover = "none" /\ Buffered >= 2
    /\ \E i \in Front :
          /\ Complete(i)
          /\ Valid(i)
          /\ handled' = Append(handled, i)
          /\ parsed' = parsed + Consumed(i)
          /\ online' = (online /\ stream[i].kind # "goodbye")
    /\ UNCHANGED <<connections, leftover, stream, written, arrived, reading>>

\* A complete frame that does not parse, or bytes that are no frame at all:
\* logOff(Unknown), and the bytes stay in m_buffer.
RejectFrame ==
    /\ reading /\ leftover = "none" /\ Buffered >= 2
    /\ \A i \in Front : Complete(i) /\ ~Valid(i)
    /\ online' = FALSE
    /\ reading' = FALSE
    /\ UNCHANGED <<connections, leftover, stream, written, arrived, parsed, handled>>

\* The loop over a buffer that starts with bytes of an earlier connection: an
\* invalid frame is still there and is rejected again; a torn one waits for
\* more bytes, happens to parse as a packet nobody sent (index 0), or is
\* rejected and from then on is the invalid frame in front.
ReadStale ==
    /\ reading /\ leftover # "none"
    /\ reading' = FALSE
    /\ \/ /\ leftover = "torn"
          /\ handled' \in {handled, Append(handled, 0)}
          /\ UNCHANGED <<online, leftover>>
       \/ /\ online' = FALSE
          /\ leftover' = "invalid"
          /\ UNCHANGED handled
    /\ UNCHANGED <<connections, stream, written, arrived, parsed>>

\* slotConnectionInterrupted, or the user going offline: QTcpSocket::close
\* drops what was not read yet.
ConnectionLost ==
    /\ online /\ ~reading
    /\ online' = FALSE
    /\ UNCHANGED <<connections, leftover, stream, written, arrived, parsed, handled, reading>>

Loop == ReadDone \/ HandleFrame \/ RejectFrame \/ ReadStale

Next ==
    \/ Connect
    \/ \E f \in Frames : ServerWrites(f)
    \/ \E n \in 1..(written - arrived) : SocketRead(n)
    \/ ReadDone \/ HandleFrame \/ RejectFrame \/ ReadStale
    \/ ConnectionLost

Spec == Init /\ [][Next]_vars

\* The loop runs to its end, and readyRead is delivered while bytes are there.
Fairness ==
    /\ WF_vars(Loop)
    /\ WF_vars(\E n \in 1..(written - arrived) : SocketRead(n))

FairSpec == Spec /\ Fairness

--------------------------------------------------------------------------------

TypeOK ==
    /\ online \in BOOLEAN /\ reading \in BOOLEAN
    /\ connections \in Nat
    /\ leftover \in {"none", "torn", "invalid"}
    /\ stream \in Seq(Packets)
    /\ written \in Nat /\ arrived \in Nat /\ parsed \in Nat
    /\ handled \in Seq(Nat)

\* However the network cuts the stream, a connection that opened with an empty
\* m_buffer hands the server's packets to handlePacket each once, in the order
\* they were sent and without a gap, and m_buffer starts at the next one: a length
\* is never read from the middle of a packet (socketRead, xf_server.cpp:126).
InOrder ==
    leftover = "none" =>
        /\ \A j \in 1..Len(handled) : handled[j] = j
        /\ parsed <= arrived /\ arrived <= written
        /\ parsed < written => Front = {Len(handled) + 1}

\* A packet that has arrived whole, with all the packets before it in order.
Available(i) ==
    /\ stream[i].at + Extent(stream[i]) <= arrived
    /\ \A k \in 1..i : stream[k].kind # "bad"

\* When socketRead returns, no packet that could be parsed is left in m_buffer,
\* for a connection that opened with an empty one (the while loop, :132).
NoPacketWaits ==
    leftover = "none" /\ ~reading =>
        \A i \in DOMAIN stream : Available(i) => i <= Len(handled)

\* "Parse all available packets" (xf_server.cpp:130), for every connection: a packet
\* that has arrived whole is handled, also when the connection before was lost in the
\* middle of a packet, whose bytes are still in m_buffer.
AllAvailableParsed ==
    ~reading => \A i \in DOMAIN stream :
                    Available(i) => \E j \in DOMAIN handled : handled[j] = i

Channel == INSTANCE PacketChannel
    WITH Packet <- Packets, MaxSent <- MaxPackets,
         up <- online /\ leftover = "none",
         sent <- IF leftover = "none" THEN stream ELSE <<>>,
         delivered <- IF leftover # "none" THEN <<>>
                      ELSE [j \in DOMAIN handled |-> stream[handled[j]]]

\* Connections that open on an empty m_buffer implement the packet channel: at
\* most once, in order, nothing invented, and every packet is handled in the end or
\* the connection closed, however the stream is cut.
ImplementsChannel == Channel!LiveSpec
================================================================================
