--------------------------- MODULE XfireFileTransfer ---------------------------
(***************************************************************************)
(* Receiving files over one peer to peer session: XfireP2PFileTransfer,     *)
(* XfireP2PFileChunk and the DL packets of XfireP2P::slotSocketRead.        *)
(*                                                                         *)
(* A file is cut into chunks of ChunkSize bytes and a chunk into packets of *)
(* PacketSize bytes.  The receiver asks for the information of a chunk,     *)
(* then for all its packets, writes the chunk when it has counted enough    *)
(* packets, and asks for the next.  The peer (external) answers what lies   *)
(* in the file, once; the network reorders and, within a bound, duplicates. *)
(* Byte i of a file is the number i; 0 is a byte that is not the file's.    *)
(*                                                                         *)
(* A definition named after another one plus a fault (InsertAtEnd) is a    *)
(* plausible mistake in that code, there to see that a property notices.   *)
(***************************************************************************)
EXTENDS Integers, Sequences, FiniteSets

CONSTANTS File,        \* file ids the peer offers
          Worlds,        \* the circumstances to look at
          ChunkSize,     \* XF_P2P_FT_CHUNK_SIZE
          PacketSize,    \* XFIRE_P2P_FT_DATA_PACKET_SIZE
          Wrap           \* 2^32, where the size of a request (quint32) wraps

\* What the peer's requests announce (0 for a file it never offers), and how
\* many datagrams may arrive once more.
Circumstances == [size : [File -> Nat], duplicates : Nat]

ASSUME WorldsAssumption == Worlds \subseteq Circumstances
ASSUME CutAssumption ==
    ChunkSize \in Nat \ {0} /\ PacketSize \in Nat \ {0} /\ Wrap \in Nat \ {0}

VARIABLES world,      \* the circumstances of this behaviour (external)
          ft,         \* m_fileTransfers of the session
          disk,       \* content of m_file
          net,        \* answers of the peer that are on their way
          duplicated, \* datagrams that arrived once more
          asking,     \* Kopete's open questions to the user
          finished,   \* transfers that reported ready after writing a chunk
          fault       \* a deleted or missing object was used

vars == <<world, ft, disk, net, duplicated, asking, finished, fault>>

Size == world.size

None == [phase |-> "none"]
Gone == [phase |-> "gone"]

\* XfireP2PFileChunk(this, 0, 0); m_packetsCount is not set: -1.
EmptyChunk == [offset |-> 0, size |-> 0, packets |-> -1, received |-> 0, data |-> <<>>]

Exists(f) == ft[f].phase \in {"asked", "running"}

\* How many pieces of length n make up m bytes (both divisions in the code).
PiecesAlwaysMore(m, n) == m \div n + 1
Pieces(m, n) == m \div n + (IF m % n # 0 THEN 1 ELSE 0)

\* The data packets start() asks for: piece i, counted from 0.
PacketLength(size, i) ==
    IF i = Pieces(size, PacketSize) - 1 /\ size % PacketSize # 0
    THEN size % PacketSize ELSE PacketSize

PacketsOf(f, offset, size) ==
    {[file |-> f, type |-> "data", offset |-> offset + i * PacketSize,
      size |-> PacketLength(size, i)] : i \in 0..(Pieces(size, PacketSize) - 1)}

\* The peer's answer to a request for chunk information: the part of the file
\* that was asked for, if there is any.
InfoOf(f, offset, size) ==
    IF offset >= Size[f] \/ size = 0 THEN {}
    ELSE {[file |-> f, type |-> "info", offset |-> offset,
           size |-> IF offset + size > Size[f] THEN Size[f] - offset ELSE size]}

\* What the peer sends of these: what its file has.
Sent(f, packets) == {m \in packets : m.offset + m.size <= Size[f]}

\* The bytes of the file from offset on.
Bytes(offset, size) == [i \in 1..size |-> offset + i]

\* QByteArray::resize.
Resize(d, n) == [i \in 1..n |-> IF i <= Len(d) THEN d[i] ELSE 0]

\* QByteArray::replace: in place if it fits, else remove and insert, and insert
\* past the end fills the gap.
InsertAtEnd(d, pos, x) == d \o x
Insert(d, pos, x) ==
    IF pos <= Len(d) THEN SubSeq(d, 1, pos) \o x \o SubSeq(d, pos + 1, Len(d))
    ELSE Resize(d, pos) \o x

Replace(d, pos, x) ==
    IF pos + Len(x) <= Len(d)
    THEN SubSeq(d, 1, pos) \o x \o SubSeq(d, pos + Len(x) + 1, Len(d))
    ELSE Insert(Resize(d, IF pos < Len(d) THEN pos ELSE Len(d)), pos, x)

\* QFile::seek and write.
Written(d, offset, x) ==
    [i \in 1..(IF Len(d) > offset + Len(x) THEN Len(d) ELSE offset + Len(x)) |->
        IF i > offset /\ i <= offset + Len(x) THEN x[i - offset]
        ELSE IF i <= Len(d) THEN d[i] ELSE 0]

--------------------------------------------------------------------------------

\* 0x3E87: createFileTransfer asks the user.
FileRequest(f) ==
    /\ ~fault /\ ft[f].phase = "none" /\ Size[f] > 0
    /\ ft' = [ft EXCEPT ![f] = [phase |-> "asked"]]
    /\ asking' = asking \union {f}
    /\ UNCHANGED <<world, disk, net, duplicated, finished, fault>>

\* slotTransferAccepted of one transfer.
Started(f) ==
    [phase |-> "running", chunksCount |-> Pieces(Size[f], ChunkSize),
     chunksReceived |-> IF ft[f].phase = "running" THEN ft[f].chunksReceived ELSE 0,
     bytes |-> IF ft[f].phase = "running" THEN ft[f].bytes ELSE 0,
     chunk |-> EmptyChunk]

FirstRequest(f) ==
    InfoOf(f, 0, IF Pieces(Size[f], ChunkSize) = 1 THEN Size[f] ELSE ChunkSize)

\* The user accepts file f.  accepted() is a signal of Kopete's one transfer
\* manager: every transfer that exists takes it for its own.  The file of one that
\* runs is open already, which leaves it as it is.
Accept(f) ==
    /\ ~fault /\ f \in asking
    /\ asking' = asking \ {f}
    /\ ft' = [g \in File |-> IF Exists(g) THEN Started(g) ELSE ft[g]]
    /\ disk' = [g \in File |-> IF ft[g].phase = "asked" THEN Resize(disk[g], Size[g])
                               ELSE disk[g]]
    /\ net' = net \union UNION {FirstRequest(g) : g \in {h \in File : Exists(h)}}
    /\ UNCHANGED <<world, duplicated, finished, fault>>

\* The user refuses file f: likewise, every transfer is told, and deleted.
Refuse(f) ==
    /\ ~fault /\ f \in asking
    /\ asking' = asking \ {f}
    /\ ft' = [g \in File |-> IF Exists(g) THEN Gone ELSE ft[g]]
    /\ UNCHANGED <<world, disk, net, duplicated, finished, fault>>

\* The datagram m is delivered, and may be delivered again; the answers to what
\* its handler asks for are sent.
Delivered(m, answers) ==
    \/ net' = (net \ {m}) \union answers /\ UNCHANGED duplicated
    \/ /\ duplicated < world.duplicates
       /\ net' = net \union answers /\ duplicated' = duplicated + 1

\* 0x3E8A for a running transfer: XfireP2PFileChunk::start resizes the data to
\* the size of the chunk before, and asks for all packets of the new one.
ChunkStart(m) ==
    LET c == ft[m.file].chunk
    IN  [offset |-> m.offset, size |-> m.size,
         packets |-> Pieces(m.size, PacketSize), received |-> 0,
         data |-> Resize(c.data, c.size)]

ReceiveInfo(m) ==
    /\ ~fault /\ m.type = "info" /\ ft[m.file].phase = "running"
    /\ ft' = [ft EXCEPT ![m.file].chunk = ChunkStart(m)]
    /\ Delivered(m, Sent(m.file, PacketsOf(m.file, m.offset, m.size)))
    /\ UNCHANGED <<world, disk, asking, finished, fault>>

\* slotChunkReady, when the file is not taken to be finished: the next chunk.
\* chunksReceived counts packets and does not count the last one yet; what came
\* twice makes bytes more than the file has, and the rest wrap.
NextRequest(f, t, c) ==
    InfoOf(f, c.offset + ChunkSize,
           IF t.chunksReceived = t.chunksCount - 1 THEN (Size[f] - t.bytes) % Wrap
           ELSE ChunkSize)

\* Where in m_data a packet goes.
Position(t, m) == m.offset - t.chunk.offset

\* handleData up to the test for the last packet.
FilledCountsDown(t, m) ==
    LET c == t.chunk
        data == Replace(c.data, Position(t, m), Bytes(m.offset, m.size))
    IN  [t EXCEPT !.bytes = @ + m.size,
                  !.chunk = [c EXCEPT !.received = c.received - 1, !.data = data]]
Filled(t, m) ==
    LET c == t.chunk
        data == Replace(c.data, Position(t, m), Bytes(m.offset, m.size))
    IN  [t EXCEPT !.bytes = @ + m.size,
                  !.chunk = [c EXCEPT !.received = c.received + 1, !.data = data]]

CountsEarly(t) == t.chunk.packets = t.chunk.received + 1
Counts(t) == t.chunk.packets = t.chunk.received
Finishes(t) == t.chunksReceived = t.chunksCount

Data(m) == ~fault /\ m.type = "data" /\ ft[m.file].phase = "running"

\* 0x3E8C, not the last packet of the chunk.
ReceiveData(m) ==
    /\ Data(m) /\ m.offset >= ft[m.file].chunk.offset
    /\ LET t == Filled(ft[m.file], m)
       IN /\ ~Counts(t)
          /\ ft' = [ft EXCEPT ![m.file] = [t EXCEPT !.chunksReceived = @ + 1]]
    /\ Delivered(m, {})
    /\ UNCHANGED <<world, disk, asking, finished, fault>>

\* 0x3E8C, the last packet of a chunk: the chunk is written, whatever its
\* checksum, and the next one requested.  An unset m_packetsCount may match.
ReceiveLastOfChunk(m) ==
    /\ Data(m) /\ m.offset >= ft[m.file].chunk.offset
    /\ LET t == Filled(ft[m.file], m)
       IN /\ Counts(t) \/ t.chunk.packets = -1
          /\ ~Finishes(t)
          /\ disk' = [disk EXCEPT ![m.file] = Written(@, t.chunk.offset, t.chunk.data)]
          /\ ft' = [ft EXCEPT ![m.file] = [t EXCEPT !.chunksReceived = @ + 1]]
          /\ Delivered(m, NextRequest(m.file, t, t.chunk))
    /\ UNCHANGED <<world, asking, finished, fault>>

\* 0x3E8C, the packet that is taken to finish the file: ready() deletes the
\* transfer, whose handleChunkData then counts on in the deleted object.
ReceiveLastOfFile(m) ==
    /\ Data(m) /\ m.offset >= ft[m.file].chunk.offset
    /\ LET t == Filled(ft[m.file], m)
       IN /\ Counts(t) \/ t.chunk.packets = -1
          /\ Finishes(t)
          /\ disk' = [disk EXCEPT ![m.file] = Written(@, t.chunk.offset, t.chunk.data)]
    /\ ft' = [ft EXCEPT ![m.file] = Gone]
    /\ finished' = finished \union {m.file}
    /\ fault' \in BOOLEAN
    /\ Delivered(m, {})
    /\ UNCHANGED <<world, asking>>

\* A packet of an earlier chunk: the position is negative.
ReceiveBehind(m) ==
    /\ Data(m) /\ m.offset < ft[m.file].chunk.offset
    /\ fault' = TRUE
    /\ UNCHANGED <<world, ft, disk, net, duplicated, asking, finished>>

\* "unknown file transfer".
ReceiveUnknown(m) ==
    /\ ~fault /\ ~Exists(m.file)
    /\ net' = net \ {m}
    /\ UNCHANGED <<world, ft, disk, duplicated, asking, finished, fault>>

Init ==
    /\ world \in Worlds
    /\ ft = [f \in File |-> None]
    /\ disk = [f \in File |-> <<>>]
    /\ net = {} /\ duplicated = 0
    /\ asking = {} /\ finished = {} /\ fault = FALSE

Receive(m) == ReceiveInfo(m) \/ ReceiveData(m) \/ ReceiveLastOfChunk(m)
              \/ ReceiveLastOfFile(m) \/ ReceiveBehind(m) \/ ReceiveUnknown(m)

Next ==
    \/ \E f \in File : FileRequest(f) \/ Accept(f) \/ Refuse(f)
    \/ \E m \in net :
          \/ ReceiveInfo(m) \/ ReceiveData(m) \/ ReceiveLastOfChunk(m)
          \/ ReceiveLastOfFile(m) \/ ReceiveBehind(m) \/ ReceiveUnknown(m)

Spec == Init /\ [][Next]_vars

\* What is in the network arrives; the user need not answer.
FairSpec == Spec /\ WF_vars(\E m \in net : Receive(m))

--------------------------------------------------------------------------------

TypeOK ==
    /\ \A f \in File : ft[f].phase \in {"none", "asked", "running", "gone"}
    /\ \A f \in File : ft[f].phase = "running" =>
          LET c == ft[f].chunk
          IN  /\ c.packets \in {-1} \union Nat /\ c.received \in Nat
              /\ c.offset \in Nat /\ c.size \in Nat
              /\ c.data \in Seq(0..Size[f])
    /\ \A f \in File : disk[f] \in Seq(0..Size[f])
    /\ world \in Worlds /\ duplicated \in 0..world.duplicates
    /\ asking \subseteq File /\ finished \subseteq File
    /\ fault \in BOOLEAN

\* One file is offered, and no datagram comes twice.
Quiet == world.duplicates = 0 /\ \E f \in File : {g \in File : Size[g] > 0} = {f}

\* In whatever order its packets come, a chunk that is written is right: every
\* byte that belongs to it is the file's (replace at p_offset - m_offset,
\* xf_p2p_filetransfer.cpp:131), as long as no datagram comes twice and no other
\* transfer's answer starts this one again.
WrittenRight ==
    [][\A f \in File :
          Quiet /\ disk'[f] # disk[f] /\ ft[f].phase = "running" =>
              LET c == ft[f].chunk
              IN  \A i \in (c.offset + 1)..(c.offset + c.size) : disk'[f][i] = i]_vars

\* start() asks for packets that cover the chunk without a gap or an overlap,
\* however the sizes divide (xf_p2p_filetransfer.cpp:167).
PacketsTile ==
    \A f \in File : \A n \in 1..Size[f] :
        LET P == PacketsOf(f, 0, n)
        IN  \A i \in 0..(n - 1) :
               /\ Cardinality({p \in P : p.offset <= i /\ i < p.offset + p.size}) = 1
               /\ \A p \in P : p.offset + p.size <= n

\* The next chunk is asked for only when all packets of the last one came, so
\* none of them meets the next chunk's buffer (xf_p2p_filetransfer.cpp:135).
OneChunkAtATime ==
    Quiet /\ (\E m \in net : m.type = "info") => \A m \in net : m.type = "info"

\* The requests tile the file: the packets of a chunk tile the chunk, and chunks
\* follow each other.
RequestsTile == PacketsTile /\ OneChunkAtATime

\* On a network that loses nothing, every chunk that was started is completed,
\* also when datagrams come twice and when another file's answer starts the
\* transfer again (xf_p2p_filetransfer.cpp:134).
ChunkCompletes ==
    \A f \in File :
        (ft[f].phase = "running" /\ ft[f].chunk.received < ft[f].chunk.packets)
            ~> (ft[f].phase = "gone" \/ fault
                \/ (ft[f].phase = "running" /\ ft[f].chunk.received = ft[f].chunk.packets))

\* Every byte of the file got onto the disk.
Complete(f) == \A i \in 1..Size[f] : i \in DOMAIN disk[f] /\ disk[f][i] = i

\* "Check if file transfer is finished" (xf_p2p_filetransfer.cpp:71): a transfer
\* is reported finished only when the whole file was received.
FinishedMeansComplete == \A f \in finished : Complete(f)
================================================================================
