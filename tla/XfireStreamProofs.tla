--------------------------- MODULE XfireStreamProofs ---------------------------
(***************************************************************************)
(* For every header length, every set of frames and every way the network  *)
(* cuts the stream: a connection that opens with an empty m_buffer hands   *)
(* over the server's packets in order, without gap or repetition, and      *)
(* leaves no complete packet waiting.  The invariants checked by TLC say   *)
(* nothing of how the packets lie in the stream; IndInv adds that they     *)
(* follow each other and that m_buffer starts where the next one does.     *)
(***************************************************************************)
EXTENDS XfireStream, SequenceTheorems, TLAPS

\* Where packet i starts; the one after the last will start at `written'.
Start(i) == IF i \in DOMAIN stream THEN stream[i].at ELSE written

End(i) == stream[i].at + Extent(stream[i])

\* The packets lie one behind the other from 0 to `written'.
Layout ==
    /\ \A i \in DOMAIN stream : End(i) = Start(i + 1) /\ End(i) <= written
    /\ \A i, j \in DOMAIN stream : i < j => End(i) <= stream[j].at
    /\ Start(1) = 0
    /\ \A i \in DOMAIN stream : stream[i].kind # "bad" => stream[i].size >= HeaderLen

\* What was parsed is a whole number of packets, and they were handled.
Progress ==
    /\ parsed <= arrived /\ arrived <= written
    /\ Len(handled) <= Len(stream)
    /\ \A j \in 1..Len(handled) : handled[j] = j
    /\ parsed = Start(Len(handled) + 1)

\* Outside the loop the packet in front is not complete, or was rejected.
Settled ==
    ~reading => \A i \in DOMAIN stream :
                    i = Len(handled) + 1 => arrived < End(i) \/ ~Valid(i)

IndInv == TypeOK /\ (leftover = "none" => Layout /\ Progress /\ Settled)

\* Every packet takes at least two bytes of the stream.
LEMMA ExtentPositive ==
    ASSUME NEW f, f.size \in Nat
    PROVE  Extent(f) \in Nat /\ Extent(f) >= 2 /\ (f.size >= 2 => Extent(f) = f.size)
  BY DEF Extent

\* The packets of the stream are well formed.
LEMMA StreamElements ==
    ASSUME TypeOK
    PROVE  /\ Len(stream) \in Nat /\ DOMAIN stream = 1..Len(stream)
           /\ Len(handled) \in Nat
           /\ \A i \in DOMAIN stream :
                 /\ stream[i] \in Packets
                 /\ stream[i].at \in Nat /\ stream[i].size \in Nat
                 /\ Extent(stream[i]) \in Nat /\ Extent(stream[i]) >= 2
                 /\ (stream[i].size >= 2 => Extent(stream[i]) = stream[i].size)
                 /\ End(i) \in Nat /\ End(i) >= stream[i].at + 2
<1>1. /\ Len(stream) \in Nat /\ DOMAIN stream = 1..Len(stream)
      /\ Len(handled) \in Nat
  BY LenProperties DEF TypeOK
<1>2. ASSUME NEW i \in DOMAIN stream
      PROVE  stream[i] \in Packets
  BY <1>1, ElementOfSeq DEF TypeOK
<1>3. ASSUME NEW i \in DOMAIN stream
      PROVE  stream[i].at \in Nat /\ stream[i].size \in Nat
  BY <1>2 DEF Packets
<1> QED BY <1>1, <1>2, <1>3, ExtentPositive DEF End

\* The invariant pins down the packet in front of m_buffer: it is the one after
\* the last that was handled, and there is one as long as bytes were written.
LEMMA FrontIsNext ==
    ASSUME IndInv, leftover = "none"
    PROVE  /\ Front \subseteq {Len(handled) + 1}
           /\ parsed < written => Front = {Len(handled) + 1}
<1>1. /\ TypeOK /\ Layout /\ Progress
      /\ DOMAIN stream = 1..Len(stream) /\ Len(handled) \in Nat
      /\ \A i \in DOMAIN stream : /\ stream[i].at \in Nat
                                  /\ End(i) \in Nat /\ End(i) >= stream[i].at + 2
  BY StreamElements DEF IndInv
<1>4. ASSUME NEW i \in Front
      PROVE  i = Len(handled) + 1
  <2> DEFINE k == Len(handled) + 1
  <2>1. i \in DOMAIN stream /\ stream[i].at = parsed /\ parsed = Start(k)
    BY <1>4, <1>1 DEF Front, Progress
  <2>2. CASE k \in DOMAIN stream
    <3>1. stream[k].at = stream[i].at
      BY <2>1, <2>2 DEF Start
    <3>2. ~(i < k) /\ ~(k < i)
      BY <3>1, <2>1, <2>2, <1>1 DEF Layout
    <3> QED BY <3>2, <2>1, <2>2, <1>1
  <2>3. CASE k \notin DOMAIN stream
    <3>1. stream[i].at = written /\ End(i) <= written
      BY <2>1, <2>3, <1>1 DEF Start, Layout
    <3> QED BY <3>1, <2>1, <1>1 DEF TypeOK
  <2> QED BY <2>2, <2>3
<1>5. ASSUME parsed < written
      PROVE  Len(handled) + 1 \in Front
  <2>1. Len(handled) + 1 \in DOMAIN stream
    BY <1>5, <1>1 DEF Progress, Start, TypeOK
  <2> QED BY <2>1, <1>1 DEF Front, Progress, Start
<1> QED BY <1>4, <1>5

\* A step that leaves the stream's variables alone, or only moves `online',
\* keeps the invariant.
LEMMA Frame ==
    ASSUME IndInv, online' \in BOOLEAN, connections' \in Nat,
           UNCHANGED <<leftover, stream, written, arrived, parsed, handled, reading>>
    PROVE  IndInv'
  BY DEF IndInv, TypeOK, Layout, Progress, Settled, Start, End, Valid, Extent, Packets

\* There is no connection at first.
LEMMA InitInv == Init => IndInv
<1>1. SUFFICES ASSUME Init PROVE IndInv
  OBVIOUS
<1>2. TypeOK
  BY <1>1, EmptySeq DEF Init, TypeOK
<1>3. stream = <<>> /\ handled = <<>> /\ written = 0 /\ arrived = 0 /\ parsed = 0
  BY <1>1 DEF Init
<1>4. Layout /\ Progress /\ Settled
  BY <1>3 DEF Layout, Progress, Settled, Start, End
<1> QED BY <1>2, <1>4 DEF IndInv

\* A connection opens on what the buffer holds.
LEMMA ConnectInv == ASSUME IndInv, Connect PROVE IndInv'
<1>1. TypeOK'
  BY DEF IndInv, TypeOK, Connect, NextLeftover
<1>2. stream' = <<>> /\ handled' = <<>> /\ written' = 0 /\ arrived' = 0 /\ parsed' = 0
  BY DEF Connect
<1>3. Layout' /\ Progress' /\ Settled'
  BY <1>2 DEF Layout, Progress, Settled, Start, End
<1> QED BY <1>1, <1>3 DEF IndInv

\* What the server writes lies behind what it wrote before.
LEMMA ServerWritesInv ==
    ASSUME IndInv, NEW f \in Frames, ServerWrites(f)
    PROVE  IndInv'
<1> DEFINE p == [at |-> written, size |-> f.size, kind |-> f.kind]
<1>0. PICK n : n = Len(stream) + 1
  OBVIOUS
<1>1. f.size \in Nat /\ f.kind \in Kinds /\ (f.kind # "bad" => f.size >= HeaderLen)
  BY FramesAssumption
<1>2. Extent(f) \in Nat /\ Extent(f) >= 2 /\ Extent(p) = Extent(f)
  BY <1>1, ExtentPositive DEF Extent
<1>3. TypeOK'
  BY <1>1, <1>2 DEF IndInv, TypeOK, ServerWrites, Packets
<1>4. CASE leftover = "none"
  <2>0. \A i \in DOMAIN stream : End(i) \in Nat
    BY StreamElements DEF IndInv
  <2>1. /\ stream \in Seq(Packets) /\ p \in Packets
        /\ stream' = Append(stream, p) /\ written' = written + Extent(f)
        /\ written \in Nat
    BY <1>0, <1>1 DEF IndInv, TypeOK, ServerWrites, Packets
  <2>2. /\ DOMAIN stream = 1..Len(stream) /\ DOMAIN stream' = 1..n
        /\ \A i \in DOMAIN stream : stream'[i] = stream[i] /\ stream[i] \in Packets
        /\ stream'[n] = p
        /\ n = Len(stream) + 1 /\ Len(stream) \in Nat /\ Len(stream') = n
    BY <2>1, <1>0
  <2>3. \A i \in DOMAIN stream : Extent(stream[i]) \in Nat /\ stream[i].at \in Nat
    BY <2>2, ExtentPositive DEF Packets
  <2>4. Layout /\ Progress /\ Settled
    BY <1>4 DEF IndInv
  <2>5. Layout'
    <3>1. ASSUME NEW i \in DOMAIN stream
          PROVE  End(i)' = End(i)
      <4>1. stream'[i] = stream[i]
        BY <2>2
      <4> QED BY <4>1 DEF End, Extent
    <3>2. End(n)' = written'
      BY <2>1, <2>2, <1>2 DEF End, Extent
    <3>3. \A i \in DOMAIN stream' : Start(i)' = Start(i)
      BY <2>2, <2>1 DEF Start
    <3>4. Start(n + 1)' = written' /\ Start(n) = written
      BY <2>2 DEF Start
    <3>5. \A i \in DOMAIN stream' : End(i)' = Start(i + 1)' /\ End(i)' <= written'
      <4>1. ASSUME NEW i \in DOMAIN stream
            PROVE  End(i)' = Start(i + 1)' /\ End(i)' <= written'
        <5>1. End(i) = Start(i + 1) /\ End(i) <= written /\ End(i) \in Nat
          BY <2>4, <2>0 DEF Layout
        <5>2. i + 1 \in DOMAIN stream'
          BY <2>2
        <5> QED BY <5>1, <5>2, <3>1, <3>3, <2>1, <1>2
      <4>2. End(n)' = Start(n + 1)' /\ End(n)' <= written'
        BY <3>2, <3>4, <2>1, <1>2
      <4> QED BY <4>1, <4>2, <2>2
    <3>6. \A i, j \in DOMAIN stream' : i < j => End(i)' <= stream'[j].at
      <4>1. ASSUME NEW i \in DOMAIN stream', NEW j \in DOMAIN stream', i < j
            PROVE  End(i)' <= stream'[j].at
        <5>1. i \in DOMAIN stream
          BY <4>1, <2>2
        <5>2. CASE j \in DOMAIN stream
          BY <5>1, <5>2, <4>1, <3>1, <2>2, <2>4 DEF Layout
        <5>3. CASE j = n
          BY <5>1, <5>3, <3>1, <2>2, <2>4 DEF Layout
        <5> QED BY <5>2, <5>3, <2>2
      <4> QED BY <4>1
    <3>7. Start(1)' = 0
      BY <3>3, <2>2, <2>4 DEF Layout
    <3>8. \A i \in DOMAIN stream' : stream'[i].kind # "bad" => stream'[i].size >= HeaderLen
      BY <2>2, <2>4, <1>1 DEF Layout
    <3> QED BY <3>5, <3>6, <3>7, <3>8 DEF Layout
  <2>6. Progress'
    <3>1. /\ handled' = handled /\ parsed' = parsed /\ arrived' = arrived
          /\ arrived \in Nat /\ parsed \in Nat /\ Len(handled) \in Nat
      BY DEF ServerWrites, IndInv, TypeOK
    <3>2. Start(Len(handled) + 1)' = Start(Len(handled) + 1)
      BY <3>1, <2>1, <2>2, <2>4 DEF Start, Progress
    <3> QED BY <3>1, <3>2, <2>1, <2>2, <2>4, <1>2 DEF Progress
  <2>7. Settled'
    <3>1. reading' = reading /\ handled' = handled /\ arrived' = arrived /\ arrived \in Nat
      BY DEF ServerWrites, IndInv, TypeOK
    <3>2. SUFFICES ASSUME ~reading, NEW i \in DOMAIN stream', i = Len(handled) + 1
                   PROVE  arrived < End(i)' \/ ~Valid(i)'
      BY <3>1 DEF Settled
    <3>3. CASE i \in DOMAIN stream
      BY <3>2, <3>3, <2>2, <2>4 DEF Settled, End, Extent, Valid
    <3>4. CASE i = n
      BY <3>4, <3>1, <2>1, <2>2, <2>4, <1>2 DEF End, Extent, Progress
    <3> QED BY <3>3, <3>4, <2>2
  <2>8. leftover' = leftover
    BY DEF ServerWrites
  <2> QED BY <1>3, <2>5, <2>6, <2>7 DEF IndInv
<1> QED BY <1>3, <1>4 DEF IndInv, ServerWrites

\* A read moves what has arrived.
LEMMA SocketReadInv ==
    ASSUME IndInv, NEW n \in 1..(written - arrived), SocketRead(n)
    PROVE  IndInv'
<1>1. n \in Nat /\ n <= written - arrived /\ written \in Nat /\ arrived \in Nat /\ parsed \in Nat
  BY DEF IndInv, TypeOK
<1>2. TypeOK'
  BY <1>1 DEF IndInv, TypeOK, SocketRead
<1>3. /\ stream' = stream /\ handled' = handled /\ parsed' = parsed
      /\ written' = written /\ leftover' = leftover
      /\ arrived' = arrived + n /\ reading' = TRUE
  BY DEF SocketRead
<1>4. CASE leftover = "none"
  <2>1. Layout /\ Progress
    BY <1>4 DEF IndInv
  <2>2. Layout'
    BY <2>1, <1>3 DEF Layout, Start, End, Extent
  <2>3. Start(Len(handled) + 1)' = Start(Len(handled) + 1)
    BY <1>3 DEF Start
  <2>4. Progress'
    BY <2>1, <2>3, <1>1, <1>3 DEF Progress
  <2>5. Settled'
    BY <1>3 DEF Settled
  <2> QED BY <1>2, <2>2, <2>4, <2>5 DEF IndInv
<1> QED BY <1>2, <1>3, <1>4 DEF IndInv

\* The loop ends where no complete packet is left.
LEMMA ReadDoneInv == ASSUME IndInv, ReadDone PROVE IndInv'
<1>1. TypeOK' /\ TypeOK /\ Layout /\ Progress /\ leftover = "none"
  BY DEF IndInv, TypeOK, ReadDone
<1>2. Layout' /\ Progress'
  BY <1>1 DEF ReadDone, Layout, Progress, Start, End, Extent
<1>3. Settled'
  <2>1. SUFFICES ASSUME NEW i \in DOMAIN stream, i = Len(handled) + 1
                 PROVE  arrived < End(i) \/ ~Valid(i)
    BY DEF ReadDone, Settled, End, Extent, Valid
  <2>2. /\ stream[i].at = parsed /\ parsed \in Nat /\ arrived \in Nat
        /\ stream[i].size \in Nat /\ Extent(stream[i]) \in Nat
        /\ Extent(stream[i]) >= 2
        /\ (stream[i].size >= 2 => Extent(stream[i]) = stream[i].size)
    BY <2>1, <1>1, StreamElements DEF Progress, Start, TypeOK
  <2>3. CASE Buffered < 2
    BY <2>2, <2>3 DEF Buffered, End
  <2>4. CASE ~(Buffered < 2)
    <3>1. PICK k \in Front : ~(RequiredLen(k) <= Buffered)
      BY <2>4 DEF ReadDone, Complete
    <3>2. k = i
      BY <3>1, <2>1, <1>1, FrontIsNext
    <3>3. ~(stream[i].size <= Buffered)
      BY <3>1, <3>2, <2>4 DEF RequiredLen
    <3> QED BY <3>3, <2>4, <2>2 DEF Buffered, End
  <2> QED BY <2>3, <2>4
<1> QED BY <1>1, <1>2, <1>3 DEF IndInv

\* A turn of the loop moves past exactly one packet.
LEMMA HandleFrameInv == ASSUME IndInv, HandleFrame PROVE IndInv'
<1>1. /\ TypeOK /\ Layout /\ Progress /\ leftover = "none"
      /\ leftover' = leftover /\ stream' = stream /\ written' = written
      /\ arrived' = arrived /\ reading = TRUE /\ reading' = TRUE
      /\ Buffered >= 2 /\ connections' = connections
  BY DEF IndInv, TypeOK, HandleFrame
<1>2. PICK k \in Front : /\ RequiredLen(k) <= Buffered
                         /\ Valid(k)
                         /\ handled' = Append(handled, k)
                         /\ parsed' = parsed + RequiredLen(k)
                         /\ online' = (online /\ stream[k].kind # "goodbye")
  BY DEF HandleFrame, Complete, Consumed
<1>3. k = Len(handled) + 1 /\ k \in DOMAIN stream /\ stream[k].at = parsed
  BY <1>2, <1>1, FrontIsNext DEF Front
<1>4. /\ Len(stream) \in Nat /\ DOMAIN stream = 1..Len(stream) /\ Len(handled) \in Nat
      /\ parsed \in Nat /\ arrived \in Nat /\ handled \in Seq(Nat) /\ k \in Nat
      /\ stream[k].size \in Nat /\ Extent(stream[k]) \in Nat
      /\ (stream[k].size >= 2 => Extent(stream[k]) = stream[k].size)
  BY <1>1, <1>3, StreamElements DEF TypeOK
<1>5. RequiredLen(k) = stream[k].size /\ stream[k].size >= 2
  BY <1>1, <1>2, <1>4, HeaderLenAssumption, SMTT(30) DEF RequiredLen, Valid, Buffered
<1>6. parsed' = End(k) /\ parsed' <= arrived /\ parsed' \in Nat
  BY <1>2, <1>3, <1>4, <1>5, <1>1 DEF End, Buffered
<1>7. /\ handled' \in Seq(Nat) /\ Len(handled') = Len(handled) + 1
      /\ \A j \in 1..Len(handled) : handled'[j] = handled[j]
      /\ handled'[Len(handled) + 1] = k
  BY <1>2, <1>4, AppendProperties
<1>8. TypeOK'
  BY <1>1, <1>2, <1>6, <1>7 DEF TypeOK
<1>9. Layout'
  BY <1>1 DEF Layout, Start, End, Extent
<1>10. Progress'
  <2>1. Len(handled') <= Len(stream')
    BY <1>1, <1>3, <1>4, <1>7
  <2>2. ASSUME NEW j \in 1..Len(handled')
        PROVE  handled'[j] = j
    <3>1. j \in 1..Len(handled) \/ j = k
      BY <1>3, <1>4, <1>7
    <3> QED BY <3>1, <1>1, <1>3, <1>7 DEF Progress
  <2>3. Start(k + 1) = End(k)
    BY <1>1, <1>3 DEF Layout
  <2>4. parsed' = Start(Len(handled) + 1)'
    BY <2>3, <1>1, <1>3, <1>6, <1>7 DEF Start
  <2> QED BY <2>1, <2>2, <2>4, <1>1, <1>6 DEF Progress
<1>11. Settled'
  BY <1>1 DEF Settled
<1> QED BY <1>8, <1>9, <1>10, <1>11 DEF IndInv

\* A packet that is rejected stays in front.
LEMMA RejectFrameInv == ASSUME IndInv, RejectFrame PROVE IndInv'
<1>1. TypeOK' /\ TypeOK /\ Layout /\ Progress /\ leftover = "none"
  BY DEF IndInv, TypeOK, RejectFrame
<1>2. Layout' /\ Progress'
  BY <1>1 DEF RejectFrame, Layout, Progress, Start, End, Extent
<1>3. Settled'
  <2>1. SUFFICES ASSUME NEW i \in DOMAIN stream, i = Len(handled) + 1
                 PROVE  ~Valid(i)
    BY DEF RejectFrame, Settled, End, Extent, Valid
  <2>2. i \in Front
    BY <2>1, <1>1 DEF Front, Progress, Start
  <2> QED BY <2>2 DEF RejectFrame
<1> QED BY <1>1, <1>2, <1>3 DEF IndInv

\* Of a connection with a stale buffer nothing is promised.
LEMMA ReadStaleInv == ASSUME IndInv, ReadStale PROVE IndInv'
<1>1. handled \in Seq(Nat) /\ Append(handled, 0) \in Seq(Nat)
  BY AppendProperties DEF IndInv, TypeOK
<1> QED BY <1>1 DEF IndInv, TypeOK, ReadStale

\* IndInv holds in every reachable state.
THEOREM Inductive == Spec => []IndInv
<1>1. Init => IndInv
  BY InitInv
<1>2. IndInv /\ [Next]_vars => IndInv'
  <2>1. SUFFICES ASSUME IndInv, [Next]_vars
                 PROVE  IndInv'
    OBVIOUS
  <2>2. CASE Connect
    BY <2>1, <2>2, ConnectInv
  <2>3. CASE \E f \in Frames : ServerWrites(f)
    BY <2>1, <2>3, ServerWritesInv
  <2>4. CASE \E n \in 1..(written - arrived) : SocketRead(n)
    BY <2>1, <2>4, SocketReadInv
  <2>5. CASE ReadDone
    BY <2>1, <2>5, ReadDoneInv
  <2>6. CASE HandleFrame
    BY <2>1, <2>6, HandleFrameInv
  <2>7. CASE RejectFrame
    BY <2>1, <2>7, RejectFrameInv
  <2>8. CASE ReadStale
    BY <2>1, <2>8, ReadStaleInv
  <2>9. CASE ConnectionLost
    <3>1. connections' \in Nat /\ online' \in BOOLEAN
      BY <2>1, <2>9 DEF ConnectionLost, IndInv, TypeOK
    <3> QED BY <2>1, <2>9, <3>1, Frame DEF ConnectionLost
  <2>10. CASE UNCHANGED vars
    <3>1. connections' \in Nat /\ online' \in BOOLEAN
      BY <2>1, <2>10 DEF vars, IndInv, TypeOK
    <3> QED BY <2>1, <2>10, <3>1, Frame DEF vars
  <2> QED BY <2>1, <2>2, <2>3, <2>4, <2>5, <2>6, <2>7, <2>8, <2>9, <2>10 DEF Next
<1> QED BY <1>1, <1>2, PTL DEF Spec

\* Every variable of socketRead keeps its type, on every connection.
THEOREM TypeCorrect == Spec => []TypeOK
<1>1. IndInv => TypeOK
  BY DEF IndInv
<1> QED BY <1>1, Inductive, PTL

\* On a connection that opens with an empty m_buffer, the packets are handed to
\* handlePacket in the order the server sent them, each once, and m_buffer starts where
\* the next one starts.
THEOREM DeliveredInOrder == Spec => []InOrder
<1>1. IndInv => InOrder
  BY FrontIsNext DEF IndInv, Progress, InOrder
<1> QED BY <1>1, Inductive, PTL

\* socketRead never returns with a packet in m_buffer it could have parsed.
THEOREM NothingWaits == Spec => []NoPacketWaits
<1>1. ASSUME IndInv PROVE NoPacketWaits
  <2>1. SUFFICES ASSUME leftover = "none", ~reading, NEW i \in DOMAIN stream,
                        Available(i), ~(i <= Len(handled))
                 PROVE  FALSE
    BY DEF NoPacketWaits
  <2>2. /\ TypeOK /\ Layout /\ Progress /\ Settled
        /\ Len(handled) \in Nat /\ DOMAIN stream = 1..Len(stream) /\ Len(stream) \in Nat
        /\ \A k \in DOMAIN stream : End(k) \in Nat /\ stream[k].at \in Nat
                                   /\ End(k) >= stream[k].at + 2
    BY <1>1, <2>1, StreamElements DEF IndInv
  <2>3. PICK k : k = Len(handled) + 1
    OBVIOUS
  <2>4. k \in DOMAIN stream /\ (k < i \/ k = i) /\ k \in 1..i
    BY <2>1, <2>2, <2>3
  <2>5. Valid(k)
    BY <2>1, <2>2, <2>4 DEF Available, Layout, Valid
  <2>6. End(k) <= arrived
    <3>1. End(i) <= arrived
      BY <2>1 DEF Available, End
    <3>2. k < i => End(k) <= End(i)
      BY <2>2, <2>4, <2>1 DEF Layout
    <3> QED BY <3>1, <3>2, <2>4, <2>2, <2>1 DEF TypeOK
  <2> QED BY <2>1, <2>2, <2>3, <2>4, <2>5, <2>6 DEF Settled, TypeOK
<1> QED BY <1>1, Inductive, PTL

--------------------------------------------------------------------------------
(* The read loop implements PacketChannel, but for its liveness. *)

\* Handing over packets 1 to n of a stream is handing over its beginning.
LEMMA DeliveredAreFirst ==
    ASSUME NEW s \in Seq(Packets), NEW h \in Seq(Nat), Len(h) <= Len(s),
           \A j \in 1..Len(h) : h[j] = j
    PROVE  [j \in DOMAIN h |-> s[h[j]]] = SubSeq(s, 1, Len(h))
<1>1. /\ Len(s) \in Nat /\ Len(h) \in Nat /\ DOMAIN h = 1..Len(h)
      /\ \A i \in 1..Len(h) : s[i] \in Packets
  BY LenProperties, ElementOfSeq
<1> DEFINE d == [j \in DOMAIN h |-> s[h[j]]]
           f == SubSeq(s, 1, Len(h))
<1>2. f \in Seq(Packets) /\ Len(f) = Len(h) /\ \A i \in 1..Len(h) : f[i] = s[i]
  BY <1>1, SubSeqProperties
<1>3. \A j \in 1..Len(h) : d[j] = s[j]
  BY <1>1
<1>4. d \in Seq(Packets) /\ Len(d) = Len(h)
  <2>1. d \in [1..Len(h) -> Packets]
    BY <1>1, <1>3
  <2> QED BY <1>1, <2>1
<1> QED BY <1>2, <1>3, <1>4, SeqEqual

\* Handing over nothing.
LEMMA NothingDelivered ==
    ASSUME NEW s, NEW h, h = <<>>
    PROVE  [j \in DOMAIN h |-> s[h[j]]] = <<>>
<1>1. DOMAIN h = {}
  OBVIOUS
<1> QED BY <1>1

\* What PacketChannel sees, with the packets handed over as part of the stream.
Up == online /\ leftover = "none"
Sent == IF leftover = "none" THEN stream ELSE <<>>
Delivered == IF leftover # "none" THEN <<>>
             ELSE [j \in DOMAIN handled |-> stream[handled[j]]]

\* A step of PacketChannel, or none, in these terms.
LEMMA ChannelStep ==
    ASSUME \/ (Up' <=> Up) /\ Sent' = Sent /\ Delivered' = Delivered
           \/ ~Up /\ Sent' = <<>> /\ Delivered' = <<>>
           \/ /\ Up /\ Up' /\ Delivered' = Delivered
              /\ \E p \in Packets : /\ Sent' = Append(Sent, p)
                                    /\ Len(Sent') = Len(Sent) + 1 /\ Sent'[Len(Sent')] = p
           \/ /\ Len(Delivered) < Len(Sent)
              /\ Delivered' = Append(Delivered, Sent[Len(Delivered) + 1])
              /\ (Up' => Up) /\ Sent' = Sent
           \/ Up /\ ~Up' /\ Sent' = Sent /\ Delivered' = Delivered
    PROVE  [Channel!Next]_(Channel!vars)
  BY DEF Up, Sent, Delivered, Channel!Next, Channel!vars, Channel!Open, Channel!Send,
         Channel!Deliver, Channel!Close

\* A new connection opens the channel, or one that promises nothing.
LEMMA ConnectStep == ASSUME IndInv, Connect PROVE [Channel!Next]_(Channel!vars)
<1>1. ~Up /\ Sent' = <<>>
  BY DEF Connect, Up, Sent
<1>2. Delivered' = <<>>
  BY NothingDelivered DEF Connect, Delivered
<1> QED BY <1>1, <1>2, ChannelStep

\* A packet the server writes is sent on the channel, if it is one.
LEMMA WritesStep ==
    ASSUME IndInv, IndInv', NEW f \in Frames, ServerWrites(f)
    PROVE  [Channel!Next]_(Channel!vars)
<1>1. /\ online /\ online' = online /\ leftover' = leftover /\ handled' = handled
      /\ stream' = Append(stream, [at |-> written, size |-> f.size, kind |-> f.kind])
  BY DEF ServerWrites
<1>2. CASE leftover = "none"
  <2> DEFINE p == [at |-> written, size |-> f.size, kind |-> f.kind]
  <2>1. TypeOK /\ Progress /\ TypeOK' /\ Progress'
    BY <1>1, <1>2 DEF IndInv
  <2>2. p \in Packets /\ stream \in Seq(Packets)
    BY <2>1, FramesAssumption DEF TypeOK, Packets
  <2>3. /\ Len(stream') = Len(stream) + 1 /\ stream'[Len(stream')] = p
        /\ Len(stream) \in Nat /\ \A i \in 1..Len(stream) : stream'[i] = stream[i]
    BY <1>1, <2>2, AppendProperties, LenProperties
  <2>4. Delivered' = Delivered
    <3>1. /\ Len(handled) \in Nat /\ Len(handled) <= Len(stream)
          /\ DOMAIN handled = 1..Len(handled) /\ \A j \in 1..Len(handled) : handled[j] = j
      BY <2>1, LenProperties DEF TypeOK, Progress
    <3>2. \A j \in DOMAIN handled : stream'[handled[j]] = stream[handled[j]]
      BY <3>1, <2>3
    <3> QED BY <1>1, <1>2, <3>2 DEF Delivered
  <2> QED BY <1>1, <1>2, <2>2, <2>3, <2>4, ChannelStep DEF Up, Sent
<1>3. CASE leftover # "none"
  BY <1>1, <1>3, ChannelStep DEF Up, Sent, Delivered
<1> QED BY <1>2, <1>3

\* Handling the packet in front delivers the next one of the stream.
LEMMA HandleStep ==
    ASSUME IndInv, IndInv', HandleFrame
    PROVE  [Channel!Next]_(Channel!vars)
<1>1. /\ leftover = "none" /\ leftover' = leftover /\ stream' = stream
      /\ (Up' => Up)
  BY DEF HandleFrame, Up
<1>2. PICK k \in Front : handled' = Append(handled, k)
  BY DEF HandleFrame
<1>3. /\ TypeOK /\ Progress /\ TypeOK' /\ Progress'
      /\ stream \in Seq(Packets) /\ Len(stream) \in Nat
      /\ handled \in Seq(Nat) /\ Len(handled) \in Nat
  BY <1>1, LenProperties DEF IndInv, TypeOK
<1>4. k \in Nat
  BY <1>1, <1>3, <1>2, FrontIsNext
<1>5. Len(handled') = Len(handled) + 1
  BY <1>2, <1>3, <1>4, AppendProperties
<1>6. Len(handled) + 1 \in 1..Len(stream)
  BY <1>1, <1>3, <1>5 DEF Progress
<1> DEFINE n == Len(handled)
<1>7. Delivered = SubSeq(stream, 1, n) /\ Len(Delivered) = n
  <2>1. Delivered = SubSeq(stream, 1, n)
    BY <1>1, <1>3, DeliveredAreFirst DEF Delivered, Progress
  <2> QED BY <2>1, <1>3, <1>6
<1>8. Delivered' = SubSeq(stream, 1, n + 1)
  <2>1. [j \in DOMAIN handled' |-> stream'[handled'[j]]] = SubSeq(stream', 1, Len(handled'))
    BY <1>1, <1>3, DeliveredAreFirst DEF TypeOK, Progress
  <2> QED BY <2>1, <1>1, <1>5 DEF Delivered
<1>9. SubSeq(stream, 1, n + 1) = Append(SubSeq(stream, 1, n), stream[n + 1])
  BY <1>3, <1>6
<1> QED BY <1>1, <1>3, <1>6, <1>7, <1>8, <1>9, ChannelStep DEF Sent

\* Every step of the stream is one of the channel, or none.
LEMMA StreamStep == IndInv /\ IndInv' /\ [Next]_vars => [Channel!Next]_(Channel!vars)
<1> SUFFICES ASSUME IndInv, IndInv', [Next]_vars PROVE [Channel!Next]_(Channel!vars)
  OBVIOUS
<1>1. CASE Connect
  BY <1>1, ConnectStep
<1>2. CASE \E f \in Frames : ServerWrites(f)
  BY <1>2, WritesStep
<1>3. CASE (\E n \in 1..(written - arrived) : SocketRead(n)) \/ ReadDone \/ UNCHANGED vars
  <2>1. UNCHANGED <<online, leftover, stream, handled>>
    BY <1>3 DEF SocketRead, ReadDone, vars
  <2>2. (Up' <=> Up) /\ Sent' = Sent /\ Delivered' = Delivered
    BY <2>1 DEF Sent, Delivered, Up
  <2> QED BY <2>2, ChannelStep
<1>4. CASE HandleFrame
  BY <1>4, HandleStep
<1>5. CASE RejectFrame \/ ConnectionLost
  <2>1. online' = FALSE /\ UNCHANGED <<leftover, stream, handled>>
    BY <1>5 DEF RejectFrame, ConnectionLost
  <2>2. Sent' = Sent /\ Delivered' = Delivered /\ ~Up'
    BY <2>1 DEF Sent, Delivered, Up
  <2> QED BY <2>2, ChannelStep
<1>6. CASE ReadStale
  <2>1. leftover # "none" /\ leftover' # "none"
    BY <1>6 DEF ReadStale
  <2>2. (Up' <=> Up) /\ Sent' = Sent /\ Delivered' = Delivered
    BY <2>1 DEF Sent, Delivered, Up
  <2> QED BY <2>2, ChannelStep
<1> QED BY <1>1, <1>2, <1>3, <1>4, <1>5, <1>6 DEF Next

\* A connection that opens with an empty m_buffer is a channel that hands over what
\* the server sent at most once, in order, and invents nothing (socketRead).  That
\* everything is handed over in the end needs fairness and stays with TLC.
THEOREM ImplementsChannelSafety == Spec => Channel!Spec
<1>1. Init => Channel!Init
  <2>1. SUFFICES ASSUME Init PROVE ~Up /\ Sent = <<>> /\ Delivered = <<>>
    BY DEF Channel!Init, Up, Sent, Delivered
  <2>2. Delivered = [j \in DOMAIN handled |-> stream[handled[j]]]
    BY <2>1 DEF Init, Delivered
  <2>3. Delivered = <<>>
    BY <2>1, <2>2, NothingDelivered DEF Init
  <2> QED BY <2>1, <2>3 DEF Init, Up, Sent
<1> QED BY <1>1, StreamStep, Inductive, PTL DEF Spec, Channel!Spec
================================================================================
