------------------------ MODULE XfireFileTransferProofs ------------------------
(***************************************************************************)
(* Receiving files, for any files, sizes, cuts and circumstances.          *)
(*                                                                         *)
(* The requests tile a chunk by arithmetic.  That no packet meets a chunk  *)
(* it is not of, and that what is written of a chunk is right, hold where  *)
(* no datagram comes twice and one file is offered: then what is in the    *)
(* network is the information of one chunk, or exactly those packets of    *)
(* the present chunk whose bytes are not in its buffer yet, as many as are *)
(* missing from the count.                                                 *)
(***************************************************************************)
EXTENDS XfireFileTransfer, FiniteSetTheorems, SequenceTheorems, TLAPS

--------------------------------------------------------------------------------
(* How a chunk is cut. *)

\* Quotient and remainder.
LEMMA Division ==
    ASSUME NEW a \in Nat, NEW b \in Nat \ {0}
    PROVE  /\ a \div b \in Nat /\ a % b \in 0..(b - 1)
           /\ a = (a \div b) * b + (a % b)
  OBVIOUS

\* Multiples of one number keep the order of their factors.
LEMMA Multiples ==
    ASSUME NEW k \in Nat, NEW l \in Nat, NEW b \in Nat \ {0}
    PROVE  /\ k * b \in Nat
           /\ k < l => k * b + b <= l * b
           /\ k <= l => k * b <= l * b
           /\ k * b = l * b => k = l
<1>1. k * b \in Nat /\ l * b \in Nat
  OBVIOUS
<1>2. k < l => k * b + b <= l * b
  OBVIOUS
<1>3. l < k => l * b + b <= k * b
  OBVIOUS
<1> QED BY <1>1, <1>2, <1>3

\* There are packets, each has bytes of the chunk, and only the last may be short.
LEMMA PieceIs ==
    ASSUME NEW n \in Nat \ {0}
    PROVE  /\ Pieces(n, PacketSize) \in Nat \ {0}
           /\ \A i \in 0..(Pieces(n, PacketSize) - 1) :
                 /\ i * PacketSize \in Nat
                 /\ PacketLength(n, i) \in 1..PacketSize
                 /\ i * PacketSize + PacketLength(n, i) <= n
<1> DEFINE P == PacketSize
           q == n \div P
           r == n % P
           N == Pieces(n, P)
<1>1. P \in Nat \ {0}
  BY CutAssumption
<1>2. q \in Nat /\ r \in 0..(P - 1) /\ n = q * P + r
  BY <1>1, Division
<1>3. N = IF r # 0 THEN q + 1 ELSE q
  BY <1>2 DEF Pieces
<1>4. N \in Nat \ {0}
  <2>1. q = 0 => n = r
    BY <1>1, <1>2
  <2> QED BY <2>1, <1>2, <1>3
<1> HIDE DEF N
<1>5. ASSUME NEW i \in 0..(N - 1)
      PROVE  i * P \in Nat /\ PacketLength(n, i) \in 1..P /\ i * P + PacketLength(n, i) <= n
  <2>1. i \in Nat /\ i < N
    BY <1>4
  <2>2. CASE i = N - 1 /\ r # 0
    <3>1. i = q /\ PacketLength(n, i) = r
      BY <2>2, <1>2, <1>3 DEF PacketLength, N
    <3> HIDE DEF q, r
    <3>2. i * P = q * P /\ i * P \in Nat
      BY <3>1, <1>1, <2>1
    <3> QED BY <3>1, <3>2, <1>1, <1>2, <2>2
  <2>3. CASE ~(i = N - 1 /\ r # 0)
    <3>1. PacketLength(n, i) = P
      BY <2>3 DEF PacketLength, N
    <3>2. i < q
      BY <2>1, <2>3, <1>2, <1>3
    <3> HIDE DEF q, r
    <3>3. i * P \in Nat /\ i * P + P <= q * P
      BY <3>2, <2>1, <1>1, <1>2, Multiples
    <3>4. q * P \in Nat
      BY <1>1, <1>2
    <3> QED BY <3>1, <3>3, <3>4, <1>1, <1>2
  <2> QED BY <2>2, <2>3
<1> QED BY <1>4, <1>5 DEF N

\* Every byte of the chunk is in one packet.
LEMMA PieceOf ==
    ASSUME NEW n \in Nat \ {0}, NEW b \in 0..(n - 1)
    PROVE  /\ b \div PacketSize \in 0..(Pieces(n, PacketSize) - 1)
           /\ (b \div PacketSize) * PacketSize <= b
           /\ b < (b \div PacketSize) * PacketSize + PacketLength(n, b \div PacketSize)
<1> DEFINE P == PacketSize
           q == n \div P
           r == n % P
           N == Pieces(n, P)
           k == b \div P
           s == b % P
<1>1. P \in Nat \ {0} /\ b \in Nat
  BY CutAssumption
<1>2. q \in Nat /\ r \in 0..(P - 1) /\ n = q * P + r
  BY <1>1, Division
<1>3. N = IF r # 0 THEN q + 1 ELSE q
  BY <1>2 DEF Pieces
<1>4. k \in Nat /\ s \in 0..(P - 1) /\ b = k * P + s
  BY <1>1, Division
<1>5. PacketLength(n, k) = IF k = N - 1 /\ r # 0 THEN r ELSE P
  BY DEF PacketLength
<1> HIDE DEF q, r, N, k, s
<1>6. k <= q
  <2>1. q < k => q * P + P <= k * P
    BY <1>1, <1>2, <1>4, Multiples
  <2>2. q * P \in Nat /\ k * P \in Nat
    BY <1>1, <1>2, <1>4
  <2> QED BY <2>1, <2>2, <1>1, <1>2, <1>4
<1>7. k * P \in Nat /\ q * P \in Nat
  BY <1>1, <1>2, <1>4
<1>8. CASE k = q
  <2>1. k * P = q * P
    BY <1>8
  <2>2. s < r /\ r # 0
    BY <2>1, <1>1, <1>2, <1>4, <1>7
  <2>3. k = N - 1 /\ PacketLength(n, k) = r
    BY <1>8, <2>2, <1>2, <1>3, <1>5
  <2> QED BY <2>2, <2>3, <1>1, <1>2, <1>3, <1>4, <1>7, <1>8 DEF k, N
<1>9. CASE k < q
  <2>1. k \in 0..(N - 1) /\ PacketLength(n, k) = P
    BY <1>9, <1>2, <1>3, <1>4, <1>5
  <2> QED BY <2>1, <1>1, <1>4, <1>7 DEF k, N
<1> QED BY <1>2, <1>4, <1>6, <1>8, <1>9

\* Packets of the bytes from..upto-1 of a file.
Within(f, from, upto, packets) ==
    \A p \in packets : /\ p.file = f /\ p.type = "data"
                       /\ p.offset \in Nat /\ p.size \in Nat \ {0}
                       /\ from <= p.offset /\ p.offset + p.size <= upto

Apart(packets) ==
    \A p, q \in packets : p = q \/ p.offset + p.size <= q.offset \/ q.offset + q.size <= p.offset

Covered(from, upto, packets) ==
    \A b \in from..(upto - 1) : \E p \in packets : p.offset <= b /\ b < p.offset + p.size

\* The packets of a chunk lie in it, apart from each other, cover it, and are as many
\* as m_packetsCount says.
LEMMA PacketsAre ==
    ASSUME NEW f, NEW offset \in Nat, NEW n \in Nat \ {0}
    PROVE  /\ Within(f, offset, offset + n, PacketsOf(f, offset, n))
           /\ Apart(PacketsOf(f, offset, n))
           /\ Covered(offset, offset + n, PacketsOf(f, offset, n))
           /\ IsFiniteSet(PacketsOf(f, offset, n))
           /\ Cardinality(PacketsOf(f, offset, n)) = Pieces(n, PacketSize)
<1> DEFINE N == Pieces(n, PacketSize)
           I == 0..(N - 1)
           packet == [i \in I |-> [file |-> f, type |-> "data", offset |-> offset + i * PacketSize,
                                   size |-> PacketLength(n, i)]]
           S == PacketsOf(f, offset, n)
<1>1. S = {packet[i] : i \in I}
  BY DEF PacketsOf
<1>2. /\ N \in Nat \ {0} /\ PacketSize \in Nat \ {0}
      /\ \A i \in I : /\ i \in Nat /\ i * PacketSize \in Nat
                      /\ PacketLength(n, i) \in 1..PacketSize
                      /\ i * PacketSize + PacketLength(n, i) <= n
  BY PieceIs, CutAssumption
<1>3. \A i \in I : /\ packet[i].file = f /\ packet[i].type = "data"
                   /\ packet[i].offset = offset + i * PacketSize
                   /\ packet[i].size = PacketLength(n, i)
  OBVIOUS
<1>4. \A b \in 0..(n - 1) : \E i \in I :
         i * PacketSize <= b /\ b < i * PacketSize + PacketLength(n, i)
  BY PieceOf
<1> HIDE DEF N, packet, I, S
<1>5. \A i \in I : /\ packet[i].offset \in Nat /\ packet[i].size \in Nat \ {0}
                   /\ offset <= packet[i].offset
                   /\ packet[i].offset + packet[i].size <= offset + n
  BY <1>2, <1>3
<1>6. \A i, j \in I : i < j => packet[i].offset + packet[i].size <= packet[j].offset
  <2>1. TAKE i, j \in I
  <2>2. HAVE i < j
  <2>3. i * PacketSize + PacketSize <= j * PacketSize
    BY <2>2, <1>2, Multiples
  <2> QED BY <2>3, <1>2, <1>3
<1>7. \A i, j \in I : i = j \/ i < j \/ j < i
  BY <1>2
<1>8. Covered(offset, offset + n, S)
  <2>1. SUFFICES ASSUME NEW b \in offset..((offset + n) - 1)
                 PROVE  \E p \in S : p.offset <= b /\ b < p.offset + p.size
    BY DEF Covered
  <2>2. b - offset \in 0..(n - 1)
    OBVIOUS
  <2>3. PICK i \in I : i * PacketSize <= b - offset
                       /\ b - offset < i * PacketSize + PacketLength(n, i)
    BY <2>2, <1>4
  <2>4. packet[i].offset <= b /\ b < packet[i].offset + packet[i].size
    BY <2>3, <1>2, <1>3
  <2> QED BY <2>4, <1>1
<1>9. IsFiniteSet(S) /\ Cardinality(S) = N
  <2>1. packet \in [I -> S]
    BY <1>1 DEF packet
  <2>2. \A i, j \in I : packet[i] = packet[j] => i = j
    <3>1. TAKE i, j \in I
    <3>2. i < j => packet[i].offset # packet[j].offset
      BY <1>5, <1>6
    <3>3. j < i => packet[i].offset # packet[j].offset
      BY <1>5, <1>6
    <3> QED BY <3>2, <3>3, <1>7
  <2>3. packet \in Bijection(I, S)
    BY <2>1, <2>2, <1>1 DEF Bijection, Injection, IsInjective, Surjection
  <2>4. ExistsBijection(I, S)
    BY <2>3 DEF ExistsBijection
  <2>5. 0 \in Int /\ N - 1 \in Int /\ ~(0 > N - 1) /\ (N - 1) - 0 + 1 = N
    BY <1>2
  <2>6. IsFiniteSet(I) /\ Cardinality(I) = N
    BY <2>5, FS_Interval DEF I
  <2> QED BY <2>4, <2>6, FS_Bijection
<1>10. Apart(S)
  BY <1>1, <1>6, <1>7 DEF Apart
<1>11. Within(f, offset, offset + n, S)
  BY <1>1, <1>3, <1>5 DEF Within
<1> QED BY <1>8, <1>9, <1>10, <1>11 DEF N, S

\* Each byte of a chunk is asked for once.
LEMMA ChunksTile == world \in Worlds => PacketsTile
<1> SUFFICES ASSUME world \in Worlds, NEW f \in File, NEW n \in 1..Size[f], NEW i \in 0..(n - 1)
             PROVE  LET P == PacketsOf(f, 0, n)
                    IN  /\ Cardinality({p \in P : p.offset <= i /\ i < p.offset + p.size}) = 1
                        /\ \A p \in P : p.offset + p.size <= n
  BY DEF PacketsTile
<1> DEFINE P == PacketsOf(f, 0, n)
           here == {p \in P : p.offset <= i /\ i < p.offset + p.size}
<1> SUFFICES Cardinality(here) = 1 /\ \A p \in P : p.offset + p.size <= n
  OBVIOUS
<1>1. n \in Nat \ {0} /\ i \in Nat
  BY WorldsAssumption DEF Circumstances, Size
<1>2. Within(f, 0, n, P) /\ Apart(P) /\ Covered(0, n, P)
  <2> DEFINE start == 0
  <2>1. start \in Nat /\ P = PacketsOf(f, start, n) /\ start = 0 /\ start + n = n
    BY <1>1
  <2> HIDE DEF P, start
  <2> QED BY <1>1, <2>1, PacketsAre
<1> HIDE DEF P
<1>3. PICK p \in P : p.offset <= i /\ i < p.offset + p.size
  BY <1>1, <1>2 DEF Covered
<1>4. here = {p}
  BY <1>1, <1>2, <1>3 DEF Within, Apart
<1>5. Cardinality(here) = 1
  BY <1>4, FS_Singleton
<1> QED BY <1>1, <1>2, <1>5 DEF Within

--------------------------------------------------------------------------------
(* The invariant. *)

Chunks(f) ==
    [offset : Nat, size : Nat, packets : Nat \union {-1}, received : Nat,
     data : Seq(0..Size[f])]

Running(f) ==
    [phase : {"running"}, chunksCount : Nat, chunksReceived : Nat, bytes : Nat,
     chunk : Chunks(f)]

Transfers(f) == {None, [phase |-> "asked"], Gone} \union Running(f)

Typed ==
    /\ world \in Worlds /\ duplicated \in 0..world.duplicates
    /\ DOMAIN ft = File /\ DOMAIN disk = File
    /\ \A f \in File : ft[f] \in Transfers(f) /\ disk[f] \in Seq(0..Size[f])
    /\ asking \subseteq File /\ finished \subseteq File /\ fault \in BOOLEAN

\* The peer sends what its files have.
Answer(m) ==
    /\ m.file \in File /\ m.type \in {"info", "data"}
    /\ m.offset \in Nat /\ m.size \in Nat \ {0} /\ m.offset + m.size <= Size[m.file]

Answers == \A m \in net : Answer(m)

\* No other file is offered.
Alone(f) == {g \in File : Size[g] > 0} = {f}

\* Between two chunks: the answer to the request for the next is on its way, or none.
Calm(f) == \A m \in net : m.type = "info" /\ m.file = f /\ \A l \in net : l = m

\* The bytes of packet p are in the buffer of chunk c.
InBuffer(c, p) ==
    /\ p.offset + p.size <= c.offset + Len(c.data)
    /\ \A b \in p.offset..(p.offset + p.size - 1) : c.data[b - c.offset + 1] = b + 1

\* The packets of chunk c of file f are on their way or in its buffer.
Fetches(f, c, coming) ==
    LET packets == PacketsOf(f, c.offset, c.size)
    IN  /\ c.size > 0 /\ c.packets = Pieces(c.size, PacketSize)
        /\ coming \subseteq packets
        /\ c.received + Cardinality(coming) = c.packets
        /\ \A p \in packets \ coming : InBuffer(c, p)

Fetching(f) == Fetches(f, ft[f].chunk, net)

\* Where f is the only file, and nothing comes twice.
TurnOf(f) ==
    /\ \A g \in File \ {f} : ft[g] = None
    /\ asking \subseteq {f} /\ (f \in asking => ft[f].phase = "asked")
    /\ ft[f].phase # "running" => net = {}
    /\ ft[f].phase = "running" => Calm(f) \/ Fetching(f)

InTurn == world.duplicates = 0 => \A f \in File : Alone(f) => TurnOf(f)

IndInv == Typed /\ Answers /\ InTurn

--------------------------------------------------------------------------------
(* Arrays of bytes. *)

\* A function on 1..n is a sequence of length n.
LEMMA SeqOf ==
    ASSUME NEW S, NEW n \in Nat, NEW s \in [1..n -> S]
    PROVE  s \in Seq(S) /\ Len(s) = n
<1>1. s \in Seq(S)
  BY SeqDef
<1>2. Len(s) \in Nat /\ DOMAIN s = 1..Len(s) /\ DOMAIN s = 1..n
  BY <1>1, LenProperties
<1>3. Len(s) = n
  BY <1>2
<1> QED BY <1>1, <1>3

\* QByteArray::resize keeps what is there, and what it adds is taken for zeros.
LEMMA Resized ==
    ASSUME NEW S, 0 \in S, NEW d \in Seq(S), NEW n \in Nat
    PROVE  /\ Resize(d, n) \in Seq(S) /\ Len(Resize(d, n)) = n
           /\ \A i \in 1..n : Resize(d, n)[i] = IF i <= Len(d) THEN d[i] ELSE 0
<1>1. Len(d) \in Nat /\ \A i \in 1..Len(d) : d[i] \in S
  BY LenProperties, ElementOfSeq
<1>2. \A i \in 1..n : (IF i <= Len(d) THEN d[i] ELSE 0) \in S
  BY <1>1
<1>3. Resize(d, n) \in [1..n -> S]
  BY <1>2 DEF Resize
<1> QED BY <1>3, SeqOf DEF Resize

\* Bytes x from position pos on; what was before and behind stays.
LEMMA Overwritten ==
    ASSUME NEW S, 0 \in S, NEW d \in Seq(S), NEW pos \in Nat, NEW x \in Seq(S)
    PROVE  /\ Written(d, pos, x) \in Seq(S)
           /\ Len(Written(d, pos, x)) = IF Len(d) > pos + Len(x) THEN Len(d) ELSE pos + Len(x)
           /\ \A i \in 1..Len(Written(d, pos, x)) : Written(d, pos, x)[i] =
                 IF i > pos /\ i <= pos + Len(x) THEN x[i - pos]
                 ELSE IF i <= Len(d) THEN d[i] ELSE 0
<1> DEFINE n == IF Len(d) > pos + Len(x) THEN Len(d) ELSE pos + Len(x)
           byte(i) == IF i > pos /\ i <= pos + Len(x) THEN x[i - pos]
                      ELSE IF i <= Len(d) THEN d[i] ELSE 0
<1>1. /\ Len(d) \in Nat /\ \A i \in 1..Len(d) : d[i] \in S
      /\ Len(x) \in Nat /\ \A i \in 1..Len(x) : x[i] \in S
  BY LenProperties, ElementOfSeq
<1>2. n \in Nat
  BY <1>1
<1>3. \A i \in 1..n : byte(i) \in S
  <2>1. TAKE i \in 1..n
  <2>2. i > pos /\ i <= pos + Len(x) => i - pos \in 1..Len(x)
    BY <1>1, <1>2
  <2>3. i <= Len(d) => i \in 1..Len(d)
    BY <1>1, <1>2
  <2> QED BY <1>1, <2>2, <2>3
<1>4. Written(d, pos, x) = [i \in 1..n |-> byte(i)]
  BY DEF Written
<1> HIDE DEF n
<1>5. Written(d, pos, x) \in [1..n -> S]
  BY <1>3, <1>4
<1>6. Written(d, pos, x) \in Seq(S) /\ Len(Written(d, pos, x)) = n
  BY <1>2, <1>5, SeqOf
<1> QED BY <1>4, <1>6 DEF n

\* QByteArray::replace writes over what is there, as QFile::write does.
LEMMA ReplaceOverwrites ==
    ASSUME NEW S, 0 \in S, NEW d \in Seq(S), NEW pos \in Nat, NEW x \in Seq(S)
    PROVE  Replace(d, pos, x) = Written(d, pos, x)
<1> DEFINE w == Written(d, pos, x)
<1>1. Len(d) \in Nat /\ Len(x) \in Nat
  BY LenProperties
<1>2. /\ w \in Seq(S)
      /\ Len(w) = IF Len(d) > pos + Len(x) THEN Len(d) ELSE pos + Len(x)
      /\ \A i \in 1..Len(w) : w[i] = IF i > pos /\ i <= pos + Len(x) THEN x[i - pos]
                                     ELSE IF i <= Len(d) THEN d[i] ELSE 0
  BY Overwritten
<1> HIDE DEF w
<1>3. CASE pos + Len(x) <= Len(d)
  <2> DEFINE a == SubSeq(d, 1, pos)
             c == SubSeq(d, pos + Len(x) + 1, Len(d))
             r == (a \o x) \o c
  <2>1. /\ \A i \in 1..pos : d[i] \in S
        /\ \A i \in (pos + Len(x) + 1)..Len(d) : d[i] \in S
    BY <1>1, <1>3, ElementOfSeq
  <2>2. /\ a \in Seq(S) /\ Len(a) = pos
        /\ \A i \in 1..pos : a[i] = d[i]
    BY <2>1, <1>1, SubSeqProperties
  <2>3. /\ c \in Seq(S) /\ Len(c) = Len(d) - (pos + Len(x))
        /\ \A i \in 1..(Len(d) - (pos + Len(x))) : c[i] = d[pos + Len(x) + i]
    BY <2>1, <1>1, <1>3, SubSeqProperties
  <2> HIDE DEF a, c
  <2>4. /\ a \o x \in Seq(S) /\ Len(a \o x) = pos + Len(x)
        /\ \A i \in 1..(pos + Len(x)) : (a \o x)[i] = IF i <= pos THEN a[i] ELSE x[i - pos]
    BY <2>2, ConcatProperties
  <2> DEFINE b == a \o x
  <2>b. b \in Seq(S) /\ Len(b) = pos + Len(x) /\ r = b \o c
    BY <2>4
  <2> HIDE DEF b, r
  <2>c. /\ r \in Seq(S) /\ Len(r) = Len(b) + Len(c)
        /\ \A i \in 1..(Len(b) + Len(c)) : r[i] = IF i <= Len(b) THEN b[i] ELSE c[i - Len(b)]
    BY <2>b, <2>3, ConcatProperties, ZenonT(60)
  <2>5. /\ r \in Seq(S) /\ Len(r) = Len(d)
        /\ \A i \in 1..Len(d) : r[i] = IF i <= pos + Len(x) THEN b[i]
                                       ELSE c[i - (pos + Len(x))]
    BY <2>3, <2>b, <2>c, <1>1, <1>3
  <2> USE DEF b
  <2>6. Len(r) = Len(w)
    BY <2>5, <1>1, <1>2, <1>3
  <2>7. \A i \in 1..Len(r) : r[i] = w[i]
    <3>1. Len(r) = Len(w)
      BY <2>6
    <3>2. TAKE i \in 1..Len(r)
    <3>3. CASE i <= pos
      <4>1. i \in 1..pos /\ i \in 1..(pos + Len(x)) /\ i \in 1..Len(d) /\ i \in 1..Len(w)
        BY <3>1, <3>3, <2>5, <1>1, <1>3
      <4>2. r[i] = d[i]
        BY <4>1, <3>3, <2>2, <2>4, <2>5
      <4>3. w[i] = d[i]
        BY <4>1, <3>3, <1>2, <1>1
      <4> QED BY <4>2, <4>3
    <3>4. CASE i > pos /\ i <= pos + Len(x)
      <4>1. i \in 1..(pos + Len(x)) /\ i \in 1..Len(d) /\ i \in 1..Len(w) /\ ~(i <= pos)
        BY <3>1, <3>4, <2>5, <1>1, <1>3
      <4>2. r[i] = x[i - pos]
        BY <4>1, <3>4, <2>4, <2>5
      <4>3. w[i] = x[i - pos]
        BY <4>1, <3>4, <1>2
      <4> QED BY <4>2, <4>3
    <3>5. CASE i > pos + Len(x)
      <4>1. i - (pos + Len(x)) \in 1..(Len(d) - (pos + Len(x)))
            /\ pos + Len(x) + (i - (pos + Len(x))) = i
        BY <3>5, <2>5, <1>1
      <4>2. r[i] = c[i - (pos + Len(x))]
        BY <3>5, <2>5, <1>1
      <4>3. c[i - (pos + Len(x))] = d[i]
        BY <4>1, <2>3
      <4>4. w[i] = d[i]
        BY <3>1, <3>5, <2>5, <1>1, <1>2
      <4> QED BY <4>2, <4>3, <4>4
    <3> QED BY <3>3, <3>4, <3>5, <2>5, <1>1
  <2>8. r = w
    BY <2>5, <2>6, <2>7, <1>2, SeqEqual
  <2> QED BY <2>8, <1>3 DEF Replace, r, a, c, w
<1>4. CASE pos + Len(x) > Len(d)
  <2> DEFINE k == IF pos < Len(d) THEN pos ELSE Len(d)
             e == Resize(d, k)
             a == IF pos <= Len(e) THEN SubSeq(e, 1, pos) ELSE Resize(e, pos)
             r == a \o x
  <2>1. k \in Nat /\ k <= pos /\ k <= Len(d)
    BY <1>1
  <2>2. e \in Seq(S) /\ Len(e) = k /\ \A i \in 1..k : e[i] = d[i]
    <3>1. k \in Nat
      BY <2>1
    <3> HIDE DEF k
    <3>2. /\ e \in Seq(S) /\ Len(e) = k
          /\ \A i \in 1..k : e[i] = IF i <= Len(d) THEN d[i] ELSE 0
      BY <3>1, Resized
    <3> QED BY <3>2, <2>1, <1>1
  <2>3. Replace(d, pos, x) = r
    <3>1. Replace(d, pos, x) = Insert(e, pos, x)
      BY <1>1, <1>4 DEF Replace
    <3>2. CASE pos <= Len(e)
      <4>1. Len(e) = pos
        BY <3>2, <2>1, <2>2
      <4>2. SubSeq(e, pos + 1, Len(e)) = <<>>
        BY <4>1, SubSeqEmpty
      <4>3. SubSeq(e, 1, pos) \in Seq(S)
        <5>1. \A i \in 1..pos : e[i] \in S
          BY <4>1, <2>2, ElementOfSeq
        <5> QED BY <5>1, SubSeqProperties
      <4>4. r \in Seq(S) /\ r = SubSeq(e, 1, pos) \o x
        BY <3>2, <4>3, ConcatProperties
      <4> HIDE DEF r, a, e
      <4>5. Insert(e, pos, x) = r \o <<>>
        BY <3>2, <4>2, <4>4 DEF Insert
      <4> QED BY <3>1, <4>4, <4>5, ConcatEmptySeq
    <3>3. CASE ~(pos <= Len(e))
      BY <3>1, <3>3 DEF Insert
    <3> QED BY <3>2, <3>3
  <2>4. /\ a \in Seq(S) /\ Len(a) = pos
        /\ \A i \in 1..pos : a[i] = IF i <= Len(d) THEN d[i] ELSE 0
    <3> HIDE DEF e
    <3>1. CASE pos <= Len(e)
      <4>1. Len(e) = pos /\ pos <= Len(d)
        BY <3>1, <2>1, <2>2, <1>1
      <4>2. \A i \in 1..pos : e[i] \in S
        BY <4>1, <2>2, ElementOfSeq
      <4>3. /\ SubSeq(e, 1, pos) \in Seq(S) /\ Len(SubSeq(e, 1, pos)) = pos
            /\ \A i \in 1..pos : SubSeq(e, 1, pos)[i] = e[i]
        BY <4>2, SubSeqProperties
      <4> QED BY <4>1, <4>3, <3>1, <2>2, <1>1
    <3>2. CASE ~(pos <= Len(e))
      <4>1. Len(e) = Len(d)
        BY <3>2, <2>2, <1>1
      <4>2. /\ Resize(e, pos) \in Seq(S) /\ Len(Resize(e, pos)) = pos
            /\ \A i \in 1..pos : Resize(e, pos)[i] = IF i <= Len(e) THEN e[i] ELSE 0
        BY <2>2, Resized
      <4> QED BY <4>1, <4>2, <3>2, <2>2, <1>1
    <3> QED BY <3>1, <3>2
  <2> HIDE DEF a
  <2>5. /\ r \in Seq(S) /\ Len(r) = pos + Len(x)
        /\ \A i \in 1..(pos + Len(x)) : r[i] = IF i <= pos THEN a[i] ELSE x[i - pos]
    BY <2>4, ConcatProperties
  <2> HIDE DEF r
  <2>6. Len(r) = Len(w) /\ Len(w) = pos + Len(x)
    BY <2>5, <1>1, <1>2, <1>4
  <2>7. \A i \in 1..Len(r) : r[i] = w[i]
    <3>1. Len(r) = Len(w) /\ Len(w) = pos + Len(x)
      BY <2>6
    <3>2. TAKE i \in 1..Len(r)
    <3>3. i \in 1..Len(w)
      BY <3>1
    <3>4. CASE i <= pos
      <4>1. i \in 1..pos /\ i \in 1..(pos + Len(x)) /\ ~(i > pos)
        BY <3>1, <3>4, <1>1
      <4>2. r[i] = IF i <= Len(d) THEN d[i] ELSE 0
        BY <4>1, <3>4, <2>4, <2>5
      <4>3. w[i] = IF i <= Len(d) THEN d[i] ELSE 0
        BY <4>1, <3>3, <1>2
      <4> QED BY <4>2, <4>3
    <3>5. CASE i > pos
      <4>1. i \in 1..(pos + Len(x)) /\ i <= pos + Len(x) /\ ~(i <= pos)
        BY <3>1, <3>5, <1>1
      <4>2. r[i] = x[i - pos]
        BY <4>1, <2>5
      <4>3. w[i] = x[i - pos]
        BY <4>1, <3>3, <3>5, <1>2
      <4> QED BY <4>2, <4>3
    <3> QED BY <3>4, <3>5, <3>1, <1>1
  <2>8. r = w
    BY <2>5, <2>6, <2>7, <1>2, SeqEqual
  <2> QED BY <2>3, <2>8 DEF w
<1> QED BY <1>1, <1>3, <1>4

--------------------------------------------------------------------------------
(* What the handlers do. *)

\* Files have sizes.
LEMMA SizeIs ==
    ASSUME world \in Worlds
    PROVE  world.duplicates \in Nat /\ \A f \in File : Size[f] \in Nat
  BY WorldsAssumption DEF Circumstances, Size

\* In which phase a transfer is, by its fields.
LEMMA PhaseIs ==
    ASSUME NEW f \in File, ft[f] \in Transfers(f)
    PROVE  /\ ft[f].phase \in {"none", "asked", "running", "gone"}
           /\ ft[f].phase = "running" <=> ft[f] \in Running(f)
           /\ ft[f].phase = "none" <=> ft[f] = None
           /\ Exists(f) <=> ft[f].phase \in {"asked", "running"}
  BY DEF Transfers, Running, None, Gone, Exists

\* What a request is answered with is information about its file, once.
LEMMA InfoIs ==
    ASSUME NEW f \in File, Size[f] \in Nat, NEW offset \in Nat, NEW size \in Nat
    PROVE  /\ \A m \in InfoOf(f, offset, size) : Answer(m) /\ m.type = "info" /\ m.file = f
           /\ \A m, l \in InfoOf(f, offset, size) : m = l
  BY DEF InfoOf, Answer

\* So is the first request of a transfer,
LEMMA FirstRequestIs ==
    ASSUME NEW f \in File, Size[f] \in Nat
    PROVE  /\ \A m \in FirstRequest(f) : Answer(m) /\ m.type = "info" /\ m.file = f
           /\ \A m, l \in FirstRequest(f) : m = l
<1> DEFINE size == IF Pieces(Size[f], ChunkSize) = 1 THEN Size[f] ELSE ChunkSize
           start == 0
<1>1. size \in Nat /\ start \in Nat
  BY CutAssumption
<1>2. FirstRequest(f) = InfoOf(f, start, size)
  BY DEF FirstRequest
<1> HIDE DEF size, start
<1> QED BY <1>1, <1>2, InfoIs

\* and the request for the chunk behind one that is complete.
LEMMA NextRequestIs ==
    ASSUME NEW f \in File, Size[f] \in Nat, NEW t \in Running(f)
    PROVE  /\ \A m \in NextRequest(f, t, t.chunk) : Answer(m) /\ m.type = "info" /\ m.file = f
           /\ \A m, l \in NextRequest(f, t, t.chunk) : m = l
<1> DEFINE size == IF t.chunksReceived = t.chunksCount - 1 THEN (Size[f] - t.bytes) % Wrap
                   ELSE ChunkSize
           start == t.chunk.offset + ChunkSize
<1>1. t.bytes \in Nat /\ t.chunk.offset \in Nat
  BY DEF Running, Chunks
<1>2. (Size[f] - t.bytes) % Wrap \in Nat
  BY <1>1, CutAssumption
<1>3. size \in Nat /\ start \in Nat
  BY <1>1, <1>2, CutAssumption
<1>4. NextRequest(f, t, t.chunk) = InfoOf(f, start, size)
  BY DEF NextRequest
<1> HIDE DEF size, start
<1> QED BY <1>3, <1>4, InfoIs

\* The bytes of a file at a place.
LEMMA BytesAre ==
    ASSUME NEW offset \in Nat, NEW size \in Nat, NEW n \in Nat, offset + size <= n
    PROVE  /\ Bytes(offset, size) \in Seq(0..n) /\ Len(Bytes(offset, size)) = size
           /\ \A i \in 1..size : Bytes(offset, size)[i] = offset + i
<1>1. Bytes(offset, size) \in [1..size -> 0..n]
  BY DEF Bytes
<1> QED BY <1>1, SeqOf DEF Bytes

\* A packet is counted and its bytes are written over those in the buffer.
LEMMA FilledIs ==
    ASSUME NEW f \in File, Size[f] \in Nat, NEW t \in Running(f),
           NEW m, Answer(m), m.file = f, m.offset >= t.chunk.offset
    PROVE  /\ Filled(t, m) \in Running(f)
           /\ Filled(t, m).chunksReceived = t.chunksReceived
           /\ Filled(t, m).chunksCount = t.chunksCount
           /\ Filled(t, m).chunk.offset = t.chunk.offset
           /\ Filled(t, m).chunk.size = t.chunk.size
           /\ Filled(t, m).chunk.packets = t.chunk.packets
           /\ Filled(t, m).chunk.received = t.chunk.received + 1
           /\ Filled(t, m).chunk.data =
                 Written(t.chunk.data, m.offset - t.chunk.offset, Bytes(m.offset, m.size))
<1> DEFINE c == t.chunk
           pos == m.offset - c.offset
           x == Bytes(m.offset, m.size)
           d == Replace(c.data, pos, x)
           e == [offset |-> c.offset, size |-> c.size, packets |-> c.packets,
                 received |-> c.received + 1, data |-> d]
           u == [phase |-> t.phase, chunksCount |-> t.chunksCount,
                 chunksReceived |-> t.chunksReceived, bytes |-> t.bytes + m.size, chunk |-> e]
<1>1. c \in Chunks(f) /\ c.data \in Seq(0..Size[f]) /\ c.offset \in Nat /\ t.bytes \in Nat
      /\ c.received \in Nat
  BY DEF Running, Chunks
<1>2. pos \in Nat /\ 0 \in 0..Size[f] /\ m.size \in Nat
  BY <1>1 DEF Answer
<1>3. x \in Seq(0..Size[f])
  BY BytesAre DEF Answer
<1> HIDE DEF pos, x
<1>4. d = Written(c.data, pos, x) /\ d \in Seq(0..Size[f])
  <2> DEFINE S == 0..Size[f]
             b == c.data
  <2>1. 0 \in S /\ b \in Seq(S) /\ pos \in Nat /\ x \in Seq(S)
    BY <1>1, <1>2, <1>3
  <2> HIDE DEF S, b
  <2>2. Replace(b, pos, x) = Written(b, pos, x)
    BY <2>1, ReplaceOverwrites
  <2>3. Written(b, pos, x) \in Seq(S)
    BY <2>1, Overwritten
  <2> QED BY <2>2, <2>3 DEF S, b
<1>5. Filled(t, m) = u
  <2> DEFINE c1 == [c EXCEPT !.received = c.received + 1]
             b == [c1 EXCEPT !.data = d]
             t1 == [t EXCEPT !.bytes = t.bytes + m.size]
  <2>1. c1 = [offset |-> c.offset, size |-> c.size, packets |-> c.packets,
              received |-> c.received + 1, data |-> c.data]
    <3> HIDE DEF c
    <3> QED BY <1>1 DEF Chunks
  <2>2. b = e
    <3> HIDE DEF c1
    <3> QED BY <2>1
  <2>3. t1 = [phase |-> t.phase, chunksCount |-> t.chunksCount,
              chunksReceived |-> t.chunksReceived, bytes |-> t.bytes + m.size, chunk |-> c]
    BY DEF Running
  <2>4. Filled(t, m) = [t1 EXCEPT !.chunk = b]
    BY DEF Filled, Position, pos, x
  <2> HIDE DEF b, e, t1, c1
  <2> QED BY <2>2, <2>3, <2>4
<1> HIDE DEF d
<1>6. /\ e \in Chunks(f) /\ e.offset = c.offset /\ e.size = c.size /\ e.packets = c.packets
      /\ e.received = c.received + 1 /\ e.data = d
  BY <1>1, <1>4 DEF Chunks
<1> HIDE DEF e
<1>7. /\ u \in Running(f) /\ u.chunk = e
      /\ u.chunksReceived = t.chunksReceived /\ u.chunksCount = t.chunksCount
  BY <1>1, <1>2, <1>6 DEF Running
<1> QED BY <1>4, <1>5, <1>6, <1>7 DEF pos, x

\* A delivery takes its answer out of the network, unless it comes twice, and adds others.
LEMMA Delivering ==
    ASSUME Typed, Answers, world' = world, NEW m \in net, NEW answers, Delivered(m, answers),
           \A a \in answers : Answer(a)
    PROVE  /\ Answers' /\ duplicated' \in 0..world.duplicates
           /\ world.duplicates = 0 => net' = (net \ {m}) \union answers
<1>1. world.duplicates \in Nat /\ duplicated \in 0..world.duplicates
  BY SizeIs DEF Typed
<1>2. net' \subseteq net \union answers
  BY DEF Delivered
<1>3. duplicated' \in 0..world.duplicates /\ (world.duplicates = 0 => net' = (net \ {m}) \union answers)
  BY <1>1 DEF Delivered
<1>4. \A a : Answer(a) => Answer(a)'
  BY DEF Answer, Size
<1> QED BY <1>2, <1>3, <1>4 DEF Answers

\* What a step has to keep of each transfer and each file.
LEMMA Changing ==
    ASSUME Typed, world' = world,
           DOMAIN ft' = File, DOMAIN disk' = File,
           \A f \in File : ft'[f] \in Transfers(f) /\ disk'[f] \in Seq(0..Size[f]),
           duplicated' \in 0..world.duplicates, asking' \subseteq File, finished' \subseteq File,
           fault' \in BOOLEAN
    PROVE  Typed'
<1>1. Size' = Size
  BY DEF Size
<1>2. \A f \in File : Transfers(f)' = Transfers(f)
  BY <1>1 DEF Transfers, Running, Chunks
<1> QED BY <1>1, <1>2 DEF Typed

\* A step of one transfer.
LEMMA ChangingOne ==
    ASSUME Typed, world' = world, NEW f \in File, NEW e \in Transfers(f),
           ft' = [ft EXCEPT ![f] = e],
           NEW w \in Seq(0..Size[f]), disk' = disk \/ disk' = [disk EXCEPT ![f] = w],
           duplicated' \in 0..world.duplicates, asking' \subseteq File, finished' \subseteq File,
           fault' \in BOOLEAN
    PROVE  Typed'
<1>1. /\ DOMAIN ft' = File /\ DOMAIN disk' = File
      /\ \A g \in File : ft'[g] \in Transfers(g) /\ disk'[g] \in Seq(0..Size[g])
  BY DEF Typed
<1> QED BY <1>1, Changing

\* A transfer that is accepted starts with an empty chunk.
LEMMA StartedIs ==
    ASSUME NEW f \in File, Size[f] \in Nat, ft[f] \in Transfers(f)
    PROVE  Started(f) \in Running(f)
<1>1. ft[f].phase = "running" => ft[f].chunksReceived \in Nat /\ ft[f].bytes \in Nat
  BY PhaseIs DEF Running
<1>2. Pieces(Size[f], ChunkSize) \in Nat
  BY Division, CutAssumption DEF Pieces
<1>3. EmptyChunk \in Chunks(f)
  BY EmptySeq DEF EmptyChunk, Chunks
<1> QED BY <1>1, <1>2, <1>3 DEF Started, Running

\* A file is offered.
LEMMA FileRequestInv == ASSUME Typed, Answers, NEW f \in File, FileRequest(f) PROVE Typed' /\ Answers'
<1>1. /\ [phase |-> "asked"] \in Transfers(f) /\ disk[f] \in Seq(0..Size[f])
      /\ ft' = [ft EXCEPT ![f] = [phase |-> "asked"]] /\ asking' \subseteq File
      /\ UNCHANGED <<world, disk, net, duplicated, finished, fault>>
  BY DEF Typed, FileRequest, Transfers
<1>2. Typed'
  BY <1>1, ChangingOne DEF Typed
<1>3. Answers'
  BY <1>1 DEF Answers, Answer, Size
<1> QED BY <1>2, <1>3

\* The user accepts what waits.
LEMMA AcceptInv == ASSUME Typed, Answers, NEW f \in File, Accept(f) PROVE Typed' /\ Answers'
<1>1. /\ ft' = [g \in File |-> IF Exists(g) THEN Started(g) ELSE ft[g]]
      /\ disk' = [g \in File |-> IF ft[g].phase = "asked" THEN Resize(disk[g], Size[g])
                                 ELSE disk[g]]
      /\ net' = net \union UNION {FirstRequest(g) : g \in {h \in File : Exists(h)}}
      /\ asking' \subseteq File /\ UNCHANGED <<world, duplicated, finished, fault>>
  BY DEF Accept, Typed
<1>2. \A g \in File : Size[g] \in Nat /\ ft[g] \in Transfers(g) /\ disk[g] \in Seq(0..Size[g])
  BY SizeIs DEF Typed
<1>3. \A g \in File : ft'[g] \in Transfers(g)
  BY <1>1, <1>2, StartedIs DEF Transfers
<1>4. \A g \in File : disk'[g] \in Seq(0..Size[g])
  <2>1. TAKE g \in File
  <2>2. 0 \in 0..Size[g]
    BY <1>2
  <2> QED BY <1>1, <1>2, <2>2, Resized
<1>5. Typed'
  BY <1>1, <1>3, <1>4, Changing DEF Typed
<1>6. \A m \in net' : Answer(m)
  BY <1>1, <1>2, FirstRequestIs DEF Answers
<1>7. Answers'
  BY <1>1, <1>6 DEF Answers, Answer, Size
<1> QED BY <1>5, <1>7

\* Or refuses it.
LEMMA RefuseInv == ASSUME Typed, Answers, NEW f \in File, Refuse(f) PROVE Typed' /\ Answers'
<1>1. /\ ft' = [g \in File |-> IF Exists(g) THEN Gone ELSE ft[g]]
      /\ asking' \subseteq File /\ UNCHANGED <<world, disk, net, duplicated, finished, fault>>
  BY DEF Refuse, Typed
<1>2. \A g \in File : ft'[g] \in Transfers(g)
  BY <1>1 DEF Typed, Transfers
<1>3. Typed'
  BY <1>1, <1>2, Changing DEF Typed
<1>4. Answers'
  BY <1>1 DEF Answers, Answer, Size
<1> QED BY <1>3, <1>4

\* The chunk that a new one follows is forgotten, but for its bytes.
LEMMA ChunkStartIs ==
    ASSUME Typed, NEW m, Answer(m), ft[m.file].phase = "running"
    PROVE  /\ ChunkStart(m) \in Chunks(m.file)
           /\ ChunkStart(m).offset = m.offset /\ ChunkStart(m).size = m.size
           /\ ChunkStart(m).packets = Pieces(m.size, PacketSize) /\ ChunkStart(m).received = 0
           /\ [ft[m.file] EXCEPT !.chunk = ChunkStart(m)] \in Running(m.file)
           /\ [ft[m.file] EXCEPT !.chunk = ChunkStart(m)].chunk = ChunkStart(m)
<1> DEFINE f == m.file
           c == ft[f].chunk
           e == ChunkStart(m)
<1>1. f \in File /\ m.offset \in Nat /\ m.size \in Nat \ {0} /\ Size[f] \in Nat
  BY SizeIs DEF Answer, Typed
<1>2. ft[f] \in Running(f)
  BY <1>1, PhaseIs DEF Typed
<1>3. c.data \in Seq(0..Size[f]) /\ c.size \in Nat /\ 0 \in 0..Size[f]
  BY <1>1, <1>2, SMTT(30) DEF Running, Chunks
<1>4. Resize(c.data, c.size) \in Seq(0..Size[f])
  BY <1>3, Resized
<1>5. Pieces(m.size, PacketSize) \in Nat
  BY <1>1, PieceIs
<1>6. e \in Chunks(f)
  BY <1>1, <1>4, <1>5 DEF ChunkStart, Chunks
<1>7. /\ e.offset = m.offset /\ e.size = m.size
      /\ e.packets = Pieces(m.size, PacketSize) /\ e.received = 0
  BY DEF ChunkStart
<1> HIDE DEF e
<1>8. [ft[f] EXCEPT !.chunk = e] \in Running(f) /\ [ft[f] EXCEPT !.chunk = e].chunk = e
  BY <1>2, <1>6 DEF Running
<1> QED BY <1>6, <1>7, <1>8 DEF e

\* Answers to the requests of a chunk are about packets of that file.
LEMMA RequestedIs ==
    ASSUME world \in Worlds, NEW m, Answer(m)
    PROVE  \A p \in PacketsOf(m.file, m.offset, m.size) : Answer(p)
<1>1. Within(m.file, m.offset, m.offset + m.size, PacketsOf(m.file, m.offset, m.size))
  BY PacketsAre DEF Answer
<1>2. m.file \in File /\ m.offset + m.size <= Size[m.file] /\ Size[m.file] \in Nat
      /\ m.offset \in Nat /\ m.size \in Nat
  BY SizeIs DEF Answer
<1> QED BY <1>1, <1>2 DEF Within, Answer

\* Information about a chunk starts it, and asks for its packets.
LEMMA ReceiveInfoInv ==
    ASSUME Typed, Answers, NEW m \in net, ReceiveInfo(m)
    PROVE  /\ Typed' /\ Answers'
           /\ ft' = [ft EXCEPT ![m.file] = [ft[m.file] EXCEPT !.chunk = ChunkStart(m)]]
           /\ world.duplicates = 0 =>
                 net' = (net \ {m}) \union PacketsOf(m.file, m.offset, m.size)
<1> DEFINE f == m.file
           e == [ft[f] EXCEPT !.chunk = ChunkStart(m)]
           packets == PacketsOf(f, m.offset, m.size)
<1>1. /\ Answer(m) /\ f \in File /\ ft[f].phase = "running" /\ Delivered(m, Sent(f, packets))
      /\ UNCHANGED <<world, disk, asking, finished, fault>>
  BY DEF Answers, Answer, ReceiveInfo
<1>2. ft' = [ft EXCEPT ![f] = e]
  BY DEF ReceiveInfo
<1>3. e \in Transfers(f)
  BY <1>1, ChunkStartIs DEF Transfers
<1> HIDE DEF e
<1>4. (\A p \in packets : Answer(p)) /\ Sent(f, packets) \subseteq packets
  BY <1>1, RequestedIs DEF Sent, Typed
<1>5. packets \subseteq Sent(f, packets)
  <2>1. \A p \in packets : p.file = f
    BY <1>1, PacketsAre DEF Within, Answer
  <2> QED BY <2>1, <1>4 DEF Sent, Answer
<1>6. Sent(f, packets) = packets
  BY <1>4, <1>5
<1> HIDE DEF packets
<1>7. /\ Answers' /\ duplicated' \in 0..world.duplicates
      /\ world.duplicates = 0 => net' = (net \ {m}) \union packets
  BY <1>1, <1>4, <1>6, Delivering
<1>8. Typed'
  <2>1. disk[f] \in Seq(0..Size[f])
    BY <1>1 DEF Typed
  <2> QED BY <1>1, <1>2, <1>3, <1>7, <2>1, ChangingOne DEF Typed
<1> QED BY <1>2, <1>7, <1>8 DEF e, packets

\* What every data packet in front of nothing finds.
LEMMA DataIs ==
    ASSUME Typed, Answers, NEW m \in net, Data(m), m.offset >= ft[m.file].chunk.offset
    PROVE  LET c == ft[m.file].chunk
               t == Filled(ft[m.file], m)
           IN  /\ Answer(m) /\ m.file \in File /\ Size[m.file] \in Nat
               /\ ft[m.file] \in Running(m.file) /\ t \in Running(m.file)
               /\ c \in Chunks(m.file)
               /\ t.chunk.offset = c.offset /\ t.chunk.size = c.size
               /\ t.chunk.packets = c.packets /\ t.chunk.received = c.received + 1
               /\ t.chunk.data = Written(c.data, m.offset - c.offset, Bytes(m.offset, m.size))
               /\ [t EXCEPT !.chunksReceived = @ + 1] \in Running(m.file)
               /\ [t EXCEPT !.chunksReceived = @ + 1].chunk = t.chunk
               /\ Written(disk[m.file], c.offset, t.chunk.data) \in Seq(0..Size[m.file])
<1> DEFINE f == m.file
           c == ft[f].chunk
           t == Filled(ft[f], m)
<1>1. Answer(m) /\ f \in File /\ Size[f] \in Nat /\ ft[f].phase = "running"
  BY SizeIs DEF Answers, Answer, Data, Typed
<1>2. ft[f] \in Running(f) /\ disk[f] \in Seq(0..Size[f])
  BY <1>1, PhaseIs DEF Typed
<1>3. /\ t \in Running(f)
      /\ t.chunk.offset = c.offset /\ t.chunk.size = c.size
      /\ t.chunk.packets = c.packets /\ t.chunk.received = c.received + 1
      /\ t.chunk.data = Written(c.data, m.offset - c.offset, Bytes(m.offset, m.size))
  BY <1>1, <1>2, FilledIs
<1>4. c \in Chunks(f) /\ c.offset \in Nat
  BY <1>2 DEF Running, Chunks
<1> HIDE DEF t, c
<1>5. [t EXCEPT !.chunksReceived = @ + 1] \in Running(f)
      /\ [t EXCEPT !.chunksReceived = @ + 1].chunk = t.chunk
  BY <1>3 DEF Running
<1>6. Written(disk[f], c.offset, t.chunk.data) \in Seq(0..Size[f])
  <2>1. t.chunk.data \in Seq(0..Size[f]) /\ 0 \in 0..Size[f]
    BY <1>1, <1>3 DEF Running, Chunks
  <2> QED BY <1>2, <1>4, <2>1, Overwritten
<1> QED BY <1>1, <1>2, <1>3, <1>4, <1>5, <1>6 DEF t, c

\* A packet that is not the last leaves the network;
LEMMA ReceiveDataInv ==
    ASSUME Typed, Answers, NEW m \in net, ReceiveData(m)
    PROVE  Typed' /\ Answers' /\ (world.duplicates = 0 => net' = net \ {m})
<1> DEFINE f == m.file
           u == [Filled(ft[f], m) EXCEPT !.chunksReceived = @ + 1]
<1>1. /\ Data(m) /\ m.offset >= ft[f].chunk.offset /\ ft' = [ft EXCEPT ![f] = u]
      /\ Delivered(m, {}) /\ UNCHANGED <<world, disk, asking, finished, fault>>
  BY DEF ReceiveData
<1>2. f \in File /\ u \in Transfers(f) /\ disk[f] \in Seq(0..Size[f])
  BY <1>1, DataIs DEF Transfers, Typed
<1> HIDE DEF u
<1>3. /\ Answers' /\ duplicated' \in 0..world.duplicates
      /\ world.duplicates = 0 => net' = (net \ {m}) \union {}
  BY <1>1, Delivering
<1>4. Typed'
  BY <1>1, <1>2, <1>3, ChangingOne DEF Typed
<1> QED BY <1>3, <1>4

\* the last one of a chunk has the next chunk asked for;
LEMMA ReceiveLastOfChunkInv ==
    ASSUME Typed, Answers, NEW m \in net, ReceiveLastOfChunk(m)
    PROVE  /\ Typed' /\ Answers'
           /\ world.duplicates = 0 =>
                 LET t == Filled(ft[m.file], m)
                 IN  net' = (net \ {m}) \union NextRequest(m.file, t, t.chunk)
<1> DEFINE f == m.file
           t == Filled(ft[f], m)
           u == [t EXCEPT !.chunksReceived = @ + 1]
           w == Written(disk[f], t.chunk.offset, t.chunk.data)
<1>1. /\ Data(m) /\ m.offset >= ft[f].chunk.offset /\ ft' = [ft EXCEPT ![f] = u]
      /\ disk' = [disk EXCEPT ![f] = w]
      /\ Delivered(m, NextRequest(f, t, t.chunk)) /\ UNCHANGED <<world, asking, finished, fault>>
  BY DEF ReceiveLastOfChunk
<1>2. /\ f \in File /\ Size[f] \in Nat /\ t \in Running(f) /\ u \in Transfers(f)
      /\ w \in Seq(0..Size[f])
  BY <1>1, DataIs DEF Transfers
<1> HIDE DEF u, t, w
<1>3. \A a \in NextRequest(f, t, t.chunk) : Answer(a)
  BY <1>2, NextRequestIs
<1>4. /\ Answers' /\ duplicated' \in 0..world.duplicates
      /\ world.duplicates = 0 => net' = (net \ {m}) \union NextRequest(f, t, t.chunk)
  BY <1>1, <1>3, Delivering
<1>5. Typed'
  BY <1>1, <1>2, <1>4, ChangingOne DEF Typed
<1> QED BY <1>4, <1>5 DEF t

\* and the last one of a file ends the transfer.
LEMMA ReceiveLastOfFileInv ==
    ASSUME Typed, Answers, NEW m \in net, ReceiveLastOfFile(m)
    PROVE  Typed' /\ Answers' /\ (world.duplicates = 0 => net' = net \ {m})
<1> DEFINE f == m.file
           t == Filled(ft[f], m)
           w == Written(disk[f], t.chunk.offset, t.chunk.data)
<1>1. /\ Data(m) /\ m.offset >= ft[f].chunk.offset /\ ft' = [ft EXCEPT ![f] = Gone]
      /\ disk' = [disk EXCEPT ![f] = w] /\ finished' = finished \union {f}
      /\ fault' \in BOOLEAN /\ Delivered(m, {}) /\ UNCHANGED <<world, asking>>
  BY DEF ReceiveLastOfFile
<1>2. f \in File /\ Gone \in Transfers(f) /\ w \in Seq(0..Size[f])
  BY <1>1, DataIs DEF Transfers
<1> HIDE DEF t, w
<1>3. /\ Answers' /\ duplicated' \in 0..world.duplicates
      /\ world.duplicates = 0 => net' = (net \ {m}) \union {}
  BY <1>1, Delivering
<1>4. Typed'
  BY <1>1, <1>2, <1>3, ChangingOne DEF Typed
<1> QED BY <1>3, <1>4

\* Every step keeps the types.
LEMMA TypedStep == ASSUME Typed, Answers, [Next]_vars PROVE Typed' /\ Answers'
<1>1. CASE \E f \in File : FileRequest(f) \/ Accept(f) \/ Refuse(f)
  BY <1>1, FileRequestInv, AcceptInv, RefuseInv
<1>2. ASSUME NEW m \in net, ReceiveBehind(m) \/ ReceiveUnknown(m) PROVE Typed' /\ Answers'
  <2>1. /\ UNCHANGED <<world, ft, disk, duplicated, asking, finished>> /\ fault' \in BOOLEAN
        /\ net' \subseteq net
    BY <1>2 DEF ReceiveBehind, ReceiveUnknown, Typed
  <2>2. Typed'
    BY <2>1, Changing DEF Typed
  <2>3. Answers'
    BY <2>1 DEF Answers, Answer, Size
  <2> QED BY <2>2, <2>3
<1>3. CASE UNCHANGED vars
  <2>1. Typed'
    BY <1>3, Changing DEF Typed, vars
  <2>2. Answers'
    BY <1>3 DEF Answers, Answer, Size, vars
  <2> QED BY <2>1, <2>2
<1> QED BY <1>1, <1>2, <1>3, ReceiveInfoInv, ReceiveDataInv, ReceiveLastOfChunkInv,
           ReceiveLastOfFileInv DEF Next

--------------------------------------------------------------------------------
(* One chunk at a time. *)

\* What is in the network says what the file waits for.
LEMMA Waiting ==
    ASSUME Answers, NEW f \in File, TurnOf(f), NEW m \in net
    PROVE  /\ ft[f].phase = "running" /\ m.file = f
           /\ m.type = "info" => Calm(f) /\ net = {m}
           /\ m.type = "data" => Fetching(f)
<1>1. ft[f].phase = "running" /\ (Calm(f) \/ Fetching(f))
  BY DEF TurnOf
<1>2. CASE Calm(f)
  BY <1>1, <1>2 DEF Calm
<1>3. CASE Fetching(f)
  <2>1. m \in PacketsOf(f, ft[f].chunk.offset, ft[f].chunk.size)
    BY <1>3 DEF Fetching, Fetches
  <2>2. m.file = f /\ m.type = "data"
    BY <2>1 DEF PacketsOf
  <2> QED BY <1>1, <1>3, <2>2
<1> QED BY <1>1, <1>2, <1>3

\* The packets of a chunk in the invariant.
LEMMA FetchesIs ==
    ASSUME NEW f \in File, NEW c \in Chunks(f), NEW coming, Fetches(f, c, coming)
    PROVE  LET packets == PacketsOf(f, c.offset, c.size)
           IN  /\ Within(f, c.offset, c.offset + c.size, packets) /\ Apart(packets)
               /\ Covered(c.offset, c.offset + c.size, packets)
               /\ IsFiniteSet(coming) /\ Cardinality(coming) \in Nat
               /\ c.packets \in Nat \ {0} /\ c.received \in Nat
<1>1. c.offset \in Nat /\ c.size \in Nat \ {0} /\ c.received \in Nat
  BY DEF Chunks, Fetches
<1> DEFINE offset == c.offset
           size == c.size
           packets == PacketsOf(f, offset, size)
<1>2. offset \in Nat /\ size \in Nat \ {0}
  BY <1>1
<1>3. coming \subseteq packets /\ c.packets = Pieces(size, PacketSize)
  BY DEF Fetches
<1> HIDE DEF offset, size
<1>4. /\ Within(f, offset, offset + size, packets) /\ Apart(packets)
      /\ Covered(offset, offset + size, packets) /\ IsFiniteSet(packets)
  BY <1>2, PacketsAre
<1>5. Pieces(size, PacketSize) \in Nat \ {0}
  BY <1>2, PieceIs
<1> HIDE DEF packets
<1>6. IsFiniteSet(coming) /\ Cardinality(coming) \in Nat
  BY <1>3, <1>4, FS_Subset, FS_CardinalityType
<1> QED BY <1>1, <1>3, <1>4, <1>5, <1>6 DEF offset, size, packets

\* Buffer w is buffer d, both from byte start of the file on, with the n bytes of the
\* file from from on in it.
Holds(w, d, start, from, n) ==
    /\ Len(w) \in Nat /\ Len(d) \in Nat /\ Len(d) <= Len(w) /\ from + n <= start + Len(w)
    /\ \A b \in from..(from + n - 1) : w[b - start + 1] = b + 1
    /\ \A b \in start..(start + Len(d) - 1) :
          b < from \/ from + n <= b => w[b - start + 1] = d[b - start + 1]

\* What is written at a place holds the file's bytes there, and nothing else changed.
LEMMA BytesWritten ==
    ASSUME NEW N \in Nat, NEW d \in Seq(0..N), NEW start \in Nat,
           NEW from \in Nat, start <= from, NEW n \in Nat, from + n <= N
    PROVE  Holds(Written(d, from - start, Bytes(from, n)), d, start, from, n)
<1> DEFINE S == 0..N
           x == Bytes(from, n)
           pos == from - start
           w == Written(d, pos, x)
<1>1. /\ pos \in Nat /\ Len(d) \in Nat /\ pos + start = from /\ 0 \in S /\ d \in Seq(S)
      /\ x \in Seq(S) /\ Len(x) = n /\ \A i \in 1..n : x[i] = from + i
  BY LenProperties, BytesAre
<1> HIDE DEF pos, x, S
<1>2. /\ Len(w) = IF Len(d) > pos + n THEN Len(d) ELSE pos + n
      /\ \A i \in 1..Len(w) : w[i] = IF i > pos /\ i <= pos + n THEN x[i - pos]
                                     ELSE IF i <= Len(d) THEN d[i] ELSE 0
  <2>1. /\ Len(w) = IF Len(d) > pos + Len(x) THEN Len(d) ELSE pos + Len(x)
        /\ \A i \in 1..Len(w) : w[i] = IF i > pos /\ i <= pos + Len(x) THEN x[i - pos]
                                       ELSE IF i <= Len(d) THEN d[i] ELSE 0
    <3>1. 0 \in S /\ d \in Seq(S) /\ pos \in Nat /\ x \in Seq(S)
      BY <1>1
    <3> QED BY <3>1, Overwritten
  <2> QED BY <2>1, <1>1
<1> HIDE DEF w
<1>3. Len(w) \in Nat /\ Len(d) <= Len(w) /\ from + n <= start + Len(w)
  BY <1>1, <1>2
<1>4. ASSUME NEW b \in from..(from + n - 1) PROVE w[b - start + 1] = b + 1
  <2>1. /\ b - start + 1 \in 1..Len(w) /\ b - start + 1 > pos /\ b - start + 1 <= pos + n
        /\ (b - start + 1) - pos \in 1..n /\ from + ((b - start + 1) - pos) = b + 1
    BY <1>1, <1>3
  <2>2. w[b - start + 1] = x[(b - start + 1) - pos]
    BY <2>1, <1>2
  <2> QED BY <2>1, <2>2, <1>1
<1>5. ASSUME NEW b \in start..(start + Len(d) - 1), b < from \/ from + n <= b
      PROVE  w[b - start + 1] = d[b - start + 1]
  <2>1. /\ b - start + 1 \in 1..Len(w) /\ b - start + 1 <= Len(d)
        /\ ~(b - start + 1 > pos /\ b - start + 1 <= pos + n)
    BY <1>1, <1>3, <1>5
  <2> QED BY <2>1, <1>2
<1> QED BY <1>1, <1>3, <1>4, <1>5 DEF w, pos, x, Holds

\* A packet that is written into the buffer leaves those that are there.
LEMMA BufferFills ==
    ASSUME NEW f \in File, NEW c \in Chunks(f), NEW coming, Fetches(f, c, coming),
           NEW m \in coming, m.offset + m.size <= Size[f], Size[f] \in Nat,
           NEW e, e.offset = c.offset,
           e.data = Written(c.data, m.offset - c.offset, Bytes(m.offset, m.size))
    PROVE  \A p \in PacketsOf(f, c.offset, c.size) \ (coming \ {m}) : InBuffer(e, p)
<1> DEFINE packets == PacketsOf(f, c.offset, c.size)
           start == c.offset
           from == m.offset
           n == m.size
           d == c.data
           N == Size[f]
           w == Written(d, from - start, Bytes(from, n))
<1>1. start \in Nat /\ d \in Seq(0..N)
  BY DEF Chunks
<1>2. /\ Within(f, c.offset, c.offset + c.size, packets) /\ Apart(packets)
      /\ coming \subseteq packets /\ \A p \in packets \ coming : InBuffer(c, p)
  BY FetchesIs DEF Fetches
<1> HIDE DEF packets
<1>3. \A p \in packets : p.offset \in Nat /\ p.size \in Nat \ {0} /\ start <= p.offset
  BY <1>2 DEF Within
<1>4. m \in packets /\ from \in Nat /\ n \in Nat /\ start <= from
  BY <1>2, <1>3
<1>5. N \in Nat /\ from + n <= N
  OBVIOUS
<1> HIDE DEF N, d, n, from, start
<1>6. Holds(w, d, start, from, n)
  BY <1>1, <1>4, <1>5, BytesWritten
<1>7. e.data = w /\ e.offset = start
  BY DEF w, n, from, start, d
<1> HIDE DEF w
<1>8. ASSUME NEW p \in packets \ (coming \ {m}) PROVE InBuffer(e, p)
  <2>1. p.offset \in Nat /\ p.size \in Nat \ {0} /\ start <= p.offset
    BY <1>3
  <2>2. CASE p = m
    <3>1. p.offset = from /\ p.size = n
      BY <2>2 DEF from, n
    <3>2. p.offset + p.size <= start + Len(w)
          /\ \A b \in p.offset..(p.offset + p.size - 1) : w[b - start + 1] = b + 1
      BY <3>1, <1>6 DEF Holds
    <3> QED BY <3>2, <1>7 DEF InBuffer
  <2>3. CASE p # m
    <3>1. p \in packets /\ InBuffer(c, p)
      BY <2>3, <1>2
    <3>2. /\ p.offset + p.size <= start + Len(d)
          /\ \A b \in p.offset..(p.offset + p.size - 1) : d[b - start + 1] = b + 1
      BY <3>1 DEF InBuffer, start, d
    <3>3. p.offset + p.size <= from \/ from + n <= p.offset
      BY <2>3, <3>1, <1>2, <1>4 DEF Apart, from, n
    <3>4. p.offset + p.size <= start + Len(w)
      BY <2>1, <3>2, <1>1, <1>6 DEF Holds
    <3>5. ASSUME NEW b \in p.offset..(p.offset + p.size - 1)
          PROVE  w[b - start + 1] = b + 1
      <4>1. b \in start..(start + Len(d) - 1) /\ (b < from \/ from + n <= b)
        <5>1. Len(d) \in Nat
          BY <1>6 DEF Holds
        <5>2. start <= b /\ b < p.offset + p.size /\ b \in Int /\ p.offset <= b
          BY <2>1, <1>1
        <5>3. b < start + Len(d)
          BY <5>1, <5>2, <3>2, <2>1, <1>1
        <5>4. b < from \/ from + n <= b
          BY <5>2, <3>3, <2>1, <1>4
        <5> QED BY <5>1, <5>2, <5>3, <5>4, <1>1
      <4>2. w[b - start + 1] = d[b - start + 1]
        BY <4>1, <1>6 DEF Holds
      <4> QED BY <4>2, <3>2
    <3> QED BY <3>4, <3>5, <1>7 DEF InBuffer
  <2> QED BY <2>2, <2>3
<1> QED BY <1>8 DEF packets, start

\* What a data packet makes of a chunk that is being fetched.
LEMMA Filling ==
    ASSUME Typed, Answers, NEW f \in File, TurnOf(f), NEW m \in net, Data(m),
           m.offset >= ft[m.file].chunk.offset
    PROVE  LET c == ft[f].chunk
               e == Filled(ft[f], m).chunk
           IN  /\ m.file = f /\ c \in Chunks(f) /\ Fetches(f, c, net)
               /\ e.offset = c.offset /\ e.size = c.size /\ e.data \in Seq(0..Size[f])
               /\ Fetches(f, e, net \ {m})
               /\ e.packets # -1 /\ (e.packets = e.received => net = {m})
<1> DEFINE c == ft[f].chunk
           e == Filled(ft[f], m).chunk
           packets == PacketsOf(f, c.offset, c.size)
<1>1. m.file = f /\ Fetches(f, c, net)
  BY Waiting DEF Data, Fetching
<1>2. /\ Answer(m) /\ Size[f] \in Nat /\ c \in Chunks(f)
      /\ Filled(ft[f], m) \in Running(f)
      /\ e.offset = c.offset /\ e.size = c.size
      /\ e.packets = c.packets /\ e.received = c.received + 1
      /\ e.data = Written(c.data, m.offset - c.offset, Bytes(m.offset, m.size))
  BY <1>1, DataIs
<1>3. m.offset + m.size <= Size[f] /\ e.packets = c.packets /\ e.received = c.received + 1
  BY <1>1, <1>2 DEF Answer
<1>4. e.data \in Seq(0..Size[f])
  BY <1>2 DEF Running, Chunks
<1> HIDE DEF c, e
<1>5. \A p \in packets \ (net \ {m}) : InBuffer(e, p)
  BY <1>1, <1>2, <1>3, BufferFills
<1>6. IsFiniteSet(net) /\ Cardinality(net) \in Nat /\ c.packets \in Nat \ {0} /\ c.received \in Nat
  BY <1>1, <1>2, FetchesIs
<1>7. IsFiniteSet(net \ {m}) /\ Cardinality(net \ {m}) = Cardinality(net) - 1
  BY <1>6, FS_RemoveElement
<1>8. Fetches(f, e, net \ {m})
  BY <1>1, <1>2, <1>5, <1>6, <1>7 DEF Fetches
<1>9. e.packets = e.received => net = {m}
  <2>1. HAVE e.packets = e.received
  <2>2. c.received + Cardinality(net) = c.packets
    BY <1>1 DEF Fetches
  <2>3. Cardinality(net \ {m}) = 0
    <3>1. c.received + Cardinality(net) = c.received + 1
      BY <2>1, <2>2, <1>3
    <3>2. Cardinality(net) = 1
      BY <3>1, <1>6
    <3> QED BY <3>2, <1>7
  <2>4. net \ {m} = {}
    BY <2>3, <1>7, FS_EmptySet
  <2> QED BY <2>4
<1> QED BY <1>1, <1>2, <1>4, <1>6, <1>8, <1>9 DEF c, e

\* No transfer but f's changes, and f has no more to ask the user.
LEMMA OthersStay ==
    ASSUME Typed, NEW f \in File, TurnOf(f), NEW t \in Transfers(f), t.phase = "running" \/ net' = {},
           t.phase = "running" => Calm(f)' \/ Fetching(f)', ft' = [ft EXCEPT ![f] = t],
           asking' \subseteq {f}, f \in asking' => t.phase = "asked"
    PROVE  TurnOf(f)'
<1>1. ft'[f] = t /\ \A g \in File \ {f} : ft'[g] = None
  BY DEF Typed, TurnOf
<1> QED BY <1>1 DEF TurnOf

\* Offers and decisions start a transfer with one request at most.
LEMMA UserTurn ==
    ASSUME Typed, Answers, NEW f \in File, Alone(f), TurnOf(f), NEW g \in File,
           FileRequest(g) \/ Accept(g) \/ Refuse(g)
    PROVE  TurnOf(f)'
<1>1. CASE FileRequest(g)
  <2> DEFINE t == [phase |-> "asked"]
  <2>1. g = f /\ ft[f].phase = "none" /\ net' = {}
    BY <1>1 DEF FileRequest, Alone, TurnOf
  <2>2. ft' = [ft EXCEPT ![f] = t] /\ asking' = asking \union {f}
    BY <1>1, <2>1 DEF FileRequest
  <2>3. t \in Transfers(f) /\ t.phase = "asked"
    BY DEF Transfers
  <2>4. asking' \subseteq {f}
    BY <2>2 DEF TurnOf
  <2> HIDE DEF t
  <2> QED BY <2>1, <2>2, <2>3, <2>4, OthersStay
<1>2. ASSUME g \in asking
      PROVE  /\ g = f /\ ft[f].phase = "asked" /\ net = {} /\ asking \ {g} = {}
             /\ Exists(f) /\ \A h \in File \ {f} : ft[h] = None /\ ~Exists(h)
  BY <1>2 DEF TurnOf, Exists, None
<1>3. CASE Accept(g)
  <2>1. /\ g \in asking /\ asking' = asking \ {g}
        /\ ft' = [h \in File |-> IF Exists(h) THEN Started(h) ELSE ft[h]]
        /\ net' = net \union UNION {FirstRequest(h) : h \in {k \in File : Exists(k)}}
    BY <1>3 DEF Accept
  <2>2. ft'[f] = Started(f) /\ Started(f).phase = "running" /\ \A h \in File \ {f} : ft'[h] = None
    BY <2>1, <1>2 DEF Started
  <2>3. net' = FirstRequest(f)
    <3>1. {k \in File : Exists(k)} = {f}
      BY <2>1, <1>2
    <3> QED BY <3>1, <2>1, <1>2
  <2>4. Size[f] \in Nat
    BY SizeIs DEF Typed
  <2>5. Calm(f)'
    BY <2>3, <2>4, FirstRequestIs DEF Calm
  <2> QED BY <2>1, <2>2, <2>5, <1>2 DEF TurnOf
<1>4. CASE Refuse(g)
  <2>1. /\ g \in asking /\ asking' = asking \ {g} /\ net' = net
        /\ ft' = [h \in File |-> IF Exists(h) THEN Gone ELSE ft[h]]
    BY <1>4 DEF Refuse
  <2>2. ft'[f] = Gone /\ Gone.phase = "gone" /\ \A h \in File \ {f} : ft'[h] = None
    BY <2>1, <1>2 DEF Gone
  <2> QED BY <2>1, <2>2, <1>2 DEF TurnOf
<1> QED BY <1>1, <1>3, <1>4

\* Information about a chunk is replaced by exactly its packets.
LEMMA InfoTurn ==
    ASSUME Typed, Answers, world.duplicates = 0, NEW f \in File, TurnOf(f),
           NEW m \in net, ReceiveInfo(m)
    PROVE  TurnOf(f)'
<1> DEFINE c == ChunkStart(m)
           t == [ft[f] EXCEPT !.chunk = c]
           offset == m.offset
           size == m.size
           packets == PacketsOf(f, offset, size)
<1>1. m.file = f /\ net = {m} /\ Answer(m) /\ ft[f].phase = "running" /\ asking' = asking
  BY Waiting DEF ReceiveInfo, Answers
<1>2. net' = packets /\ ft' = [ft EXCEPT ![f] = t]
  BY <1>1, ReceiveInfoInv
<1>3. /\ c.offset = offset /\ c.size = size /\ c.packets = Pieces(size, PacketSize)
      /\ c.received = 0 /\ t \in Running(f) /\ t.chunk = c
      /\ offset \in Nat /\ size \in Nat \ {0}
  BY <1>1, ChunkStartIs DEF Answer
<1> HIDE DEF c, t, offset, size
<1>4. IsFiniteSet(packets) /\ Cardinality(packets) = Pieces(size, PacketSize)
  BY <1>3, PacketsAre
<1>5. Pieces(size, PacketSize) \in Nat
  BY <1>3, PieceIs
<1>6. Fetches(f, c, packets)
  <2>1. packets = PacketsOf(f, c.offset, c.size)
    BY <1>3
  <2> HIDE DEF packets
  <2>2. c.received + Cardinality(packets) = c.packets
    BY <1>3, <1>4, <1>5
  <2>3. c.size > 0
    BY <1>3
  <2> QED BY <1>3, <2>1, <2>2, <2>3 DEF Fetches
<1> HIDE DEF packets
<1>7. ft'[f] = t
  BY <1>2 DEF Typed
<1>8. Fetching(f)'
  BY <1>2, <1>3, <1>6, <1>7 DEF Fetching
<1>9. t \in Transfers(f) /\ t.phase = "running" /\ asking' \subseteq {f} /\ f \notin asking'
  BY <1>1, <1>3 DEF Transfers, Running, TurnOf
<1> QED BY <1>2, <1>8, <1>9, OthersStay

\* A packet leaves the network as its bytes enter the buffer, and the last of a chunk leaves
\* at most one request.
LEMMA DataTurn ==
    ASSUME Typed, Answers, world.duplicates = 0, NEW f \in File, TurnOf(f), NEW m \in net,
           ReceiveData(m) \/ ReceiveLastOfChunk(m) \/ ReceiveLastOfFile(m)
    PROVE  TurnOf(f)'
<1> DEFINE s == Filled(ft[f], m)
           t == [s EXCEPT !.chunksReceived = @ + 1]
           e == s.chunk
<1>1. /\ Data(m) /\ m.offset >= ft[m.file].chunk.offset /\ asking' = asking
  BY DEF ReceiveData, ReceiveLastOfChunk, ReceiveLastOfFile
<1>2. /\ m.file = f /\ Fetches(f, e, net \ {m})
      /\ e.packets # -1 /\ (e.packets = e.received => net = {m})
  BY <1>1, Filling
<1>3. s \in Running(f) /\ t \in Running(f) /\ t.chunk = e
  BY <1>1, <1>2, DataIs
<1>4. Size[f] \in Nat
  BY SizeIs DEF Typed
<1> HIDE DEF s, t
<1>5. t \in Transfers(f) /\ t.phase = "running" /\ asking' \subseteq {f} /\ f \notin asking'
  BY <1>1, <1>2, <1>3 DEF Transfers, Running, TurnOf, Data
<1>6. CASE ReceiveData(m)
  <2>1. net' = net \ {m} /\ ft' = [ft EXCEPT ![f] = t]
    BY <1>2, <1>6, ReceiveDataInv DEF ReceiveData, s, t
  <2>2. ft'[f] = t
    BY <2>1 DEF Typed
  <2>3. Fetching(f)'
    BY <2>1, <2>2, <1>2, <1>3 DEF Fetching
  <2> QED BY <2>1, <2>3, <1>5, OthersStay
<1>7. CASE ReceiveLastOfChunk(m)
  <2>1. net' = (net \ {m}) \union NextRequest(f, s, e) /\ ft' = [ft EXCEPT ![f] = t]
        /\ Counts(s)
    BY <1>2, <1>7, ReceiveLastOfChunkInv DEF ReceiveLastOfChunk, s, t
  <2>2. net' = NextRequest(f, s, e)
    BY <2>1, <1>2 DEF Counts
  <2>3. Calm(f)'
    BY <2>2, <1>3, <1>4, NextRequestIs DEF Calm
  <2> QED BY <2>1, <2>3, <1>5, OthersStay
<1>8. CASE ReceiveLastOfFile(m)
  <2>1. net' = net \ {m} /\ ft' = [ft EXCEPT ![f] = Gone] /\ Counts(s)
    BY <1>2, <1>8, ReceiveLastOfFileInv DEF ReceiveLastOfFile, s
  <2>2. net' = {}
    BY <2>1, <1>2 DEF Counts
  <2>3. Gone \in Transfers(f) /\ Gone.phase = "gone"
    BY DEF Transfers, Gone
  <2> HIDE DEF Gone
  <2> QED BY <2>1, <2>2, <2>3, <1>5, OthersStay
<1> QED BY <1>6, <1>7, <1>8

\* Every step keeps the turn of the file that is offered.
LEMMA TurnStep ==
    ASSUME Typed, Answers, world.duplicates = 0, NEW f \in File, Alone(f), TurnOf(f), [Next]_vars
    PROVE  TurnOf(f)'
<1>1. ASSUME NEW m \in net, ReceiveBehind(m) PROVE TurnOf(f)'
  <2>1. UNCHANGED <<ft, net, asking>>
    BY <1>1 DEF ReceiveBehind
  <2> QED BY <2>1 DEF TurnOf, Calm, Fetching
<1>2. ASSUME NEW m \in net, ReceiveUnknown(m) PROVE TurnOf(f)'
  BY <1>2, Waiting DEF ReceiveUnknown, Exists
<1>3. CASE UNCHANGED vars
  BY <1>3 DEF TurnOf, Calm, Fetching, vars
<1> QED BY <1>1, <1>2, <1>3, UserTurn, InfoTurn, DataTurn DEF Next

\* The program starts with no transfer.
LEMMA IndInvInit == Init => IndInv
<1> SUFFICES ASSUME Init PROVE IndInv
  OBVIOUS
<1>1. world.duplicates \in Nat /\ \A f \in File : <<>> \in Seq(0..Size[f])
  BY SizeIs, EmptySeq DEF Init
<1>2. Typed
  <2>1. duplicated \in 0..world.duplicates
    BY <1>1 DEF Init
  <2>2. \A f \in File : ft[f] \in Transfers(f) /\ disk[f] \in Seq(0..Size[f])
    BY <1>1 DEF Init, Transfers
  <2> QED BY <2>1, <2>2 DEF Init, Typed
<1> QED BY <1>2 DEF Init, IndInv, Answers, InTurn, TurnOf, None

\* Every step keeps the invariant.
LEMMA IndInvStep == IndInv /\ [Next]_vars => IndInv'
<1> SUFFICES ASSUME IndInv, [Next]_vars PROVE IndInv'
  OBVIOUS
<1>1. Typed /\ Answers /\ InTurn
  BY DEF IndInv
<1>2. Typed' /\ Answers'
  BY <1>1, TypedStep
<1>3. world' = world
  BY DEF Next, vars, FileRequest, Accept, Refuse, ReceiveInfo, ReceiveData, ReceiveLastOfChunk,
         ReceiveLastOfFile, ReceiveBehind, ReceiveUnknown
<1>4. ASSUME world.duplicates = 0, NEW f \in File, Alone(f) PROVE TurnOf(f)'
  BY <1>1, <1>4, TurnStep DEF InTurn
<1>5. \A f \in File : Alone(f)' <=> Alone(f)
  BY <1>3 DEF Alone, Size
<1>6. InTurn'
  BY <1>3, <1>4, <1>5 DEF InTurn
<1> QED BY <1>2, <1>6 DEF IndInv

\* Types, what the answers on their way are about, and whose turn it is, hold in every
\* state, for any files, sizes and duplicates (start, handleData).
THEOREM Inductive == Spec => []IndInv
  BY IndInvInit, IndInvStep, PTL DEF Spec

\* The fields of every transfer, and of every file, keep their types: -1 stays the only
\* count of packets that is none (XfireP2PFileChunk, xf_p2p_filetransfer.cpp:115).
THEOREM TypeCorrect == Spec => []TypeOK
<1>1. IndInv => TypeOK
  <2> SUFFICES ASSUME Typed PROVE TypeOK
    BY DEF IndInv
  <2>1. \A f \in File : ft[f].phase \in {"none", "asked", "running", "gone"}
    BY PhaseIs DEF Typed
  <2>2. \A f \in File : ft[f].phase = "running" => ft[f].chunk \in Chunks(f)
    BY PhaseIs DEF Typed, Running
  <2> QED BY <2>1, <2>2 DEF Typed, TypeOK, Chunks
<1> QED BY <1>1, Inductive, PTL

\* However sizes and packets divide, start() asks for each byte of a chunk once
\* (xf_p2p_filetransfer.cpp:167); and where nothing comes twice and one file is offered,
\* the next chunk is asked for when no packet of the last is on its way
\* (xf_p2p_filetransfer.cpp:135).
THEOREM RequestsTiled == Spec => []RequestsTile
<1>1. IndInv => RequestsTile
  <2> SUFFICES ASSUME Typed, Answers, InTurn PROVE RequestsTile
    BY DEF IndInv
  <2>1. PacketsTile
    BY ChunksTile DEF Typed
  <2>2. OneChunkAtATime
    <3> SUFFICES ASSUME Quiet, NEW k \in net, k.type = "info", NEW m \in net
                 PROVE  m.type = "info"
      BY DEF OneChunkAtATime
    <3>1. PICK f \in File : Alone(f) /\ TurnOf(f)
      BY DEF Quiet, Alone, InTurn
    <3> QED BY <3>1, Waiting
  <2> QED BY <2>1, <2>2 DEF RequestsTile
<1> QED BY <1>1, Inductive, PTL

\* The last packet of a chunk finds all others in the buffer, and the buffer goes to the
\* chunk's place in the file.
LEMMA WrittenStep ==
    ASSUME IndInv, [Next]_vars, Quiet, NEW f \in File, disk'[f] # disk[f],
           ft[f].phase = "running"
    PROVE  \A i \in (ft[f].chunk.offset + 1)..(ft[f].chunk.offset + ft[f].chunk.size) :
              disk'[f][i] = i
<1>1. Typed /\ Answers /\ InTurn
  BY DEF IndInv
<1>2. Alone(f) /\ TurnOf(f)
  <2>1. PICK g \in File : Alone(g) /\ TurnOf(g)
    BY <1>1 DEF Quiet, Alone, InTurn
  <2>2. f = g
    BY <2>1 DEF TurnOf, None
  <2> QED BY <2>1, <2>2
<1>3. PICK m \in net : ReceiveLastOfChunk(m) \/ ReceiveLastOfFile(m)
  <2>1. ASSUME NEW g \in File, Accept(g) PROVE disk'[f] = disk[f]
    BY <2>1 DEF Accept
  <2> QED BY <2>1 DEF Next, vars, FileRequest, Refuse, ReceiveInfo, ReceiveData, ReceiveBehind,
                      ReceiveUnknown
<1> DEFINE c == ft[f].chunk
           e == Filled(ft[f], m).chunk
           d == disk[f]
           start == e.offset
           x == e.data
           w == Written(d, start, x)
           packets == PacketsOf(f, c.offset, c.size)
           N == Size[f]
           S == 0..N
<1>4. Data(m) /\ m.offset >= ft[m.file].chunk.offset
  BY <1>3 DEF ReceiveLastOfChunk, ReceiveLastOfFile
<1>5. /\ m.file = f /\ c \in Chunks(f) /\ Fetches(f, c, net)
      /\ start = c.offset /\ e.size = c.size /\ x \in Seq(S)
      /\ Fetches(f, e, net \ {m})
      /\ e.packets # -1 /\ (e.packets = e.received => net = {m})
  BY <1>1, <1>2, <1>4, Filling
<1>6. disk' = [disk EXCEPT ![f] = w] /\ e.packets = e.received
  BY <1>3, <1>5 DEF ReceiveLastOfChunk, ReceiveLastOfFile, Counts
<1>7. disk'[f] = w
  BY <1>1, <1>6 DEF Typed
<1>8. start \in Nat /\ c.size \in Nat /\ d \in Seq(S) /\ 0 \in S
  BY <1>1, <1>5, SizeIs DEF Chunks, Typed
<1>9. /\ Covered(start, start + c.size, packets) /\ Within(f, start, start + c.size, packets)
  BY <1>5, FetchesIs
<1>10. \A p \in packets : InBuffer(e, p)
  BY <1>5, <1>6 DEF Fetches
<1> HIDE DEF c, e, d, x, w, packets, S, start
<1>11. /\ Len(x) \in Nat /\ Len(d) \in Nat
       /\ Len(w) = IF Len(d) > start + Len(x) THEN Len(d) ELSE start + Len(x)
       /\ \A i \in 1..Len(w) : w[i] = IF i > start /\ i <= start + Len(x) THEN x[i - start]
                                      ELSE IF i <= Len(d) THEN d[i] ELSE 0
  <2>1. 0 \in S /\ d \in Seq(S) /\ start \in Nat /\ x \in Seq(S)
    BY <1>5, <1>8
  <2>2. w = Written(d, start, x)
    BY DEF w
  <2> QED BY <2>1, <2>2, LenProperties, Overwritten
<1>12. ASSUME NEW i \in (start + 1)..(start + c.size) PROVE w[i] = i
  <2> DEFINE b == i - 1
  <2>1. b \in start..((start + c.size) - 1) /\ b + 1 = i /\ b - start + 1 = i - start
    BY <1>8
  <2> HIDE DEF b
  <2>2. PICK p \in packets : p.offset <= b /\ b < p.offset + p.size
    BY <2>1, <1>9 DEF Covered
  <2>3. p.offset \in Nat /\ p.size \in Nat
    BY <1>9 DEF Within
  <2>4. /\ p.offset + p.size <= start + Len(x)
        /\ \A k \in p.offset..(p.offset + p.size - 1) : x[k - start + 1] = k + 1
    BY <1>10 DEF InBuffer, start, x
  <2>5. b \in p.offset..(p.offset + p.size - 1)
    BY <2>1, <2>2, <2>3, <1>8
  <2>6. x[i - start] = i
    <3>1. x[b - start + 1] = b + 1
      BY <2>4, <2>5
    <3> QED BY <3>1, <2>1
  <2>7. i > start /\ i <= start + Len(x) /\ i \in Nat
    BY <2>1, <2>2, <2>3, <2>4, <1>8, <1>11
  <2>8. i \in 1..Len(w)
    BY <2>7, <1>8, <1>11
  <2>9. w[i] = x[i - start]
    BY <2>7, <2>8, <1>11
  <2> QED BY <2>6, <2>9
<1> QED BY <1>5, <1>7, <1>12 DEF c, start

\* In whatever order the packets of a chunk come, and however the file divides into chunks
\* and packets: what handleData writes of a chunk is right at every byte
\* (xf_p2p_filetransfer.cpp:131).
THEOREM WrittenIsRight == Spec => WrittenRight
<1>1. IndInv /\ [Next]_vars =>
        [\A f \in File :
            Quiet /\ disk'[f] # disk[f] /\ ft[f].phase = "running" =>
                LET c == ft[f].chunk
                IN  \A i \in (c.offset + 1)..(c.offset + c.size) : disk'[f][i] = i]_vars
  BY WrittenStep
<1> QED BY <1>1, Inductive, PTL DEF Spec, WrittenRight
================================================================================
