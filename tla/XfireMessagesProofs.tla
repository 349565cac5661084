-------------------------- MODULE XfireMessagesProofs --------------------------
(***************************************************************************)
(* Proof of ShownAsWritten.  What one user writes and the other is shown is *)
(* one conversation: what was written, what was shown and what was          *)
(* confirmed, the messages and confirmations on their way over the server,  *)
(* and those on their way directly.  The six ways it can go on are lemmas   *)
(* about these; each action takes one of them in the conversation of its    *)
(* peer and one in the other.                                              *)
(*                                                                         *)
(* Proof of VanishesForAReason and HandshakeIsMutual, from DeliveryInv.  A  *)
(* salt is of the past or all there is between the present logins (Bygone,  *)
(* Meeting); so is that of a direct message (ImsMet), which its receiver    *)
(* knows if he has a session at all.  He has if the network is in time: his *)
(* timer gives up only when nothing is left to hear (Late), and until then  *)
(* his ping or the sender's pong is on its way (Kept).                     *)
(***************************************************************************)
EXTENDS XfireNegotiationProofs

\* The numbers of the messages and confirmations in a queue of the server; the
\* messages come in the order they were written in.
Texts(queue) == {queue[i].n : i \in {j \in DOMAIN queue : queue[j].type = "im"}}
Confirms(queue) == {queue[i].n : i \in {j \in DOMAIN queue : queue[j].type = "confirm"}}
Rising(queue) ==
    \A i, j \in DOMAIN queue :
        i < j /\ queue[i].type = "im" /\ queue[j].type = "im" => queue[i].n < queue[j].n

\* The same of the datagrams for p.
DirectTexts(p) == {d.n : d \in {e \in direct : e.type = "im" /\ e.to = p}}
DirectConfirms(p) == {d.n : d \in {e \in direct : e.type = "confirm" /\ e.to = p}}

Elements(s) == {s[i] : i \in DOMAIN s}

\* One wrote w, the other was shown s and the first was told of c; ts and fs are the
\* messages and confirmations on the server, td and fd those in the network.
Talk(w, s, c, ts, fs, td, fd, lossy) ==
    /\ Elements(s) \subseteq DOMAIN w
    /\ c \subseteq Elements(s) /\ fs \subseteq Elements(s) /\ fd \subseteq Elements(s)
    /\ \A n \in ts : /\ n \in DOMAIN w /\ w[n] = "server"
                     /\ \A m \in Elements(s) : w[m] = "server" => m < n
    /\ \A n \in td : n \in DOMAIN w /\ w[n] = "direct" /\ (~lossy => n \notin Elements(s))
    /\ \A i, j \in DOMAIN s : i < j =>
          /\ w[s[i]] = "server" /\ w[s[j]] = "server" => s[i] < s[j]
          /\ ~lossy => s[i] # s[j]

Ways == {"server", "direct"}

--------------------------------------------------------------------------------
(* How a conversation goes on. *)

\* What is in a sequence to which something is appended.
LEMMA ElementsAppend ==
    ASSUME NEW S, NEW s \in Seq(S), NEW n \in S
    PROVE  Elements(Append(s, n)) = Elements(s) \union {n}
<1>1. /\ Len(s) \in Nat /\ DOMAIN s = 1..Len(s) /\ DOMAIN Append(s, n) = 1..(Len(s) + 1)
      /\ \A i \in 1..Len(s) : Append(s, n)[i] = s[i]
      /\ Append(s, n)[Len(s) + 1] = n
  BY Appending
<1>2. \A i \in 1..(Len(s) + 1) : i \in 1..Len(s) \/ i = Len(s) + 1
  BY <1>1
<1>3. Len(s) + 1 \in 1..(Len(s) + 1) /\ 1..Len(s) \subseteq 1..(Len(s) + 1)
  BY <1>1
<1> QED BY <1>1, <1>2, <1>3 DEF Elements

\* Something is lost or taken away.
LEMMA TalkLoses ==
    ASSUME NEW w, NEW s, NEW c, NEW ts, NEW fs, NEW td, NEW fd, NEW lossy,
           Talk(w, s, c, ts, fs, td, fd, lossy),
           NEW us \in SUBSET ts, NEW gs \in SUBSET fs, NEW ud \in SUBSET td, NEW gd \in SUBSET fd
    PROVE  Talk(w, s, c, us, gs, ud, gd, lossy)
  BY DEF Talk

\* The next message is written, and sent over the server or directly.
LEMMA TalkWrites ==
    ASSUME NEW w \in Seq(Ways), NEW s, NEW c, NEW ts, NEW fs, NEW td, NEW fd, NEW lossy,
           Talk(w, s, c, ts, fs, td, fd, lossy), NEW way \in Ways,
           NEW us \in SUBSET (ts \union (IF way = "server" THEN {Len(w) + 1} ELSE {})),
           NEW ud \in SUBSET (td \union (IF way = "direct" THEN {Len(w) + 1} ELSE {}))
    PROVE  Talk(Append(w, way), s, c, us, fs, ud, fd, lossy)
<1> DEFINE v == Append(w, way)
           next == Len(w) + 1
<1>1. /\ Len(w) \in Nat /\ DOMAIN w = 1..Len(w) /\ DOMAIN v = 1..next
      /\ \A i \in 1..Len(w) : v[i] = w[i]
      /\ v[next] = way
  BY Appending DEF Ways
<1>2. next \in DOMAIN v /\ next \notin DOMAIN w /\ DOMAIN w \subseteq DOMAIN v
      /\ \A m \in DOMAIN w : m < next /\ v[m] = w[m]
  BY <1>1
<1> HIDE DEF v, next
<1>3. Elements(s) \subseteq DOMAIN w /\ \A i \in DOMAIN s : s[i] \in DOMAIN w
  BY DEF Talk, Elements
<1>4. \A n \in us : /\ n \in DOMAIN v /\ v[n] = "server"
                    /\ \A m \in Elements(s) : v[m] = "server" => m < n
  <2>1. TAKE n \in us
  <2>2. CASE n \in ts
    BY <2>2, <1>2, <1>3 DEF Talk
  <2>3. CASE n = next /\ way = "server"
    BY <2>3, <1>1, <1>2, <1>3
  <2> QED BY <2>1, <2>2, <2>3 DEF next
<1>5. \A n \in ud : n \in DOMAIN v /\ v[n] = "direct" /\ (~lossy => n \notin Elements(s))
  <2>1. TAKE n \in ud
  <2>2. CASE n \in td
    BY <2>2, <1>2 DEF Talk
  <2>3. CASE n = next /\ way = "direct"
    BY <2>3, <1>1, <1>2, <1>3
  <2> QED BY <2>1, <2>2, <2>3 DEF next
<1>6. \A i, j \in DOMAIN s : i < j =>
          /\ v[s[i]] = "server" /\ v[s[j]] = "server" => s[i] < s[j]
          /\ ~lossy => s[i] # s[j]
  BY <1>2, <1>3 DEF Talk
<1>7. Talk(v, s, c, us, fs, ud, fd, lossy)
  BY <1>2, <1>3, <1>4, <1>5, <1>6 DEF Talk
<1> QED BY <1>7 DEF v

\* A message that came over the server, or directly, is shown and confirmed.
LEMMA TalkShows ==
    ASSUME NEW w \in Seq(Ways), NEW s \in Seq(Number), NEW c, NEW ts, NEW fs, NEW td, NEW fd,
           NEW lossy, Talk(w, s, c, ts, fs, td, fd, lossy),
           NEW n \in Number, n \in ts \union td,
           NEW us \in SUBSET ts, n \in ts => \A m \in us : n < m,
           NEW ud \in SUBSET td, ~lossy => n \notin ud,
           NEW gs \in SUBSET (fs \union {n}), NEW gd \in SUBSET (fd \union {n})
    PROVE  Talk(w, Append(s, n), c, us, gs, ud, gd, lossy)
<1> DEFINE t == Append(s, n)
<1>1. /\ Len(s) \in Nat /\ DOMAIN s = 1..Len(s) /\ DOMAIN t = 1..(Len(s) + 1)
      /\ \A i \in 1..Len(s) : t[i] = s[i]
      /\ t[Len(s) + 1] = n
  BY Appending
<1>2. Elements(t) = Elements(s) \union {n}
  BY ElementsAppend
<1>3. /\ n \in DOMAIN w
      /\ n \in ts => w[n] = "server" /\ \A m \in Elements(s) : w[m] = "server" => m < n
      /\ n \in td => w[n] = "direct" /\ (~lossy => n \notin Elements(s))
  BY DEF Talk
<1> HIDE DEF t
<1>4. \A m \in us : /\ m \in DOMAIN w /\ w[m] = "server"
                    /\ \A k \in Elements(t) : w[k] = "server" => k < m
  BY <1>2, <1>3 DEF Talk
<1>5. \A m \in ud : m \in DOMAIN w /\ w[m] = "direct" /\ (~lossy => m \notin Elements(t))
  <2>1. TAKE m \in ud
  <2>2. m \in DOMAIN w /\ w[m] = "direct" /\ (~lossy => m \notin Elements(s))
    BY DEF Talk
  <2> QED BY <2>1, <2>2, <1>2
<1>6. ASSUME NEW i \in DOMAIN s
      PROVE  /\ w[s[i]] = "server" /\ w[n] = "server" => s[i] < n
             /\ ~lossy => s[i] # n
  <2>1. s[i] \in Elements(s) /\ s[i] \in Number
    BY ElementOfSeq, <1>1 DEF Elements
  <2>2. CASE n \in ts
    <3>1. w[n] = "server" /\ (w[s[i]] = "server" => s[i] < n)
      BY <2>1, <2>2, <1>3
    <3>2. s[i] # n
      BY <3>1, <2>1 DEF Number
    <3> QED BY <3>1, <3>2
  <2>3. CASE n \in td
    BY <2>1, <2>3, <1>3
  <2> QED BY <2>2, <2>3
<1>7. \A i, j \in DOMAIN t : i < j =>
          /\ w[t[i]] = "server" /\ w[t[j]] = "server" => t[i] < t[j]
          /\ ~lossy => t[i] # t[j]
  <2>1. SUFFICES ASSUME NEW i \in DOMAIN t, NEW j \in DOMAIN t, i < j
                 PROVE  /\ w[t[i]] = "server" /\ w[t[j]] = "server" => t[i] < t[j]
                        /\ ~lossy => t[i] # t[j]
    OBVIOUS
  <2>2. i \in DOMAIN s /\ t[i] = s[i] /\ (j \in DOMAIN s \/ j = Len(s) + 1)
    BY <2>1, <1>1
  <2>3. CASE j \in DOMAIN s
    BY <2>1, <2>2, <2>3, <1>1 DEF Talk
  <2>4. CASE j = Len(s) + 1
    BY <2>2, <2>4, <1>1, <1>6
  <2> QED BY <2>2, <2>3, <2>4
<1>8. Talk(w, t, c, us, gs, ud, gd, lossy)
  BY <1>2, <1>3, <1>4, <1>5, <1>7 DEF Talk
<1> QED BY <1>8 DEF t

\* A confirmation came.
LEMMA TalkConfirms ==
    ASSUME NEW w, NEW s, NEW c, NEW ts, NEW fs, NEW td, NEW fd, NEW lossy,
           Talk(w, s, c, ts, fs, td, fd, lossy), NEW n \in fs \union fd
    PROVE  Talk(w, s, c \union {n}, ts, fs, td, fd, lossy)
  BY DEF Talk

--------------------------------------------------------------------------------
(* Queues and datagrams. *)

\* Messages in a queue when the first packet is taken out,
LEMMA QueueTail ==
    ASSUME NEW queue \in Seq(Packets), queue # <<>>
    PROVE  /\ Texts(Tail(queue)) \subseteq Texts(queue)
           /\ Confirms(Tail(queue)) \subseteq Confirms(queue)
           /\ Rising(queue) => Rising(Tail(queue))
           /\ Head(queue).type = "im" =>
                 /\ Head(queue).n \in Texts(queue)
                 /\ Rising(queue) => \A n \in Texts(Tail(queue)) : Head(queue).n < n
           /\ Head(queue).type = "confirm" => Head(queue).n \in Confirms(queue)
<1> DEFINE u == Tail(queue)
<1>1. /\ Len(queue) \in Nat /\ Len(queue) >= 1 /\ DOMAIN queue = 1..Len(queue)
      /\ Head(queue) = queue[1] /\ DOMAIN u = 1..(Len(queue) - 1)
      /\ \A i \in 1..(Len(queue) - 1) : u[i] = queue[i + 1]
  BY Dropping
<1>2. /\ 1 \in DOMAIN queue
      /\ \A i \in DOMAIN u : i + 1 \in DOMAIN queue /\ 1 < i + 1 /\ u[i] = queue[i + 1]
      /\ \A i, j \in DOMAIN u : i < j => i + 1 < j + 1
  BY <1>1
<1> HIDE DEF u
<1>3. Texts(u) \subseteq Texts(queue) /\ Confirms(u) \subseteq Confirms(queue)
  BY <1>2 DEF Texts, Confirms
<1>4. Rising(queue) => Rising(u)
  <2>1. SUFFICES ASSUME Rising(queue), NEW i \in DOMAIN u, NEW j \in DOMAIN u, i < j,
                        u[i].type = "im", u[j].type = "im"
                 PROVE  u[i].n < u[j].n
    BY DEF Rising
  <2>2. /\ i + 1 \in DOMAIN queue /\ j + 1 \in DOMAIN queue /\ i + 1 < j + 1
        /\ u[i] = queue[i + 1] /\ u[j] = queue[j + 1]
    BY <1>2, <2>1
  <2> QED BY <2>1, <2>2 DEF Rising
<1>5. ASSUME Head(queue).type = "im"
      PROVE  /\ Head(queue).n \in Texts(queue)
             /\ Rising(queue) => \A n \in Texts(u) : Head(queue).n < n
  BY <1>1, <1>2, <1>5 DEF Texts, Rising
<1>6. Head(queue).type = "confirm" => Head(queue).n \in Confirms(queue)
  BY <1>1, <1>2 DEF Confirms
<1> QED BY <1>3, <1>4, <1>5, <1>6 DEF u

\* and when one is appended.
LEMMA QueueAppend ==
    ASSUME NEW queue \in Seq(Packets), NEW m \in Packets
    PROVE  /\ Texts(Append(queue, m)) \subseteq
                 Texts(queue) \union (IF m.type = "im" THEN {m.n} ELSE {})
           /\ Confirms(Append(queue, m)) \subseteq
                 Confirms(queue) \union (IF m.type = "confirm" THEN {m.n} ELSE {})
           /\ Rising(queue) /\ (m.type = "im" => \A n \in Texts(queue) : n < m.n)
              => Rising(Append(queue, m))
<1> DEFINE u == Append(queue, m)
           l == Len(queue)
<1>1. /\ l \in Nat /\ DOMAIN queue = 1..l /\ DOMAIN u = 1..(l + 1)
      /\ \A i \in 1..l : u[i] = queue[i]
      /\ u[l + 1] = m
  BY Appending
<1>2. /\ \A i \in DOMAIN u : (i \in DOMAIN queue /\ u[i] = queue[i]) \/ (i = l + 1 /\ u[i] = m)
      /\ \A i, j \in DOMAIN u : i < j => i \in DOMAIN queue
  BY <1>1
<1> HIDE DEF u, l
<1>3. /\ Texts(u) \subseteq Texts(queue) \union (IF m.type = "im" THEN {m.n} ELSE {})
      /\ Confirms(u) \subseteq Confirms(queue) \union (IF m.type = "confirm" THEN {m.n} ELSE {})
  BY <1>2 DEF Texts, Confirms
<1>4. ASSUME Rising(queue), m.type = "im" => \A n \in Texts(queue) : n < m.n
      PROVE  Rising(u)
  <2>1. SUFFICES ASSUME NEW i \in DOMAIN u, NEW j \in DOMAIN u, i < j,
                        u[i].type = "im", u[j].type = "im"
                 PROVE  u[i].n < u[j].n
    BY DEF Rising
  <2>2. i \in DOMAIN queue /\ u[i] = queue[i]
    BY <1>1, <1>2, <2>1
  <2>3. CASE j \in DOMAIN queue
    BY <1>1, <1>4, <2>1, <2>2, <2>3 DEF Rising
  <2>4. CASE u[j] = m
    <3>1. queue[i].n \in Texts(queue)
      BY <2>1, <2>2 DEF Texts
    <3> QED BY <1>4, <2>1, <2>2, <2>4, <3>1
  <2> QED BY <1>2, <2>3, <2>4
<1> QED BY <1>3, <1>4 DEF u

\* A queue that has no messages and confirmations but those of another, in its order.
Thins(old, new) ==
    /\ Texts(new) \subseteq Texts(old) /\ Confirms(new) \subseteq Confirms(old)
    /\ Rising(old) => Rising(new)

\* When no message enters a queue.
LEMMA QueueThins ==
    ASSUME NEW queue \in Seq(Packets)
    PROVE  /\ Thins(queue, queue) /\ Thins(queue, <<>>)
           /\ queue # <<>> => Thins(queue, Tail(queue))
           /\ \A m \in Packets : m.type \in {"info", "sid"} => Thins(queue, Append(queue, m))
<1>1. Thins(queue, <<>>)
  BY EmptySeq, LenProperties DEF Thins, Texts, Confirms, Rising
<1>2. Thins(queue, queue) /\ (queue # <<>> => Thins(queue, Tail(queue)))
  BY QueueTail DEF Thins
<1>3. \A m \in Packets : m.type \in {"info", "sid"} => Thins(queue, Append(queue, m))
  BY QueueAppend DEF Thins
<1> QED BY <1>1, <1>2, <1>3

\* The server hands a packet on, or drops it.
LEMMA Relayed ==
    ASSUME NEW p \in Peer, NEW m \in Packets, NEW queues \in [Peer -> Seq(Packets)],
           NEW new, new = Relay(queues, p, m)
    PROVE  /\ new \in [Peer -> Seq(Packets)] /\ new[p] = queues[p]
           /\ \/ new[Other(p)] = queues[Other(p)]
              \/ new[Other(p)] = Append(queues[Other(p)], m)
  BY RelayIs

\* Setting up sessions, and logins, bring no messages and leave them in order.
LEMMA NegotiationThins ==
    ASSUME TypeOK, NEW p \in Peer, Negotiates(p) \/ Quit(p) \/ Return(p)
    PROVE  \A r \in Peer : Thins(info[r], info'[r])
<1>1. /\ Other(p) \in Peer /\ \A q \in Peer : q = p \/ q = Other(p)
      /\ info \in [Peer -> Seq(Packets)]
      /\ info[p] \in Seq(Packets) /\ info[Other(p)] \in Seq(Packets)
  BY TwoPeers DEF TypeOK
<1>2. CASE UNCHANGED info
  BY <1>1, <1>2, QueueThins
<1>3. ASSUME info[p] # <<>>, info' = Consumed(p)
      PROVE  \A r \in Peer : Thins(info[r], info'[r])
  BY <1>1, <1>3, ConsumedIs, QueueThins, ZenonT(60)
<1>4. ASSUME info[p] # <<>>, Head(info[p]).type = "info", NEW real \in BOOLEAN,
             info' = Tell(p, Head(info[p]).salt, real)
      PROVE  \A r \in Peer : Thins(info[r], info'[r])
  <2> DEFINE m == Info(p, Head(info[p]).salt, real)
  <2>1. m \in Packets /\ m.type = "info"
    BY <1>4, ConsumedIs, PacketIs, PacketsAre DEF Info
  <2> HIDE DEF m
  <2>2. info' = Relay(Consumed(p), p, m)
    BY <1>4 DEF Tell, m
  <2>3. /\ Consumed(p) \in [Peer -> Seq(Packets)] /\ Consumed(p)[p] = Tail(info[p])
        /\ Consumed(p)[Other(p)] = info[Other(p)]
    BY <1>4, ConsumedIs
  <2>4. info'[p] = Tail(info[p]) /\ (info'[Other(p)] = info[Other(p)] \/ Gave(p, m))
    BY <2>1, <2>2, <2>3, GaveIs
  <2>5. Thins(info[Other(p)], info'[Other(p)])
    BY <1>1, <2>1, <2>4, QueueThins DEF Gave
  <2> QED BY <1>1, <1>4, <2>4, <2>5, QueueThins
<1>5. ASSUME NEW n \in Login \union {0}, Announce(p, n)
      PROVE  \A r \in Peer : Thins(info[r], info'[r])
  <2>1. SessionIs(n) \in Packets /\ SessionIs(n).type = "sid"
    BY <1>5, PacketsAre DEF SessionIs
  <2>2. /\ info'[p] = <<>>
        /\ \/ info'[Other(p)] = info[Other(p)]
           \/ info'[Other(p)] = Append(info[Other(p)], SessionIs(n))
    BY <1>5, AnnounceIs
  <2>3. Thins(info[Other(p)], info'[Other(p)])
    BY <1>1, <2>1, <2>2, QueueThins
  <2> QED BY <1>1, <2>2, <2>3, QueueThins
<1>6. CASE InfoDenied(p)
  BY <1>4, <1>6 DEF InfoDenied, Waiting
<1>7. CASE InfoCompatible(p) \/ InfoIncompatible(p)
  BY <1>3, <1>4, <1>7 DEF InfoCompatible, InfoIncompatible, Judges, Waiting, Answer
<1>8. CASE HandleSession(p)
  BY <1>3, <1>8 DEF HandleSession, Waiting
<1>9. CASE Quit(p)
  BY <1>5, <1>9 DEF Quit
<1>10. CASE Return(p)
  BY <1>5, <1>10 DEF Return, Login
<1> QED BY <1>2, <1>6, <1>7, <1>8, <1>9, <1>10
        DEF Negotiates, HandlesInfo, ChecksSession, PongOverdue, PingAgain, SessionTimeout,
            ReceivePing, ReceivePong, ReceiveUnknown, ReceiveOnDangling

--------------------------------------------------------------------------------
(* The two conversations. *)

\* What the other side wrote to p.
Conversation(p) ==
    LET q == Other(p)
    IN  Talk(written[q], shown[p], confirmed[q], Texts(info[p]), Confirms(info[q]),
             DirectTexts(p), DirectConfirms(q), Lossy)

\* Where UDP repeats nothing a message is in one datagram.
Single ==
    ~Lossy => \A d, e \in direct :
        d.type = "im" /\ e.type = "im" /\ d.to = e.to /\ d.n = e.n => d = e

Chats ==
    /\ \A p \in Peer : Conversation(p)
    /\ \A p \in Peer : Rising(info[p])
    /\ Single

\* Neither writes nor is shown anything.
LEMMA ChatThins ==
    ASSUME TypesOK, Chats, UNCHANGED <<world, written, shown, confirmed>>, direct' \subseteq direct,
           \A r \in Peer : Thins(info[r], info'[r])
    PROVE  Chats'
<1>1. ASSUME NEW p \in Peer PROVE Conversation(p)'
  <2> DEFINE q == Other(p)
  <2>1. q \in Peer
    BY TwoPeers
  <2>2. /\ Texts(info'[p]) \subseteq Texts(info[p]) /\ Confirms(info'[q]) \subseteq Confirms(info[q])
        /\ DirectTexts(p)' \subseteq DirectTexts(p) /\ DirectConfirms(q)' \subseteq DirectConfirms(q)
    BY <2>1 DEF Thins, DirectTexts, DirectConfirms
  <2>3. Talk(written[q], shown[p], confirmed[q], Texts(info[p]), Confirms(info[q]),
             DirectTexts(p), DirectConfirms(q), Lossy)
    BY DEF Chats, Conversation
  <2> HIDE DEF q
  <2>4. Talk(written[q], shown[p], confirmed[q], Texts(info'[p]), Confirms(info'[q]),
             DirectTexts(p)', DirectConfirms(q)', Lossy)
    BY <2>2, <2>3, TalkLoses
  <2>5. Lossy' = Lossy
    BY DEF Lossy
  <2> QED BY <2>4, <2>5 DEF Conversation, q
<1>2. Single'
  BY DEF Chats, Single, Lossy
<1>3. \A p \in Peer : Rising(info'[p])
  BY DEF Chats, Thins
<1> QED BY <1>1, <1>2, <1>3 DEF Chats

\* A user writes, and the message goes over the server.
LEMMA WriteOverServer ==
    ASSUME TypesOK, Chats, NEW p \in Peer, SendOverServer(p)
    PROVE  Chats'
<1> DEFINE q == Other(p)
           n == NextNumber(p)
           text == OverServer(p, "im", n)
<1>1. /\ q \in Peer /\ q # p /\ Other(q) = p /\ (\A r \in Peer : r = p \/ r = q)
      /\ TypeOK /\ info \in [Peer -> Seq(Packets)] /\ info[q] \in Seq(Packets)
      /\ written \in [Peer -> Seq(Ways)]
  BY TwoPeers DEF TypesOK, TypeOK, Ways
<1>2. n \in Number /\ n = Len(written[p]) + 1 /\ Len(written[p]) \in Nat
  <2>1. Len(written[p]) \in Nat /\ Len(written[p]) < world.texts[p]
    BY <1>1, LenProperties DEF SendOverServer, CanWrite
  <2> QED BY <1>1, <2>1, WorldTyped, BoundsAssumption DEF NextNumber, Number
<1>3. text \in Packets /\ text.type = "im" /\ text.n = n
  BY <1>1, <1>2, PacketsAre DEF OverServer, Number
<1>4. /\ written' = [written EXCEPT ![p] = Append(@, "server")]
      /\ UNCHANGED <<world, shown, confirmed, direct>>
  BY DEF SendOverServer, Wrote
<1>r. ASSUME NEW m \in Packets, NEW queues \in [Peer -> Seq(Packets)],
             NEW new, new = Relay(queues, p, m)
      PROVE  /\ new \in [Peer -> Seq(Packets)] /\ new[p] = queues[p]
             /\ new[q] = queues[q] \/ new[q] = Append(queues[q], m)
  BY <1>r, Relayed
<1> HIDE DEF q, n, text
<1>5. written'[p] = Append(written[p], "server") /\ written'[q] = written[q]
  BY <1>1, <1>4
<1>6. Talk(written[p], shown[q], confirmed[p], Texts(info[q]), Confirms(info[p]),
           DirectTexts(q), DirectConfirms(p), Lossy)
  BY <1>1 DEF Chats, Conversation
<1>7. \A m \in Texts(info[q]) : m < n
  <2>1. Texts(info[q]) \subseteq DOMAIN written[p] /\ DOMAIN written[p] = 1..Len(written[p])
    BY <1>1, <1>6, LenProperties DEF Talk
  <2> QED BY <1>2, <2>1
\* The queue of the other side, with or without a request before the message.
<1>8. ASSUME NEW queue \in Seq(Packets), Thins(info[q], queue)
      PROVE  /\ Texts(Append(queue, text)) \subseteq Texts(info[q]) \union {n}
             /\ Confirms(Append(queue, text)) \subseteq Confirms(info[q])
             /\ Rising(Append(queue, text))
  <2>1. \A m \in Texts(queue) : m < text.n
    BY <1>3, <1>7, <1>8 DEF Thins
  <2>2. Rising(queue)
    BY <1>1, <1>8 DEF Chats, Thins
  <2> QED BY <1>3, <1>8, <2>1, <2>2, QueueAppend DEF Thins
<1>9. /\ info'[p] = info[p]
      /\ \/ Thins(info[q], info'[q])
         \/ \E queue \in Seq(Packets) : Thins(info[q], queue) /\ info'[q] = Append(queue, text)
  <2>1. CASE AsksForP2P(p)
    <3> DEFINE ask == Info(p, OwnSalt(p), TRUE)
               queues == Requested(p)
    <3>1. ask \in Packets /\ ask.type = "info"
      BY <1>1, PacketsAre, LiveTyped DEF Info
    <3>2. info' = Relay(queues, p, text) /\ queues = Relay(info, p, ask)
      BY <2>1 DEF SendOverServer, Requested, text, n
    <3> HIDE DEF ask, queues
    <3>3. /\ queues \in [Peer -> Seq(Packets)] /\ queues[p] = info[p]
          /\ queues[q] = info[q] \/ queues[q] = Append(info[q], ask)
      BY <1>1, <1>r, <3>1, <3>2
    <3>4. queues[q] \in Seq(Packets) /\ Thins(info[q], queues[q])
      BY <1>1, <3>1, <3>3, QueueThins
    <3>5. /\ info'[p] = queues[p]
          /\ info'[q] = queues[q] \/ info'[q] = Append(queues[q], text)
      BY <1>3, <1>r, <3>2, <3>3
    <3> QED BY <3>3, <3>4, <3>5
  <2>2. CASE ~AsksForP2P(p)
    <3>1. info' = Relay(info, p, text)
      BY <2>2 DEF SendOverServer, text, n
    <3>2. info'[p] = info[p] /\ (info'[q] = info[q] \/ info'[q] = Append(info[q], text))
      BY <1>1, <1>3, <1>r, <3>1
    <3> QED BY <1>1, <3>2, QueueThins
  <2> QED BY <2>1, <2>2
<1>10. /\ Texts(info'[q]) \subseteq Texts(info[q]) \union {n}
       /\ Confirms(info'[q]) \subseteq Confirms(info[q]) /\ Rising(info'[q])
  <2>1. CASE Thins(info[q], info'[q])
    BY <1>1, <2>1 DEF Chats, Thins
  <2>2. CASE \E queue \in Seq(Packets) : Thins(info[q], queue) /\ info'[q] = Append(queue, text)
    BY <1>8, <2>2
  <2> QED BY <1>9, <2>1, <2>2
<1>11. /\ Lossy' = Lossy
       /\ \A r \in Peer : DirectTexts(r)' = DirectTexts(r) /\ DirectConfirms(r)' = DirectConfirms(r)
  BY <1>4 DEF Lossy, DirectTexts, DirectConfirms
<1>12. Conversation(q)'
  <2>1. Talk(Append(written[p], "server"), shown[q], confirmed[p], Texts(info'[q]),
             Confirms(info[p]), DirectTexts(q), DirectConfirms(p), Lossy)
    BY <1>1, <1>2, <1>6, <1>10, TalkWrites DEF Ways
  <2> QED BY <1>1, <1>4, <1>5, <1>9, <1>11, <2>1 DEF Conversation
<1>13. Conversation(p)'
  <2>1. Talk(written[q], shown[p], confirmed[q], Texts(info[p]), Confirms(info[q]),
             DirectTexts(p), DirectConfirms(q), Lossy)
    BY <1>1 DEF Chats, Conversation, q
  <2>2. Talk(written[q], shown[p], confirmed[q], Texts(info[p]), Confirms(info'[q]),
             DirectTexts(p), DirectConfirms(q), Lossy)
    BY <1>10, <2>1, TalkLoses
  <2> QED BY <1>1, <1>4, <1>5, <1>9, <1>11, <2>2 DEF Conversation, q
<1>14. \A r \in Peer : Rising(info'[r])
  BY <1>1, <1>9, <1>10 DEF Chats
<1>15. Single'
  BY <1>4 DEF Chats, Single, Lossy
<1> QED BY <1>1, <1>12, <1>13, <1>14, <1>15 DEF Chats

\* A user writes, and the message goes directly.
LEMMA WriteDirectly ==
    ASSUME TypesOK, Chats, NEW p \in Peer, SendDirectly(p)
    PROVE  Chats'
<1> DEFINE q == Other(p)
           n == NextNumber(p)
           sent == Data(p, session[p], "im", n)
<1>1. /\ q \in Peer /\ q # p /\ Other(q) = p /\ (\A r \in Peer : r = p \/ r = q)
      /\ TypeOK /\ written \in [Peer -> Seq(Ways)]
  BY TwoPeers DEF TypesOK, TypeOK, Ways
<1>2. n \in Number /\ n = Len(written[p]) + 1 /\ Len(written[p]) \in Nat
  <2>1. Len(written[p]) \in Nat /\ Len(written[p]) < world.texts[p]
    BY <1>1, LenProperties DEF SendDirectly, CanWrite
  <2> QED BY <1>1, <2>1, WorldTyped, BoundsAssumption DEF NextNumber, Number
<1>3. \A d \in sent : d.to = q /\ d.type = "im" /\ d.n = n
  BY <1>1, <1>2, DataIs DEF SendDirectly, Active
<1>4. /\ written' = [written EXCEPT ![p] = Append(@, "direct")]
      /\ UNCHANGED <<world, shown, confirmed, info>> /\ direct' = direct \union sent
  BY DEF SendDirectly, Wrote, vars
<1>5. \A d, e \in sent : d = e
  BY DEF Data
<1> HIDE DEF q, n, sent
<1>6. written'[p] = Append(written[p], "direct") /\ written'[q] = written[q]
  BY <1>1, <1>4
<1>7. Talk(written[p], shown[q], confirmed[p], Texts(info[q]), Confirms(info[p]),
           DirectTexts(q), DirectConfirms(p), Lossy)
  BY <1>1 DEF Chats, Conversation
<1>8. n \notin DirectTexts(q)
  <2>1. DirectTexts(q) \subseteq DOMAIN written[p] /\ DOMAIN written[p] = 1..Len(written[p])
    BY <1>1, <1>7, LenProperties DEF Talk
  <2> QED BY <1>2, <2>1
<1>9. /\ Lossy' = Lossy /\ DirectTexts(q)' \subseteq DirectTexts(q) \union {n}
      /\ DirectTexts(p)' \subseteq DirectTexts(p)
      /\ \A r \in Peer : DirectConfirms(r)' \subseteq DirectConfirms(r)
  BY <1>1, <1>3, <1>4 DEF Lossy, DirectTexts, DirectConfirms
<1>10. Conversation(q)'
  <2>1. Talk(Append(written[p], "direct"), shown[q], confirmed[p], Texts(info[q]),
             Confirms(info[p]), DirectTexts(q)', DirectConfirms(p), Lossy)
    BY <1>1, <1>2, <1>7, <1>9, TalkWrites DEF Ways
  <2>2. Talk(Append(written[p], "direct"), shown[q], confirmed[p], Texts(info[q]),
             Confirms(info[p]), DirectTexts(q)', DirectConfirms(p)', Lossy)
    BY <1>1, <1>9, <2>1, TalkLoses
  <2> QED BY <1>1, <1>4, <1>6, <1>9, <2>2 DEF Conversation
<1>11. Conversation(p)'
  <2>1. Talk(written[q], shown[p], confirmed[q], Texts(info[p]), Confirms(info[q]),
             DirectTexts(p), DirectConfirms(q), Lossy)
    BY <1>1 DEF Chats, Conversation, q
  <2>2. Talk(written[q], shown[p], confirmed[q], Texts(info[p]), Confirms(info[q]),
             DirectTexts(p)', DirectConfirms(q)', Lossy)
    BY <1>1, <1>9, <2>1, TalkLoses
  <2> QED BY <1>1, <1>4, <1>6, <1>9, <2>2 DEF Conversation, q
<1>12. Single'
  <2>1. SUFFICES ASSUME ~Lossy, NEW d \in direct', NEW e \in direct',
                        d.type = "im", e.type = "im", d.to = e.to, d.n = e.n
                 PROVE  d = e
    BY <1>9 DEF Single
  <2>2. CASE d \in direct /\ e \in direct
    BY <2>1, <2>2 DEF Chats, Single
  <2>3. CASE d \in sent /\ e \in sent
    BY <2>3, <1>5
  <2>4. ~(d \in direct /\ e \in sent) /\ ~(d \in sent /\ e \in direct)
    BY <2>1, <1>3, <1>8 DEF DirectTexts
  <2> QED BY <2>2, <2>3, <2>4, <1>4
<1>13. \A r \in Peer : Rising(info'[r])
  BY <1>4 DEF Chats
<1> QED BY <1>1, <1>10, <1>11, <1>12, <1>13 DEF Chats

\* A message comes over the server: it is shown, and its confirmation goes back.
LEMMA TextFromServer ==
    ASSUME TypesOK, Chats, NEW p \in Peer, HandleText(p)
    PROVE  Chats'
<1> DEFINE q == Other(p)
           n == Head(info[p]).n
           conf == OverServer(p, "confirm", n)
<1>1. /\ q \in Peer /\ q # p /\ Other(q) = p /\ (\A r \in Peer : r = p \/ r = q)
      /\ TypeOK /\ info[p] \in Seq(Packets) /\ info[q] \in Seq(Packets) /\ info[p] # <<>>
      /\ written[q] \in Seq(Ways) /\ shown \in [Peer -> Seq(Number)]
  BY TwoPeers DEF TypesOK, TypeOK, Ways, HandleText, Waiting
<1>2. Head(info[p]) \in Packets /\ Head(info[p]).type = "im" /\ n \in Number
  BY <1>1, ConsumedIs, PacketIs DEF HandleText, Waiting, Number
<1>3. conf \in Packets /\ conf.type = "confirm" /\ conf.n = n
  BY <1>1, <1>2, PacketsAre DEF OverServer, Number
<1>4. /\ shown' = [shown EXCEPT ![p] = Append(@, n)]
      /\ info' = Relay(Consumed(p), p, conf)
      /\ UNCHANGED <<world, written, confirmed, direct>>
  BY DEF HandleText, ReceivedMessage
<1>5. n \in Texts(info[p]) /\ \A m \in Texts(Tail(info[p])) : n < m
  BY <1>1, <1>2, QueueTail DEF Chats
<1>6. /\ Consumed(p) \in [Peer -> Seq(Packets)]
      /\ Consumed(p)[p] = Tail(info[p]) /\ Consumed(p)[q] = info[q]
  BY <1>1, ConsumedIs
<1> HIDE DEF q, n, conf
<1>7. shown'[p] = Append(shown[p], n) /\ shown'[q] = shown[q]
  BY <1>1, <1>4
<1>8. info'[p] = Tail(info[p]) /\ (info'[q] = info[q] \/ info'[q] = Append(info[q], conf))
  <2> DEFINE queues == Consumed(p)
  <2>1. info' = Relay(queues, p, conf)
    BY <1>4
  <2> HIDE DEF queues
  <2>2. /\ info'[p] = queues[p]
        /\ info'[q] = queues[q] \/ info'[q] = Append(queues[q], conf)
    <3>1. queues \in [Peer -> Seq(Packets)]
      BY <1>6 DEF queues
    <3> QED BY <1>3, <2>1, <3>1, Relayed DEF q
  <2> QED BY <1>6, <2>2 DEF queues
<1>9. /\ Texts(info'[p]) \subseteq Texts(info[p]) /\ Confirms(info'[p]) \subseteq Confirms(info[p])
      /\ Rising(info'[p]) /\ Texts(info'[q]) \subseteq Texts(info[q])
      /\ Confirms(info'[q]) \subseteq Confirms(info[q]) \union {n} /\ Rising(info'[q])
  <2>1. Thins(info[p], info'[p]) /\ Rising(info[p]) /\ Rising(info[q])
    BY <1>1, <1>8, QueueThins DEF Chats
  <2>2. CASE info'[q] = info[q]
    BY <2>1, <2>2 DEF Thins
  <2>3. CASE info'[q] = Append(info[q], conf)
    BY <1>1, <1>3, <2>1, <2>3, QueueAppend DEF Thins
  <2> QED BY <1>8, <2>2, <2>3
<1>10. /\ Lossy' = Lossy
       /\ \A r \in Peer : DirectTexts(r)' = DirectTexts(r) /\ DirectConfirms(r)' = DirectConfirms(r)
  BY <1>4 DEF Lossy, DirectTexts, DirectConfirms
<1>11. Conversation(p)'
  <2>1. Talk(written[q], shown[p], confirmed[q], Texts(info[p]), Confirms(info[q]),
             DirectTexts(p), DirectConfirms(q), Lossy)
    BY <1>1 DEF Chats, Conversation, q
  <2>2. n \notin DirectTexts(p)
    <3>1. written[q][n] = "server"
      BY <1>5, <2>1 DEF Talk
    <3>2. \A m \in DirectTexts(p) : written[q][m] = "direct"
      BY <2>1 DEF Talk
    <3> QED BY <3>1, <3>2
  <2>3. shown[p] \in Seq(Number)
    BY <1>1
  <2>4. \A m \in Texts(info'[p]) : n < m
    BY <1>5, <1>8
  <2>5. Talk(written[q], Append(shown[p], n), confirmed[q], Texts(info'[p]), Confirms(info'[q]),
             DirectTexts(p), DirectConfirms(q), Lossy)
    <3> DEFINE w == written[q]
               ts == Texts(info[p])
               us == Texts(info'[p])
               fs == Confirms(info[q])
               gs == Confirms(info'[q])
               td == DirectTexts(p)
               fd == DirectConfirms(q)
               s == shown[p]
    <3>1. /\ n \in ts \union td /\ us \in SUBSET ts /\ gs \in SUBSET (fs \union {n})
          /\ td \in SUBSET td /\ fd \in SUBSET (fd \union {n})
          /\ w \in Seq(Ways) /\ s \in Seq(Number) /\ n \notin td /\ \A m \in us : n < m
      BY <1>1, <1>5, <1>9, <2>2, <2>3, <2>4
    <3>2. Talk(w, s, confirmed[q], ts, fs, td, fd, Lossy)
      BY <2>1
    <3> HIDE DEF w, ts, us, fs, gs, td, fd, s
    <3>3. Talk(w, Append(s, n), confirmed[q], us, gs, td, fd, Lossy)
      BY <1>2, <3>1, <3>2, TalkShows
    <3> QED BY <3>3 DEF w, us, gs, td, fd, s
  <2> QED BY <1>4, <1>7, <1>10, <1>1, <2>5 DEF Conversation, q
<1>12. Conversation(q)'
  <2>1. Talk(written[p], shown[q], confirmed[p], Texts(info[q]), Confirms(info[p]),
             DirectTexts(q), DirectConfirms(p), Lossy)
    BY <1>1 DEF Chats, Conversation
  <2>2. Talk(written[p], shown[q], confirmed[p], Texts(info'[q]), Confirms(info'[p]),
             DirectTexts(q), DirectConfirms(p), Lossy)
    BY <1>9, <2>1, TalkLoses
  <2> QED BY <1>1, <1>4, <1>7, <1>10, <2>2 DEF Conversation
<1>13. \A r \in Peer : Rising(info'[r])
  BY <1>1, <1>9
<1>14. Single'
  BY <1>4 DEF Chats, Single, Lossy
<1> QED BY <1>1, <1>11, <1>12, <1>13, <1>14 DEF Chats

\* A confirmation comes over the server.
LEMMA ConfirmationFromServer ==
    ASSUME TypesOK, Chats, NEW p \in Peer, HandleConfirmation(p)
    PROVE  Chats'
<1> DEFINE q == Other(p)
           n == Head(info[p]).n
<1>1. /\ q \in Peer /\ q # p /\ Other(q) = p /\ (\A r \in Peer : r = p \/ r = q)
      /\ TypeOK /\ info[p] \in Seq(Packets) /\ info[p] # <<>>
      /\ confirmed \in [Peer -> SUBSET Number]
  BY TwoPeers DEF TypesOK, TypeOK, HandleConfirmation, Waiting
<1>2. /\ confirmed' = [confirmed EXCEPT ![p] = @ \union {n}] /\ info' = Consumed(p)
      /\ Head(info[p]).type = "confirm"
      /\ UNCHANGED <<world, written, shown, direct>>
  BY DEF HandleConfirmation, Waiting
<1>3. info'[p] = Tail(info[p]) /\ info'[q] = info[q]
  BY <1>1, <1>2, ConsumedIs
<1>4. n \in Confirms(info[p])
  BY <1>1, <1>2, QueueTail
<1> HIDE DEF q, n
<1>5. confirmed'[p] = confirmed[p] \union {n} /\ confirmed'[q] = confirmed[q]
  BY <1>1, <1>2
<1>6. /\ Texts(info'[p]) \subseteq Texts(info[p]) /\ Confirms(info'[p]) \subseteq Confirms(info[p])
      /\ Rising(info'[p]) /\ Rising(info'[q])
  BY <1>1, <1>3, QueueTail DEF Chats
<1>7. /\ Lossy' = Lossy
      /\ \A r \in Peer : DirectTexts(r)' = DirectTexts(r) /\ DirectConfirms(r)' = DirectConfirms(r)
  BY <1>2 DEF Lossy, DirectTexts, DirectConfirms
<1>8. Conversation(q)'
  <2>1. Talk(written[p], shown[q], confirmed[p], Texts(info[q]), Confirms(info[p]),
             DirectTexts(q), DirectConfirms(p), Lossy)
    BY <1>1 DEF Chats, Conversation
  <2>2. Talk(written[p], shown[q], confirmed[p] \union {n}, Texts(info[q]), Confirms(info[p]),
             DirectTexts(q), DirectConfirms(p), Lossy)
    BY <1>4, <2>1, TalkConfirms
  <2>3. Talk(written[p], shown[q], confirmed[p] \union {n}, Texts(info[q]), Confirms(info'[p]),
             DirectTexts(q), DirectConfirms(p), Lossy)
    BY <1>6, <2>2, TalkLoses
  <2> QED BY <1>1, <1>2, <1>3, <1>5, <1>7, <2>3 DEF Conversation
<1>9. Conversation(p)'
  <2>1. Talk(written[q], shown[p], confirmed[q], Texts(info[p]), Confirms(info[q]),
             DirectTexts(p), DirectConfirms(q), Lossy)
    BY <1>1 DEF Chats, Conversation, q
  <2>2. Talk(written[q], shown[p], confirmed[q], Texts(info'[p]), Confirms(info[q]),
             DirectTexts(p), DirectConfirms(q), Lossy)
    BY <1>6, <2>1, TalkLoses
  <2> QED BY <1>1, <1>2, <1>3, <1>5, <1>7, <2>2 DEF Conversation, q
<1>10. \A r \in Peer : Rising(info'[r])
  BY <1>1, <1>6
<1>11. Single'
  BY <1>2 DEF Chats, Single, Lossy
<1> QED BY <1>1, <1>8, <1>9, <1>10, <1>11 DEF Chats

\* A message comes directly: it is shown, and its confirmation goes back directly.
LEMMA TextDirectly ==
    ASSUME TypesOK, Chats, NEW p \in Peer, ReceiveText(p)
    PROVE  Chats'
<1> DEFINE q == Other(p)
<1>1. /\ q \in Peer /\ q # p /\ Other(q) = p /\ (\A r \in Peer : r = p \/ r = q)
      /\ TypeOK /\ written[q] \in Seq(Ways) /\ shown \in [Peer -> Seq(Number)]
      /\ direct \subseteq DataGrams
  BY TwoPeers DEF TypesOK, TypeOK, Ways, DataGrams
<1>2. PICK d \in direct :
        /\ Arrives(p, d) /\ d.type = "im"
        /\ shown' = [shown EXCEPT ![p] = Append(@, d.n)]
        /\ \E rest \in TakenData(p, d) : direct' = rest \union Data(p, session[p], "confirm", d.n)
        /\ UNCHANGED <<vars, written, confirmed>>
  BY DEF ReceiveText, ReceivedMessage
<1> DEFINE n == d.n
           sent == Data(p, session[p], "confirm", n)
<1>3. d.to = p /\ Live(p) /\ n \in Number
  BY <1>1, <1>2 DEF Arrives, Known, DataGrams
<1>4. \A e \in sent : e.to = q /\ e.type = "confirm" /\ e.n = n
  BY <1>1, <1>3, DataIs
<1>5. PICK rest : rest \in TakenData(p, d) /\ direct' = rest \union sent
  BY <1>2
<1>6. /\ shown' = [shown EXCEPT ![p] = Append(@, n)]
      /\ UNCHANGED <<world, info, written, confirmed>>
  BY <1>2 DEF vars
<1> HIDE DEF q, n, sent
<1>7. rest \subseteq direct /\ (~Lossy => d \notin rest)
  BY <1>5 DEF TakenData, Taken
<1>8. shown'[p] = Append(shown[p], n) /\ shown'[q] = shown[q]
  BY <1>1, <1>6
<1>9. n \in DirectTexts(p)
  BY <1>2, <1>3 DEF DirectTexts, n
<1>10. /\ Lossy' = Lossy
       /\ \A r \in Peer : DirectTexts(r)' \subseteq DirectTexts(r)
       /\ DirectConfirms(q)' \subseteq DirectConfirms(q) \union {n}
       /\ DirectConfirms(p)' \subseteq DirectConfirms(p)
  BY <1>1, <1>4, <1>5, <1>6, <1>7 DEF Lossy, DirectTexts, DirectConfirms
<1>11. ~Lossy => n \notin DirectTexts(p)'
  <2>1. SUFFICES ASSUME ~Lossy, NEW e \in direct', e.type = "im", e.to = p, e.n = n PROVE FALSE
    BY DEF DirectTexts
  <2>2. e \in rest
    BY <1>4, <1>5, <2>1
  <2>3. e = d
    BY <1>2, <1>3, <1>7, <2>1, <2>2 DEF Chats, Single, n
  <2> QED BY <1>7, <2>1, <2>2, <2>3
<1>12. Conversation(p)'
  <2> DEFINE w == written[q]
             s == shown[p]
             ts == Texts(info[p])
             fs == Confirms(info[q])
             td == DirectTexts(p)
             ud == DirectTexts(p)'
             fd == DirectConfirms(q)
             gd == DirectConfirms(q)'
  <2>1. Talk(w, s, confirmed[q], ts, fs, td, fd, Lossy)
    BY <1>1 DEF Chats, Conversation, q
  <2>2. n \notin ts
    <3>1. w[n] = "direct"
      BY <1>9, <2>1 DEF Talk
    <3>2. \A m \in ts : w[m] = "server"
      BY <2>1 DEF Talk
    <3> QED BY <3>1, <3>2
  <2>3. /\ n \in ts \union td /\ ts \in SUBSET ts /\ fs \in SUBSET (fs \union {n})
        /\ ud \in SUBSET td /\ gd \in SUBSET (fd \union {n})
        /\ w \in Seq(Ways) /\ s \in Seq(Number) /\ (~Lossy => n \notin ud)
    BY <1>1, <1>9, <1>10, <1>11
  <2> HIDE DEF w, s, ts, fs, td, ud, fd, gd
  <2>4. Talk(w, Append(s, n), confirmed[q], ts, fs, ud, gd, Lossy)
    BY <1>3, <2>1, <2>2, <2>3, TalkShows DEF n
  <2> QED BY <1>1, <1>6, <1>8, <1>10, <2>4 DEF Conversation, w, s, ts, fs, ud, gd, q
<1>13. Conversation(q)'
  <2>1. Talk(written[p], shown[q], confirmed[p], Texts(info[q]), Confirms(info[p]),
             DirectTexts(q), DirectConfirms(p), Lossy)
    BY <1>1 DEF Chats, Conversation
  <2>2. Talk(written[p], shown[q], confirmed[p], Texts(info[q]), Confirms(info[p]),
             DirectTexts(q)', DirectConfirms(p)', Lossy)
    BY <1>1, <1>10, <2>1, TalkLoses
  <2> QED BY <1>1, <1>6, <1>8, <1>10, <2>2 DEF Conversation
<1>14. Single'
  <2>1. SUFFICES ASSUME ~Lossy, NEW e \in direct', NEW f \in direct',
                        e.type = "im", f.type = "im", e.to = f.to, e.n = f.n
                 PROVE  e = f
    BY <1>10 DEF Single
  <2>2. e \in direct /\ f \in direct
    BY <1>4, <1>5, <1>7, <2>1
  <2> QED BY <2>1, <2>2 DEF Chats, Single
<1>15. \A r \in Peer : Rising(info'[r])
  BY <1>6 DEF Chats
<1> QED BY <1>1, <1>12, <1>13, <1>14, <1>15 DEF Chats

\* A confirmation comes directly.
LEMMA ConfirmationDirectly ==
    ASSUME TypesOK, Chats, NEW p \in Peer, ReceiveConfirmation(p)
    PROVE  Chats'
<1> DEFINE q == Other(p)
<1>1. /\ q \in Peer /\ q # p /\ Other(q) = p /\ (\A r \in Peer : r = p \/ r = q)
      /\ confirmed \in [Peer -> SUBSET Number]
  BY TwoPeers DEF TypesOK
<1>2. PICK d \in direct :
        /\ Arrives(p, d) /\ d.type = "confirm"
        /\ confirmed' = [confirmed EXCEPT ![p] = @ \union {d.n}]
        /\ direct' \in TakenData(p, d)
        /\ UNCHANGED <<vars, written, shown>>
  BY DEF ReceiveConfirmation
<1>3. d.n \in DirectConfirms(p)
  BY <1>2 DEF Arrives, DirectConfirms
<1>4. direct' \subseteq direct /\ UNCHANGED <<world, info, written, shown>>
  BY <1>2 DEF TakenData, Taken, vars
<1> HIDE DEF q
<1>5. confirmed'[p] = confirmed[p] \union {d.n} /\ confirmed'[q] = confirmed[q]
  BY <1>1, <1>2
<1>6. /\ Lossy' = Lossy
      /\ \A r \in Peer : /\ DirectTexts(r)' \subseteq DirectTexts(r)
                         /\ DirectConfirms(r)' \subseteq DirectConfirms(r)
  BY <1>4 DEF Lossy, DirectTexts, DirectConfirms
<1>7. Conversation(q)'
  <2>1. Talk(written[p], shown[q], confirmed[p], Texts(info[q]), Confirms(info[p]),
             DirectTexts(q), DirectConfirms(p), Lossy)
    BY <1>1 DEF Chats, Conversation
  <2>2. Talk(written[p], shown[q], confirmed[p] \union {d.n}, Texts(info[q]), Confirms(info[p]),
             DirectTexts(q), DirectConfirms(p), Lossy)
    BY <1>3, <2>1, TalkConfirms
  <2>3. Talk(written[p], shown[q], confirmed[p] \union {d.n}, Texts(info[q]), Confirms(info[p]),
             DirectTexts(q)', DirectConfirms(p)', Lossy)
    BY <1>1, <1>6, <2>2, TalkLoses
  <2> QED BY <1>1, <1>4, <1>5, <1>6, <2>3 DEF Conversation
<1>8. Conversation(p)'
  <2>1. Talk(written[q], shown[p], confirmed[q], Texts(info[p]), Confirms(info[q]),
             DirectTexts(p), DirectConfirms(q), Lossy)
    BY <1>1 DEF Chats, Conversation, q
  <2>2. Talk(written[q], shown[p], confirmed[q], Texts(info[p]), Confirms(info[q]),
             DirectTexts(p)', DirectConfirms(q)', Lossy)
    BY <1>1, <1>6, <2>1, TalkLoses
  <2> QED BY <1>1, <1>4, <1>5, <1>6, <2>2 DEF Conversation, q
<1>9. \A r \in Peer : Rising(info'[r])
  BY <1>4 DEF Chats
<1>10. Single'
  BY <1>4, <1>6 DEF Chats, Single
<1> QED BY <1>1, <1>7, <1>8, <1>9, <1>10 DEF Chats

--------------------------------------------------------------------------------
(* The invariant. *)

\* Every step goes on with the conversations of both directions.
LEMMA ChatsStep == ASSUME TypesOK, Chats, [Next]_allVars PROVE Chats'
<1>1. TypeOK /\ \A r \in Peer : info[r] \in Seq(Packets)
  BY DEF TypesOK, TypeOK
<1>2. ASSUME UNCHANGED <<world, written, shown, confirmed>>, direct' \subseteq direct,
             UNCHANGED info
      PROVE  Chats'
  BY <1>1, <1>2, QueueThins, ChatThins
<1>3. ASSUME NEW p \in Peer, Negotiates(p) \/ Quit(p) \/ Return(p),
             UNCHANGED <<written, shown, confirmed>>, direct' \subseteq direct
      PROVE  Chats'
  <2>1. UNCHANGED world
    BY <1>3 DEF Negotiates, Quit, Return, HandlesInfo, ChecksSession, PongOverdue, PingAgain,
                SessionTimeout, ReceivePing, ReceivePong, ReceiveUnknown, ReceiveOnDangling,
                InfoDenied, InfoCompatible, InfoIncompatible, HandleSession
  <2> QED BY <1>1, <1>3, <2>1, NegotiationThins, ChatThins
<1>4. ASSUME NEW p \in Peer, Step(p)
      PROVE  Chats'
  <2>1. CASE SendOverServer(p)
    BY <2>1, WriteOverServer
  <2>2. CASE SendDirectly(p)
    BY <2>2, WriteDirectly
  <2>3. CASE SendOnDangling(p)
    BY <1>2, <2>3 DEF SendOnDangling, messages
  <2>4. CASE HandleText(p)
    BY <2>4, TextFromServer
  <2>5. CASE HandleConfirmation(p)
    BY <2>5, ConfirmationFromServer
  <2>6. CASE ReceiveText(p)
    BY <2>6, TextDirectly
  <2>7. CASE ReceiveConfirmation(p)
    BY <2>7, ConfirmationDirectly
  <2>8. CASE ReceiveFromNobody(p)
    BY <1>2, <2>8 DEF ReceiveFromNobody, vars
  <2>9. CASE ReceiveStrayData(p)
    BY <1>2, <2>9 DEF ReceiveStrayData, vars
  <2>10. CASE QuitMessages(p)
    BY <1>3, <2>10 DEF QuitMessages
  <2>11. CASE (Negotiates(p) \/ Return(p)) /\ UNCHANGED messages
    BY <1>3, <2>11 DEF messages
  <2> QED BY <1>4, <2>1, <2>2, <2>3, <2>4, <2>5, <2>6, <2>7, <2>8, <2>9, <2>10, <2>11
          DEF Step, HandlesText, ReadsData
<1>5. CASE (\E d \in net : Lose(d)) /\ UNCHANGED messages
  BY <1>2, <1>5 DEF Lose, messages
<1>6. CASE LoseData
  BY <1>2, <1>6 DEF LoseData, vars
<1>7. CASE UNCHANGED allVars
  BY <1>2, <1>7 DEF allVars, vars, messages
<1> QED BY <1>4, <1>5, <1>6, <1>7 DEF Next

\* They start with nothing written.
LEMMA ChatsInit == MessagesInit => Chats
<1> SUFFICES ASSUME MessagesInit PROVE Chats
  OBVIOUS
<1>1. /\ info = [p \in Peer |-> <<>>] /\ written = [p \in Peer |-> <<>>]
      /\ shown = [p \in Peer |-> <<>>] /\ confirmed = [p \in Peer |-> {}] /\ direct = {}
  BY DEF MessagesInit, Init
<1>2. DOMAIN <<>> = {}
  BY EmptySeq, LenProperties
<1>3. Texts(<<>>) = {} /\ Confirms(<<>>) = {} /\ Rising(<<>>) /\ Elements(<<>>) = {}
  BY <1>2 DEF Texts, Confirms, Rising, Elements
<1>4. ASSUME NEW p \in Peer PROVE Conversation(p)
  <2>1. Other(p) \in Peer
    BY TwoPeers
  <2>2. DirectTexts(p) = {} /\ DirectConfirms(Other(p)) = {}
    BY <1>1 DEF DirectTexts, DirectConfirms
  <2>3. Talk(<<>>, <<>>, {}, {}, {}, {}, {}, Lossy)
    BY <1>2, <1>3 DEF Talk
  <2> QED BY <1>1, <1>3, <2>1, <2>2, <2>3 DEF Conversation
<1> QED BY <1>1, <1>3, <1>4 DEF Chats, Single

\* Whatever way messages take while sessions come and go and programs end: only what
\* was written is shown and only what was shown is confirmed, what goes over the server
\* is shown once and in its order, and where UDP repeats nothing every message is shown
\* at most once (XfireContact::sendMessage and receivedMessage).
THEOREM EveryMessageAsWritten == Spec => []ShownAsWritten
<1>1. Chats => ShownAsWritten
  BY DEF Chats, Conversation, Talk, Elements, ShownAsWritten, ShownTo, Way
<1>2. IndInv => TypesOK
  BY DEF IndInv
<1>3. Spec => []Chats
  BY <1>2, Inductive, ChatsInit, ChatsStep, PTL DEF Spec
<1> QED BY <1>1, <1>3, PTL

--------------------------------------------------------------------------------
(* What becomes of a direct message: who has which information. *)

\* Between compatible peers nobody denies.
Genuine == Able => \A p \in Peer : \A m \in Infos(p) : m.real

\* Who asked and has no answer has the session he asked for.
Asked ==
    Able => \A p \in Peer :
        capable[p] = "unknown" /\ PresentInfos(Other(p)) # {} => Current(p)

\* Compatible peers deny nothing.
LEMMA GenuineStep ==
    ASSUME TypeOK, News, NoDangling, Fitting, Genuine, NEW p \in Peer, Does(p) PROVE Genuine'
<1>1. /\ Other(p) \in Peer /\ \A q \in Peer : q = p \/ q = Other(p)
      /\ info[Other(p)] \in Seq(Packets)
  BY TwoPeers DEF TypeOK
<1>2. Able' <=> Able
  BY DoesAtOne DEF Able, Open, Enabled
<1> SUFFICES ASSUME Able PROVE \A q \in Peer : \A m \in Infos(q)' : m.real
  BY <1>2 DEF Genuine
<1>3. \A q \in Peer : \A m \in Infos(q) : m.real
  BY DEF Genuine
<1>4. ~Refuses(p) /\ Infos(p)' \subseteq Infos(p)
  BY AbleDo, InfosDo
<1>5. ASSUME NEW m \in Infos(Other(p))', m \notin Infos(Other(p)) PROVE m.real
  <2>1. CASE Asks(p)
    <3>1. m = Info(p, OwnSalt(p), TRUE)
      BY <1>5, <2>1, InfosDo
    <3> QED BY <3>1 DEF Info
  <2>2. CASE Goes(p)
    <3> DEFINE answer == Info(p, Head(info[p]).salt, TRUE)
    <3>1. info'[Other(p)] = Append(info[Other(p)], answer)
      BY <1>5, <2>2 DEF Goes, Gave, Infos
    <3>2. answer \in Packets
      BY <2>2, PacketsAre DEF Goes
    <3>3. answer.real
      BY DEF Info
    <3> HIDE DEF answer
    <3>4. Infos(Other(p))' \subseteq Infos(Other(p)) \union {answer}
      BY <1>1, <3>1, <3>2, InfosAppend DEF Infos
    <3> QED BY <1>5, <3>3, <3>4
  <2> QED BY <1>4, <1>5, <2>1, <2>2, InfosDo DEF Does
<1> QED BY <1>1, <1>3, <1>4, <1>5

\* Information of a peer's present login comes from him while he knows the other's.
LEMMA AskedStep ==
    ASSUME TypeOK, News, Fitting, NoDangling, Asked, SaltsKnown, NEW p \in Peer, Does(p)
    PROVE  Asked'
<1> DEFINE q == Other(p)
<1>1. q \in Peer /\ q # p /\ Other(q) = p /\ login \in [Peer -> Login]
      /\ \A r \in Peer : r = p \/ r = q
  BY TwoPeers DEF TypeOK
<1>2. /\ session'[q] = session[q] /\ login'[q] = login[q] /\ capable'[q] = capable[q]
      /\ (~ComesBack(p) => login'[p] = login[p])
      /\ Able' <=> Able
  BY DoesAtOne DEF Able, Open, Enabled
<1> HIDE DEF q
<1> SUFFICES ASSUME Able
             PROVE  \A r \in Peer : capable'[r] = "unknown" /\ PresentInfos(Other(r))' # {}
                                    => Current(r)'
  BY <1>2 DEF Asked
<1>3. CASE ComesBack(p)
  <2>1. Infos(p)' = {} /\ Infos(q)' \subseteq Infos(q) /\ login[p] = 1 /\ login'[p] = 2
    <3>1. info'[p] = <<>> /\ login[p] = 1 /\ login'[p] = 2
      BY <1>1, <1>3 DEF ComesBack
    <3>2. Infos(p)' = {}
      BY <3>1, EmptySeq, LenProperties DEF Infos, InfosOf
    <3> QED BY <1>3, <3>1, <3>2, InfosDo DEF q
  <2>2. \A m \in Infos(q) : m.login # 2
    <3>1. TAKE m \in Infos(q)
    <3>2. m.login <= login[p] /\ m.login \in Login
      BY <1>1, InfosAre
    <3> QED BY <3>2, <2>1
  <2>3. PresentInfos(p)' = {} /\ PresentInfos(q)' = {}
    BY <1>1, <2>1, <2>2 DEF PresentInfos
  <2> QED BY <1>1, <2>3 DEF q
<1>4. CASE ~ComesBack(p)
  <2>1. capable'[p] = "unknown" /\ PresentInfos(q)' # {} => Current(p)'
    <3>1. SUFFICES ASSUME capable'[p] = "unknown", PresentInfos(q)' # {} PROVE Current(p)'
      OBVIOUS
    <3>2. capable[p] = "unknown" /\ ~Goes(p) /\ ~Refuses(p) /\ ~Removes(p)
      <4>1. capable[p] = "unknown" /\ ~Goes(p) /\ ~Refuses(p)
        BY <1>4, <3>1, AbleDo
      <4>2. ~Removes(p)
        BY <4>1 DEF Removes, Fitting
      <4> QED BY <4>1, <4>2
    <3>3. CASE Asks(p)
      <4>1. PICK m \in PresentInfos(q)' : TRUE
        BY <3>1
      <4>2. m \in Infos(q)' /\ m.login = login[p]
        BY <1>1, <1>2, <1>4, <4>1 DEF PresentInfos
      <4>3. CASE m \in Infos(q)
        <5>1. PresentInfos(q) # {}
          BY <1>1, <4>2, <4>3 DEF PresentInfos
        <5>2. Current(p)
          BY <3>2, <5>1 DEF Asked, q
        <5> QED BY <3>3, <5>2 DEF Asks, Current, Live
      <4>4. CASE m \notin Infos(q)
        <5>1. Reaches(p)
          BY <4>2, <4>4, <3>3, InfosDo DEF q
        <5>2. Live(p)' /\ session'[p].peer = login[q]
          BY <5>1, <3>3, AbleDo DEF Reaches, q
        <5> QED BY <1>2, <5>2 DEF Current, q
      <4> QED BY <4>3, <4>4
    <3>4. CASE ~Asks(p)
      <4>1. Infos(q)' \subseteq Infos(q)
        BY <1>4, <3>2, <3>4, InfosDo DEF Does, q
      <4>2. PresentInfos(q) # {}
        BY <1>1, <1>2, <1>4, <3>1, <4>1 DEF PresentInfos
      <4>3. Current(p)
        BY <3>2, <4>2 DEF Asked, q
      <4>4. Idle(p) \/ Moves(p) \/ Leaves(p)
        BY <1>4, <3>2, <3>4 DEF Does
      <4>5. Live(p)'
        BY <4>3, <4>4 DEF Current, Live, Idle, Moves, Leaves, LiveSessions
      <4>6. session'[p].peer = session[p].peer
        BY <4>3, <4>5, AbleDo DEF Current
      <4> QED BY <1>2, <4>3, <4>5, <4>6 DEF Current, q
    <3> QED BY <3>3, <3>4
  <2>2. capable'[q] = "unknown" /\ PresentInfos(p)' # {} => Current(q)'
    <3>1. PresentInfos(p)' \subseteq PresentInfos(p)
      BY <1>2, InfosDo DEF PresentInfos, q
    <3>2. Current(q)' <=> Current(q)
      BY <1>1, <1>2, <1>4 DEF Current, Live
    <3> QED BY <1>1, <1>2, <3>1, <3>2 DEF Asked
  <2> QED BY <1>1, <2>1, <2>2 DEF q
<1> QED BY <1>3, <1>4

\* What is of a former login of the other side, a session or information, has a salt
\* that nothing between the present logins has.
Bygone ==
    Able => \A p \in Peer :
        /\ Live(p) /\ ~Current(p) => ~InUse(session[p].salt)
        /\ \A m \in Infos(p) : m.login # login[Other(p)] => ~InUse(m.salt)

\* Between a login that just began and the other side's there is nothing.
LEMMA ComesBackClears ==
    ASSUME TypeOK, News, SaltsKnown, NEW p \in Peer, ComesBack(p)
    PROVE  /\ \A r \in Peer : ~Current(r)' /\ PresentInfos(r)' = {}
           /\ \A s : ~InUse(s)'
<1> DEFINE q == Other(p)
<1>1. q \in Peer /\ q # p /\ Other(q) = p /\ login \in [Peer -> Login]
      /\ session \in [Peer -> Sessions]
      /\ \A r \in Peer : r = p \/ r = q
  BY TwoPeers DEF TypeOK
<1>2. /\ session'[q] = session[q] /\ login'[q] = login[q]
      /\ login[p] = 1 /\ login'[p] = 2 /\ info'[p] = <<>> /\ session'[p].state = "none"
  <2>1. session'[q] = session[q] /\ login'[q] = login[q]
    BY DoesAtOne DEF Does
  <2> QED BY <1>1, <2>1 DEF ComesBack, NoSession
<1>3. Infos(q)' \subseteq Infos(q)
  BY InfosDo DEF Does
<1> HIDE DEF q
<1>4. Infos(p)' = {}
  BY <1>2, EmptySeq, LenProperties DEF Infos, InfosOf
<1>5. \A m \in Infos(q) : m.login # 2
  <2>1. TAKE m \in Infos(q)
  <2>2. m.login <= login[p] /\ m.login \in Login
    BY <1>1, InfosAre
  <2> QED BY <2>2, <1>2
<1>6. PresentInfos(p)' = {} /\ PresentInfos(q)' = {}
  BY <1>1, <1>2, <1>3, <1>4, <1>5 DEF PresentInfos
<1>7. ~Current(p)'
  BY <1>2 DEF Current, Live
<1>8. ~Current(q)'
  <2>1. Live(q) => session[q].peer <= 1
    BY <1>1, <1>2 DEF SaltsKnown
  <2> QED BY <1>1, <1>2, <2>1 DEF Current, Live
<1>9. \A r \in Peer : ~Current(r)' /\ PresentInfos(r)' = {}
  BY <1>1, <1>6, <1>7, <1>8
<1> QED BY <1>9 DEF InUse

\* A request brings its own salt into use and no other.
LEMMA UsedByAsking ==
    ASSUME TypeOK, News, NEW p \in Peer, Asks(p), NEW s, s # OwnSalt(p), InUse(s)'
    PROVE  InUse(s)
<1> DEFINE q == Other(p)
<1>1. q \in Peer /\ q # p /\ Other(q) = p /\ (\A r \in Peer : r = p \/ r = q)
  BY TwoPeers
<1>2. /\ session'[q] = session[q] /\ login' = login
      /\ Infos(p)' \subseteq Infos(p)
      /\ session'[p].salt = OwnSalt(p)
  <2>1. session'[q] = session[q] /\ Infos(p)' \subseteq Infos(p)
    BY DoesAtOne, InfosDo DEF Does
  <2> QED BY <2>1 DEF Asks
<1>3. \A m \in Infos(q)' : m \in Infos(q) \/ m.salt = OwnSalt(p)
  <2>1. \A m \in Infos(q)' : m \in Infos(q) \/ m = Info(p, OwnSalt(p), TRUE)
    BY InfosDo DEF Does
  <2>2. Info(p, OwnSalt(p), TRUE).salt = OwnSalt(p)
    BY DEF Info
  <2> QED BY <2>1, <2>2
<1> HIDE DEF q
<1>4. PICK r \in Peer : \/ Current(r)' /\ session'[r].salt = s
                        \/ \E m \in PresentInfos(r)' : m.salt = s
  BY DEF InUse
<1>5. CASE Current(r)' /\ session'[r].salt = s
  <2>1. r = q /\ Current(q) /\ session[q].salt = s
    BY <1>1, <1>2, <1>5 DEF Current, Live
  <2> QED BY <1>1, <2>1 DEF InUse
<1>6. CASE \E m \in PresentInfos(r)' : m.salt = s
  <2>1. PICK m \in Infos(r)' : m.login = login[Other(r)] /\ m.salt = s
    BY <1>2, <1>6 DEF PresentInfos
  <2>2. m \in Infos(r)
    BY <1>1, <1>2, <1>3, <2>1
  <2> QED BY <2>1, <2>2 DEF InUse, PresentInfos
<1> QED BY <1>4, <1>5, <1>6

\* What is past is never of use again.
LEMMA BygoneStep ==
    ASSUME TypeOK, News, SaltsKnown, UpToDate, Fitting, NoDangling, Fresh, Bygone,
           NEW p \in Peer, Does(p)
    PROVE  Bygone'
<1> DEFINE q == Other(p)
<1>1. q \in Peer /\ q # p /\ Other(q) = p /\ (\A r \in Peer : r = p \/ r = q)
      /\ session \in [Peer -> Sessions]
  BY TwoPeers DEF TypeOK
<1>2. /\ session'[q] = session[q] /\ login'[q] = login[q]
      /\ (~ComesBack(p) => login'[p] = login[p])
      /\ Able' <=> Able
  BY DoesAtOne DEF Able, Open, Enabled
<1>3. Infos(p)' \subseteq Infos(p)
  BY InfosDo
<1> HIDE DEF q
<1> SUFFICES ASSUME Able
             PROVE  \A r \in Peer :
                        /\ Live(r)' /\ ~Current(r)' => ~InUse(session[r].salt)'
                        /\ \A m \in Infos(r)' : m.login # login'[Other(r)] => ~InUse(m.salt)'
  BY <1>2 DEF Bygone
<1>4. CASE ComesBack(p)
  <2>1. ASSUME NEW s PROVE ~InUse(s)'
    BY <1>4, ComesBackClears
  <2>2. ASSUME NEW r \in Peer PROVE ~InUse(session[r].salt)'
    <3>1. PICK s : s = session'[r].salt
      OBVIOUS
    <3> QED BY <3>1, <2>1 DEF InUse
  <2>3. ASSUME NEW r \in Peer, NEW m \in Infos(r)' PROVE ~InUse(m.salt)'
    BY <2>1 DEF InUse
  <2> QED BY <2>2, <2>3
<1>5. CASE ~ComesBack(p)
  <2>1. ASSUME NEW s, ~InUse(s), Asks(p) => s # OwnSalt(p) PROVE ~InUse(s)'
    BY <1>5, <2>1, UsedBefore, UsedByAsking
  <2>2. Asks(p) => Nowhere(OwnSalt(p))
    BY AbleDo DEF Fresh
  <2>3. ASSUME NEW r \in Peer, NEW m \in Infos(r)', m.login # login'[Other(r)]
        PROVE  ~InUse(m.salt)'
    <3>1. m.login # login[Other(r)]
      <4>1. login'[Other(r)] = login[Other(r)]
        BY <1>1, <1>2, <1>5 DEF q
      <4> QED BY <2>3, <4>1
    <3>2. m \in Infos(r)
      <4>1. CASE r = p
        BY <1>3, <2>3, <4>1
      <4>2. CASE r = q
        <5>1. m.login # login[p]
          BY <1>1, <3>1, <4>2
        <5>2. \A s, real : Info(p, s, real).login = login[p]
          BY DEF Info
        <5>3. CASE Asks(p)
          BY <2>3, <4>2, <5>1, <5>2, <5>3, InfosDo DEF q
        <5>4. CASE Refuses(p) \/ Goes(p)
          <6>1. \/ Infos(q)' \subseteq Infos(q)
                \/ \E s : \E real \in BOOLEAN :
                      Infos(q)' \subseteq Infos(q) \union {Info(p, s, real)}
            BY <5>4, InfosDo DEF q
          <6> QED BY <2>3, <4>2, <5>1, <5>2, <6>1
        <5> QED BY <1>5, <2>3, <4>2, <5>3, <5>4, InfosDo DEF Does, q
      <4> QED BY <1>1, <4>1, <4>2
    <3>3. ~InUse(m.salt)
      BY <3>1, <3>2 DEF Bygone
    <3>4. Asks(p) => m.salt # OwnSalt(p)
      BY <2>2, <3>2 DEF Nowhere
    <3> DEFINE s == m.salt
    <3>5. ~InUse(s) /\ (Asks(p) => s # OwnSalt(p))
      BY <3>3, <3>4
    <3> HIDE DEF s
    <3>6. ~InUse(s)'
      BY <2>1, <3>5
    <3> QED BY <3>6 DEF s
  <2>4. ASSUME Live(q)', ~Current(q)' PROVE ~InUse(session[q].salt)'
    <3>1. Live(q) /\ ~Current(q)
      BY <1>1, <1>2, <1>5, <2>4 DEF Live, Current
    <3>2. PICK s : s = session[q].salt
      OBVIOUS
    <3>3. ~InUse(s)
      BY <1>1, <3>1, <3>2 DEF Bygone
    <3>4. Asks(p) => s # OwnSalt(p)
      BY <1>1, <2>2, <3>1, <3>2 DEF Nowhere
    <3>5. ~InUse(s)'
      BY <2>1, <3>3, <3>4
    <3>6. session'[q].salt = s
      BY <1>2, <3>2
    <3> QED BY <3>5, <3>6 DEF InUse
  <2>5. ASSUME Live(p)', ~Current(p)' PROVE ~InUse(session[p].salt)'
    <3>0. PICK s : s = session'[p].salt
      OBVIOUS
    <3>1. session'[p].peer # login[q]
      BY <1>1, <1>2, <2>5 DEF Current, q
    <3>2. CASE Live(p)
      <4>1. ~Current(p) /\ session'[p].salt = session[p].salt /\ ~Asks(p)
        BY <2>5, <3>1, <3>2, AbleDo DEF Current, q
      <4>2. ~InUse(s)
        BY <3>0, <3>2, <4>1 DEF Bygone
      <4>3. ~InUse(s)'
        BY <2>1, <4>1, <4>2
      <4> QED BY <3>0, <4>3 DEF InUse
    <3>3. CASE ~Live(p) /\ Goes(p)
      <4>1. /\ Head(info[p]) \in Infos(p) /\ Head(info[p]).login = sid[p]
            /\ session'[p].peer = sid[p] /\ ~Asks(p)
            /\ s = Head(info[p]).salt
        <5>1. capable'[p] = "yes" /\ Head(info[p]) \in Infos(p) /\ Head(info[p]).login = sid[p]
          BY <3>3, AbleDo
        <5>2. ~Asks(p)
          BY <5>1, AbleDo
        <5> QED BY <2>5, <3>0, <3>3, <5>1, <5>2, AbleDo
      <4>2. ~InUse(s)
        BY <3>1, <4>1 DEF Bygone, q
      <4>3. ~InUse(s)'
        BY <2>1, <4>1, <4>2
      <4> QED BY <3>0, <4>3 DEF InUse
    <3>4. CASE Asks(p)
      <4>1. s = OwnSalt(p) /\ sid[p] # login[q] /\ Nowhere(OwnSalt(p))
        BY <2>2, <3>0, <3>1, <3>4, AbleDo
      <4>2. Infos(q)' \subseteq Infos(q)
        BY <3>4, <4>1, InfosDo DEF Reaches, q
      <4>3. \A r \in Peer : \A m \in PresentInfos(r)' : m.salt # s
        BY <1>1, <1>3, <4>1, <4>2 DEF Nowhere, PresentInfos
      <4>4. Current(q)' => session'[q].salt # s
        BY <1>1, <1>2, <4>1 DEF Nowhere, Current, Live
      <4> QED BY <1>1, <2>5, <3>0, <4>3, <4>4 DEF InUse
    <3> QED BY <2>5, <3>2, <3>3, <3>4, AbleDo
  <2>6. ASSUME NEW r \in Peer, Live(r)', ~Current(r)' PROVE ~InUse(session[r].salt)'
    BY <1>1, <2>4, <2>5, <2>6
  <2> QED BY <2>3, <2>6
<1> QED BY <1>4, <1>5

--------------------------------------------------------------------------------
(* Who ponged is there for whom he ponged. *)

\* Salt s is the only one between the present logins, and the other side of p hears
\* only of p's present login and has no session but with it.
Met(p, s) ==
    /\ AgreedOn(s)
    /\ \A m \in Infos(Other(p)) : m.login = login[p]
    /\ Live(Other(p)) => Current(Other(p))

\* So it is once a pong is on its way to p, and when it has come.
Meeting ==
    Able => /\ \A p \in Peer : Current(p) /\ session[p].handshake => Met(p, session[p].salt)
            /\ \A d \in net : d.type = "pong" /\ d.login = login[d.from] => Met(d.to, d.salt)

\* It stays so until a login.
LEMMA MetStays ==
    ASSUME TypeOK, News, Fitting, NoDangling, Able, NEW p \in Peer, Does(p), ~ComesBack(p),
           NEW r \in Peer, NEW s, Met(r, s)
    PROVE  Met(r, s)'
<1> DEFINE q == Other(p)
<1>1. q \in Peer /\ q # p /\ Other(q) = p /\ \A x \in Peer : x = p \/ x = q
  BY TwoPeers
<1>2. /\ session'[q] = session[q] /\ login'[q] = login[q] /\ login'[p] = login[p]
      /\ Infos(p)' \subseteq Infos(p)
  BY DoesAtOne, InfosDo
<1>3. AgreedOn(s) /\ AgreedOn(s)' /\ capable[p] = "yes"
  <2>1. AgreedOn(s)
    BY DEF Met
  <2>2. AgreedOn(s)'
    BY <2>1, AgreedStays
  <2> QED BY <2>1, <2>2 DEF AgreedOn
<1> HIDE DEF q
<1>4. CASE r = p
  <2>1. \A m \in Infos(q)' : m.login = login'[p]
    <3>1. \A m \in Infos(q) : m.login = login[p]
      BY <1>4 DEF Met, q
    <3>2. \A x, real : Info(p, x, real).login = login[p]
      BY DEF Info
    <3>3. CASE Asks(p)
      BY <1>2, <3>1, <3>2, <3>3, InfosDo DEF q
    <3>4. CASE Refuses(p) \/ Goes(p)
      BY <1>2, <3>1, <3>2, <3>4, InfosDo DEF q
    <3>5. CASE Infos(q)' \subseteq Infos(q)
      BY <1>2, <3>1, <3>5
    <3> QED BY <3>3, <3>4, <3>5, InfosDo DEF Does, q
  <2>2. Live(q)' => Current(q)'
    <3>1. Live(q) => Current(q)
      BY <1>4 DEF Met, q
    <3> QED BY <1>1, <1>2, <3>1 DEF Live, Current
  <2> QED BY <1>3, <1>4, <2>1, <2>2 DEF Met, q
<1>5. CASE r = q
  <2>1. /\ \A m \in Infos(p) : m.login = login[q]
        /\ Live(p) => Current(p)
    BY <1>1, <1>5 DEF Met
  <2>2. Live(p)' => session'[p].peer = login[q]
    <3>1. CASE Live(p)
      BY <2>1, <3>1, AbleDo DEF Current, q
    <3>2. CASE ~Live(p)
      <4>1. ~Asks(p)
        BY <1>3, AbleDo DEF Silent
      <4>2. Goes(p) => sid[p] = login[q]
        BY <2>1, AbleDo
      <4> QED BY <3>2, <4>1, <4>2, AbleDo
    <3> QED BY <3>1, <3>2
  <2>3. Live(p)' => Current(p)'
    BY <1>2, <2>2 DEF Current, q
  <2>4. \A m \in Infos(p)' : m.login = login'[q]
    BY <1>2, <2>1
  <2> QED BY <1>1, <1>3, <1>5, <2>3, <2>4 DEF Met
<1> QED BY <1>1, <1>4, <1>5

\* A pong answers a ping for a session with the present login.
LEMMA MeetingStep ==
    ASSUME TypeOK, TypeOK', News, SaltsKnown, NetKnown, UpToDate, Fitting, Fitting',
           NoDangling, Pinged, Crossing, Meeting, NEW p \in Peer, Does(p)
    PROVE  Meeting'
<1> DEFINE q == Other(p)
<1>1. q \in Peer /\ q # p /\ Other(q) = p /\ (\A x \in Peer : x = p \/ x = q)
      /\ login \in [Peer -> Login] /\ session \in [Peer -> Sessions]
  BY TwoPeers DEF TypeOK
<1>2. /\ session'[q] = session[q] /\ login'[q] = login[q]
      /\ Able' <=> Able
      /\ ~ComesBack(p) => login'[p] = login[p]
  BY DoesAtOne DEF Able, Open, Enabled
<1> HIDE DEF q
<1> SUFFICES ASSUME Able
             PROVE  /\ \A r \in Peer : Current(r)' /\ session'[r].handshake
                                       => Met(r, session[r].salt)'
                    /\ \A d \in net' : d.type = "pong" /\ d.login = login'[d.from]
                                       => Met(d.to, d.salt)'
  BY <1>2 DEF Meeting
<1>3. CASE ComesBack(p)
  <2>1. \A r \in Peer : ~Current(r)'
    BY <1>3, ComesBackClears
  <2>2. ASSUME NEW d \in net' PROVE d.login # login'[d.from]
    <3>1. login[p] = 1 /\ login'[p] = 2 /\ net' = net /\ p \in gone
      BY <1>1, <1>3 DEF ComesBack
    <3>2. d.from \in Peer /\ d.to \in Peer /\ d.from = Other(d.to) /\ d.to # p /\ d.login <= login[d.from]
      BY <3>1 DEF NetKnown, TypeOK
    <3>3. d.from = p
      BY <1>1, <3>2
    <3> QED BY <3>1, <3>2, <3>3
  <2> QED BY <2>1, <2>2
<1>4. CASE ~ComesBack(p)
  <2>1. ASSUME NEW r \in Peer, NEW s, Met(r, s) PROVE Met(r, s)'
    BY <1>4, <2>1, MetStays
  <2>2. login'[p] = login[p]
    BY <1>2, <1>4
  <2>3. Current(p)' /\ session'[p].handshake => Met(p, session'[p].salt)
    <3>1. SUFFICES ASSUME Current(p)', session'[p].handshake PROVE Met(p, session'[p].salt)
      OBVIOUS
    <3>2. Live(p)' /\ session'[p].peer = login[q]
      BY <1>2, <3>1 DEF Current, q
    <3>3. Live(p)
      BY <3>1, <3>2, AbleDo DEF Asks, Goes
    <3>4. Current(p) /\ session'[p].salt = session[p].salt
      BY <3>2, <3>3, AbleDo DEF Current, q
    <3>5. CASE session[p].handshake
      BY <3>4, <3>5 DEF Meeting
    <3>6. CASE ~session[p].handshake
      <4>1. PICK d \in net : d.to = p /\ d.type = "pong" /\ Known(p, d)
        <5>1. session'[p].handshake # session[p].handshake
          BY <3>1, <3>6
        <5>2. ~Idle(p) /\ ~Leaves(p) /\ ~Goes(p)
          BY <3>3, <5>1 DEF Idle, Leaves, Goes
        <5>3. ~Removes(p)
          BY <1>1, <3>2 DEF Removes, Live, NoSession
        <5>4. Moves(p)
          BY <1>4, <3>3, <5>2, <5>3, AbleDo DEF Does, Silent, Live
        <5> QED BY <5>1, <5>4 DEF Moves
      <4>2. d.from = q /\ d.login = login[q] /\ d.salt = session[p].salt
        BY <3>4, <4>1 DEF Known, Current, q
      <4> QED BY <3>4, <4>1, <4>2 DEF Meeting
    <3> QED BY <3>5, <3>6
  <2>4. Current(q)' /\ session'[q].handshake => Met(q, session'[q].salt)
    BY <1>1, <1>2, <2>2 DEF Meeting, Current, Live
  <2>5. ASSUME NEW d \in net', d.type = "pong", d.login = login'[d.from] PROVE Met(d.to, d.salt)
    <3>1. CASE d \in net
      <4>1. d.from \in Peer
        BY <3>1 DEF TypeOK
      <4> QED BY <1>1, <1>2, <2>2, <2>5, <3>1, <4>1 DEF Meeting
    <3>2. CASE d \notin net
      <4>1. Sent(p, d) /\ d.type # "ping"
        BY <2>5, <3>2, NetDo
      <4>2. /\ session'[p] \in LiveSessions /\ d.salt = session'[p].salt /\ d.to = q
            /\ session'[p].reach = login[q] /\ Moves(p)
        BY <4>1 DEF Sent, q
      <4>3. PICK e \in net : /\ e.to = p /\ e.type = "ping" /\ Known(p, e)
                             /\ session'[p].timer => session'[p].reach = e.login
        BY <4>1 DEF Sent
      <4>4. Live(p) /\ session'[p].salt = session[p].salt /\ capable'[p] = capable[p]
        BY <4>2 DEF Moves
      <4>5. session'[p].timer /\ capable[p] = "yes"
        <5>1. Live(p)' /\ session'[p].reach # 0
          BY <1>1, <4>2 DEF Live, LiveSessions, Login
        <5> QED BY <4>4, <5>1 DEF Fitting
      <4>6. e.login = login[q] /\ Current(p)
        BY <4>2, <4>3, <4>5 DEF Known, Current, q
      <4>7. AgreedOn(session[p].salt)
        BY <4>3, <4>5, <4>6, AgreedByPing DEF q
      <4>8. \A m \in Infos(p) : m.login = login[q]
        BY <4>6 DEF UpToDate, q
      <4> QED BY <1>1, <4>2, <4>4, <4>6, <4>7, <4>8 DEF Met
    <3> QED BY <3>1, <3>2
  <2>6. ASSUME NEW r \in Peer, Current(r)', session'[r].handshake
        PROVE  Met(r, session[r].salt)'
    <3>1. PICK s : s = session'[r].salt
      OBVIOUS
    <3>2. Met(r, s)
      BY <1>1, <2>3, <2>4, <2>6, <3>1
    <3>3. Met(r, s)'
      BY <2>1, <3>2
    <3> QED BY <3>1, <3>3 DEF Met, AgreedOn
  <2>7. ASSUME NEW d \in net', d.type = "pong", d.login = login'[d.from]
        PROVE  Met(d.to, d.salt)'
    <3>1. PICK s, r : s = d.salt /\ r = d.to
      OBVIOUS
    <3>2. r \in Peer
      BY <3>1 DEF TypeOK
    <3>3. Met(r, s)'
      BY <2>1, <2>5, <2>7, <3>1, <3>2
    <3> QED BY <3>1, <3>3 DEF Met, AgreedOn
  <2> QED BY <2>6, <2>7
<1> QED BY <1>3, <1>4

--------------------------------------------------------------------------------
(* Direct messages on their way. *)

DirectIms == {d \in direct : d.type = "im"}

\* The sender of a direct message has a finished handshake.
Sends(d) ==
    LET p == d.from
        ses == session[p]
    IN  /\ p \in Peer /\ Live(p) /\ ses.handshake
        /\ d.to = Other(p) /\ d.login = ses.own /\ d.salt = ses.salt
        /\ Other(p) \notin gone

\* A direct message on its way was so before, or is sent and nothing else happens.
LEMMA ImsDo ==
    ASSUME TypesOK, News, [Next]_allVars, NEW d \in DirectIms'
    PROVE  \/ d \in DirectIms /\ (d.to \notin gone => d.to \notin gone')
           \/ UNCHANGED vars /\ Sends(d)
<1> SUFFICES ASSUME d \in direct', d.type = "im"
             PROVE  \/ d \in direct /\ (d.to \notin gone => d.to \notin gone')
                    \/ UNCHANGED vars /\ Sends(d)
  BY DEF DirectIms
<1>1. TypeOK
  BY DEF TypesOK
<1>2. ASSUME NEW p \in Peer, Step(p)
      PROVE  \/ d \in direct /\ (d.to \notin gone => d.to \notin gone')
             \/ UNCHANGED vars /\ Sends(d)
  <2>1. CASE SendDirectly(p)
    <3>1. /\ direct' = direct \union Data(p, session[p], "im", NextNumber(p))
          /\ UNCHANGED vars /\ Live(p) /\ session[p].handshake
      BY <2>1 DEF SendDirectly, Active
    <3>2. CASE d \in Data(p, session[p], "im", NextNumber(p))
      <4>1. /\ Arriving(p, session[p])
            /\ d = [to |-> Other(p), type |-> "im", from |-> p, login |-> session[p].own,
                    salt |-> session[p].salt, n |-> NextNumber(p)]
        BY <3>2 DEF Data
      <4>2. /\ d.to = Other(p) /\ d.from = p /\ d.login = session[p].own
            /\ d.salt = session[p].salt
        BY <4>1
      <4> QED BY <3>1, <4>1, <4>2 DEF Sends, Arriving
    <3> QED BY <3>1, <3>2 DEF vars
  <2>2. CASE ReceiveText(p)
    <3>1. PICK e \in direct :
             /\ \E rest \in TakenData(p, e) :
                   direct' = rest \union Data(p, session[p], "confirm", e.n)
             /\ UNCHANGED vars
      BY <2>2 DEF ReceiveText
    <3>2. \A rest \in TakenData(p, e) : rest \subseteq direct
      BY DEF TakenData, Taken
    <3>3. \A c \in Data(p, session[p], "confirm", e.n) : c.type = "confirm"
      BY DEF Data
    <3> QED BY <3>1, <3>2, <3>3 DEF vars
  <2>3. CASE ReceiveConfirmation(p)
    <3>1. PICK e \in direct : direct' \in TakenData(p, e) /\ UNCHANGED vars
      BY <2>3 DEF ReceiveConfirmation
    <3> QED BY <3>1 DEF vars, TakenData, Taken
  <2>4. CASE QuitMessages(p)
    BY <2>4 DEF QuitMessages, Quit
  <2>5. CASE direct' \subseteq direct /\ gone' \subseteq gone
    BY <2>5
  <2> QED BY <1>2, <2>1, <2>2, <2>3, <2>4, <2>5
          DEF Step, HandlesText, ReadsData, Negotiates, HandlesInfo, ChecksSession, vars,
              messages, SendOverServer, SendOnDangling, HandleText, HandleConfirmation,
              ReceiveFromNobody, ReceiveStrayData, InfoDenied, InfoCompatible,
              InfoIncompatible, HandleSession, PongOverdue, PingAgain, SessionTimeout,
              ReceivePing, ReceivePong, ReceiveUnknown, ReceiveOnDangling, Return
<1>3. CASE direct' \subseteq direct /\ gone' = gone
  BY <1>3
<1> QED BY <1>2, <1>3 DEF Next, Lose, LoseData, allVars, vars, messages

\* Direct messages are of sessions between compatible peers, name no login of the
\* future, and have a socket to come to.
ImsKnown ==
    \A d \in DirectIms :
        /\ d.from = Other(d.to) /\ d.to \notin gone /\ Able
        /\ d.login <= login[d.from] /\ d.salt[2] <= login[d.salt[1]]
        /\ \A p \in Peer : d.salt = OwnSalt(p) => ~Silent(p)

\* If the salt of one of the present login is still in use, its receiver was met.
ImsMet == \A d \in DirectIms : d.login = login[d.from] /\ InUse(d.salt) => Met(d.from, d.salt)

\* Its fields.
LEMMA ImTyped ==
    ASSUME TypesOK, NEW d \in DirectIms
    PROVE  /\ d.to \in Peer /\ d.from \in Peer /\ d.login \in Login /\ d.salt \in Salt
           /\ d.salt[1] \in Peer /\ d.salt[2] \in Login
  BY DEF TypesOK, DirectIms, Salt

\* A salt that was drawn is not to be drawn again.
LEMMA SilentStep ==
    ASSUME TypeOK, Fitting, NoDangling, News, Able, NEW p \in Peer, Does(p), NEW r \in Peer,
           NEW s \in Salt, s[2] <= login[s[1]], s = OwnSalt(r)', Silent(r)'
    PROVE  s = OwnSalt(r) /\ Silent(r)
<1> DEFINE q == Other(p)
<1>1. q \in Peer /\ q # p /\ (\A x \in Peer : x = p \/ x = q)
      /\ login \in [Peer -> Login] /\ session \in [Peer -> Sessions]
  BY TwoPeers DEF TypeOK
<1>2. /\ session'[q] = session[q] /\ login'[q] = login[q] /\ capable'[q] = capable[q]
      /\ ~ComesBack(p) => login'[p] = login[p]
  BY DoesAtOne
<1> HIDE DEF q
<1>3. ~(r = p /\ ComesBack(p))
  <2>1. SUFFICES ASSUME r = p, ComesBack(p) PROVE FALSE
    OBVIOUS
  <2>2. login[p] = 1 /\ login'[p] = 2
    BY <1>1, <2>1 DEF ComesBack
  <2>3. s[1] = p /\ s[2] = 2
    BY <2>1, <2>2 DEF OwnSalt
  <2> QED BY <2>2, <2>3
<1>4. s = OwnSalt(r)
  BY <1>1, <1>2, <1>3 DEF OwnSalt
<1>5. CASE r = q
  BY <1>2, <1>4, <1>5 DEF Silent
<1>6. CASE r = p
  <2>1. ~ComesBack(p) /\ capable[p] = "unknown" /\ ~Live(p)' /\ ~Goes(p) /\ ~Refuses(p)
    BY <1>3, <1>6, AbleDo DEF Silent, Live
  <2>2. ~Removes(p)
    BY <2>1 DEF Removes, Fitting
  <2>3. ~Live(p) /\ session[p].state # "dangling"
    BY <2>1, <2>2, AbleDo DEF NoDangling
  <2>4. session[p].state \in {"none", "dangling", "live"}
    BY <1>1 DEF Sessions, NoSession, Dangling
  <2> QED BY <1>4, <1>6, <2>1, <2>3, <2>4 DEF Silent, Live
<1> QED BY <1>1, <1>5, <1>6

\* A direct message is of the session its sender has, and stays what it is.
LEMMA ImsKnownStep ==
    ASSUME TypesOK, TypesOK', News, SaltsKnown, Fitting, NoDangling, Fresh, ImsKnown,
           [Next]_allVars, NEW p \in Peer, Does(p)
    PROVE  ImsKnown'
<1>1. Does(p)
  OBVIOUS
<1>2. /\ TypeOK /\ login \in [Peer -> Login] /\ login' \in [Peer -> Login]
      /\ Other(p) \in Peer /\ Other(p) # p /\ \A q \in Peer : q = p \/ q = Other(p)
  BY TwoPeers DEF TypesOK, TypeOK
<1>3. \A q \in Peer : login[q] <= login'[q]
  <2>1. login[p] <= login'[p] /\ login'[Other(p)] = login[Other(p)]
    BY <1>1, <1>2, DoesAtOne
  <2>2. login[Other(p)] <= login'[Other(p)]
    BY <1>2, <2>1 DEF Login
  <2> QED BY <1>2, <2>1, <2>2
<1>4. Able' <=> Able
  BY <1>1, <1>2, DoesAtOne DEF Able, Open, Enabled
<1>5. ASSUME NEW d \in DirectIms'
      PROVE  /\ d.from = Other(d.to) /\ d.to \notin gone' /\ Able
             /\ d.login <= login'[d.from] /\ d.salt[2] <= login'[d.salt[1]]
             /\ \A r \in Peer : d.salt = OwnSalt(r)' => ~Silent(r)'
  <2>1. CASE d \in DirectIms /\ (d.to \notin gone => d.to \notin gone')
    <3>1. /\ d.from \in Peer /\ d.login \in Login /\ d.salt \in Salt
          /\ d.salt[1] \in Peer /\ d.salt[2] \in Login
      BY <2>1, ImTyped
    <3>2. /\ d.from = Other(d.to) /\ d.to \notin gone' /\ Able
          /\ d.login <= login[d.from] /\ d.salt[2] <= login[d.salt[1]]
          /\ \A r \in Peer : d.salt = OwnSalt(r) => ~Silent(r)
      BY <2>1 DEF ImsKnown
    <3>3. \A x, y, z \in Login : x <= y /\ y <= z => x <= z
      BY DEF Login
    <3>4. d.login <= login'[d.from] /\ d.salt[2] <= login'[d.salt[1]]
      BY <1>2, <1>3, <3>1, <3>2, <3>3
    <3>5. ASSUME NEW r \in Peer, d.salt = OwnSalt(r)', Silent(r)' PROVE FALSE
      <4> DEFINE s == d.salt
      <4>1. s \in Salt /\ s[2] <= login[s[1]] /\ s = OwnSalt(r)'
        BY <3>1, <3>2, <3>5
      <4> HIDE DEF s
      <4>2. s = OwnSalt(r) /\ Silent(r)
        BY <1>1, <1>2, <3>2, <3>5, <4>1, SilentStep
      <4> QED BY <3>2, <4>2 DEF s
    <3> QED BY <3>2, <3>4, <3>5
  <2>2. CASE UNCHANGED vars /\ Sends(d)
    <3>1. UNCHANGED <<login, capable, session, gone>>
      BY <2>2 DEF vars
    <3> DEFINE p1 == d.from
               q1 == Other(d.from)
    <3>2. /\ p1 \in Peer /\ q1 \in Peer /\ Other(q1) = p1
          /\ Live(p1) /\ session[p1].handshake /\ d.to = q1
          /\ d.login = session[p1].own /\ d.salt = session[p1].salt /\ q1 \notin gone
      BY <2>2, TwoPeers DEF Sends
    <3>3. /\ d.login = login[p1] /\ session[p1].peer <= login[q1]
          /\ d.salt \in {<<p1, login[p1]>>, <<q1, session[p1].peer>>}
      BY <3>2 DEF SaltsKnown, OwnSalt
    <3>4. Able
      BY <3>2 DEF Fitting
    <3>5. d.login <= login[p1] /\ d.salt[2] <= login[d.salt[1]]
      <4>1. login[p1] <= login[p1]
        BY <1>2, <3>2 DEF Login
      <4> QED BY <3>3, <4>1
    <3>6. \A r \in Peer : d.salt = OwnSalt(r) => ~Silent(r)
      BY <3>2 DEF Fresh, Nowhere
    <3>7. \A r \in Peer : (OwnSalt(r)' = OwnSalt(r)) /\ (Silent(r)' <=> Silent(r))
      BY <3>1 DEF OwnSalt, Silent
    <3> QED BY <3>1, <3>2, <3>4, <3>5, <3>6, <3>7
  <2> QED BY <2>1, <2>2, ImsDo
<1> QED BY <1>4, <1>5 DEF ImsKnown

\* Who sends was met, or his salt is past.
LEMMA ImsMetStep ==
    ASSUME TypesOK, News, SaltsKnown, Fitting, NoDangling, Meeting, Bygone,
           ImsKnown, ImsMet, [Next]_allVars, NEW p \in Peer, Does(p)
    PROVE  ImsMet'
<1>1. Does(p)
  OBVIOUS
<1>2. /\ TypeOK /\ Other(p) \in Peer /\ Other(p) # p /\ \A q \in Peer : q = p \/ q = Other(p)
  BY TwoPeers DEF TypesOK
<1>3. login'[Other(p)] = login[Other(p)] /\ (~ComesBack(p) => login'[p] = login[p])
  BY <1>1, <1>2, DoesAtOne
<1>4. ASSUME NEW d \in DirectIms', d.login = login'[d.from], InUse(d.salt)'
      PROVE  Met(d.from, d.salt)'
  <2> DEFINE r == d.from
             s == d.salt
  <2>1. ~ComesBack(p)
    BY <1>1, <1>2, <1>4, ComesBackClears DEF InUse
  <2>2. InUse(s)' /\ d.login = login'[r]
    BY <1>4 DEF InUse
  <2>3. CASE d \in DirectIms
    <3>1. r \in Peer /\ s \in Salt
      BY <2>3, ImTyped
    <3>2. Able /\ \A x \in Peer : s = OwnSalt(x) => ~Silent(x)
      BY <2>3 DEF ImsKnown
    <3>3. d.login = login[r]
      BY <1>2, <1>3, <2>1, <2>2, <3>1
    <3> HIDE DEF s, r
    <3>4. InUse(s)
      <4>1. CASE Asks(p)
        <5>1. s # OwnSalt(p)
          BY <1>1, <1>2, <3>2, <4>1, AbleDo
        <5> QED BY <1>2, <2>2, <4>1, <5>1, UsedByAsking
      <4>2. CASE ~Asks(p)
        BY <1>1, <1>2, <2>1, <2>2, <3>2, <4>2, UsedBefore
      <4> QED BY <4>1, <4>2
    <3>5. Met(r, s)
      BY <2>3, <3>3, <3>4 DEF ImsMet, r, s
    <3>6. Met(r, s)'
      BY <1>1, <1>2, <2>1, <3>1, <3>2, <3>5, MetStays
    <3> QED BY <3>6 DEF r, s, Met, AgreedOn
  <2>4. CASE UNCHANGED vars /\ Sends(d)
    <3>1. UNCHANGED <<login, capable, session, gone, info>>
      BY <2>4 DEF vars
    <3>2. r \in Peer /\ Live(r) /\ session[r].handshake /\ s = session[r].salt
      BY <2>4 DEF Sends
    <3>3. InUse(s) /\ Able
      BY <2>2, <3>1, <3>2 DEF InUse, Current, Live, PresentInfos, Infos, Fitting
    <3>4. Met(r, s)
      BY <3>2, <3>3 DEF Bygone, Meeting
    <3> QED BY <3>1, <3>4 DEF Met, AgreedOn, Current, Live, PresentInfos, Infos
  <2> QED BY <1>4, <2>3, <2>4, ImsDo
<1> QED BY <1>4 DEF ImsMet

--------------------------------------------------------------------------------
(* A network that loses nothing and is in time. *)

Punctual == Able /\ ~Lossy /\ ~world.slow

\* What p's step does to sessions and datagrams in such a network: nothing, but that p
\* ignores what it does not know and that a socket closes,
Rests(p) ==
    /\ Idle(p) \/ Leaves(p)
    /\ gone \subseteq gone' /\ net' \subseteq net
    /\ \A d \in net : d \in net' \/ (d.to = p /\ ~Known(p, d)) \/ d.to \in gone'

\* or a handler of p's,
GoesOn(p) ==
    LET m == Head(info[p])
        new == session'[p]
    IN  Goes(p) /\ new.pongNeeded /\ ~new.due /\ (m.real => new.reach = m.login)

\* or a check of the timer, late only when nothing is on its way,
Alters(p) ==
    /\ Moves(p) /\ session'[p].handshake = session[p].handshake
    /\ net \subseteq net' /\ \A d \in net' : d \in net \/ d.type = "ping"

Overdue(p) ==
    /\ Alters(p) /\ session[p].pongNeeded
    /\ net = {} /\ \A q \in Peer : info[q] = <<>>

PingsAgain(p) ==
    Alters(p) /\ session[p].pongNeeded /\ session[p].due /\ ~session'[p].due

GivesUp(p) == Removes(p) /\ session[p].pongNeeded /\ session[p].due

\* or the socket brings a ping or a pong.
IsPinged(p) ==
    LET old == session[p]
        new == session'[p]
    IN  /\ Moves(p) /\ new.handshake = old.handshake /\ (~old.timer => new = old)
        /\ \E d \in net :
              /\ d.to = p /\ d.type = "ping" /\ Known(p, d)
              /\ new.timer => new.reach = d.login /\ new.pongNeeded /\ ~new.due
              /\ net' = (net \ {d}) \union Datagram(p, new, "pong")
                        \union IF new.timer THEN Datagram(p, new, "ping") ELSE {}

IsPonged(p) ==
    LET old == session[p]
        new == session'[p]
    IN  /\ Moves(p) /\ new.handshake /\ ~new.pongNeeded /\ new.due = old.due
        /\ \E d \in net : d.to = p /\ d.type = "pong" /\ Known(p, d) /\ net' = net \ {d}

Acts(p) ==
    \/ Rests(p) \/ (Asks(p) /\ net' = net) \/ GoesOn(p) \/ Overdue(p) \/ PingsAgain(p)
    \/ GivesUp(p) \/ IsPinged(p) \/ IsPonged(p) \/ ComesBack(p)

\* What the handler of information leaves a session with.
LEMMA GoesOnIs ==
    ASSUME TypeOK, News, NEW p \in Peer, InfoCompatible(p) PROVE GoesOn(p)
<1> DEFINE m == Head(info[p])
           old == SessionFor(p, m)
           reach == IF m.real THEN m.login ELSE 0
           new == Addressed(old, reach)
<1>1. /\ session' = [session EXCEPT ![p] = new] /\ info[p] # <<>> /\ m.type = "info"
      /\ session \in [Peer -> Sessions]
  BY DEF InfoCompatible, Judges, Waiting, TypeOK
<1>2. m \in Packets /\ m.login = sid[p] /\ sid[p] \in Login /\ m.salt \in Salt
  BY <1>1, ConsumedIs, FirstIsKnown, PacketIs
<1>3. old \in LiveSessions
  BY <1>2, LiveTyped, NewSessionIs DEF SessionFor
<1>4. session'[p] = new
  BY <1>1
<1> HIDE DEF old
<1>5. new.pongNeeded /\ ~new.due /\ new.reach = reach
  BY <1>3 DEF Addressed, LiveSessions
<1> HIDE DEF new
<1>6. m.real => new.reach = m.login
  BY <1>5
<1>7. Goes(p)
  BY CompatibleGoes
<1> QED BY <1>4, <1>5, <1>6, <1>7 DEF GoesOn

\* What a ping does on a network that loses nothing,
LEMMA IsPingedIs ==
    ASSUME TypeOK, ~Lossy, NEW p \in Peer, ReceivePing(p) PROVE IsPinged(p)
<1>1. PICK d \in net :
          /\ d.to = p /\ d.type = "ping" /\ Known(p, d)
          /\ session' = [session EXCEPT ![p] = Rectified(session[p], d)]
          /\ \E rest \in Taken(d, net) :
                net' = rest \union Datagram(p, Rectified(session[p], d), "pong")
                       \union IF Rectified(session[p], d).timer
                              THEN Datagram(p, Rectified(session[p], d), "ping") ELSE {}
  BY DEF ReceivePing
<1> DEFINE old == session[p]
           new == Rectified(old, d)
<1>2. session'[p] = new /\ session \in [Peer -> Sessions]
  BY <1>1 DEF TypeOK
<1>3. net' = (net \ {d}) \union Datagram(p, new, "pong")
             \union IF new.timer THEN Datagram(p, new, "ping") ELSE {}
  BY <1>1 DEF Taken
<1>4. old \in LiveSessions
  BY <1>1, LiveTyped DEF Known
<1>5. /\ new.handshake = old.handshake /\ (~old.timer => new = old)
      /\ new.timer => new.reach = d.login /\ new.pongNeeded /\ ~new.due
  <2> HIDE DEF old
  <2>1. CASE old.timer
    BY <1>4, <2>1 DEF Rectified, Addressed, LiveSessions
  <2>2. CASE ~old.timer
    BY <1>4, <2>2 DEF Rectified
  <2> QED BY <2>1, <2>2
<1>6. Moves(p)
  BY HandledMoves
<1> HIDE DEF new
<1> QED BY <1>1, <1>2, <1>3, <1>5, <1>6 DEF IsPinged

\* a pong,
LEMMA IsPongedIs ==
    ASSUME TypeOK, ~Lossy, NEW p \in Peer, ReceivePong(p) PROVE IsPonged(p)
<1>1. PICK d \in net :
          /\ d.to = p /\ d.type = "pong" /\ Known(p, d)
          /\ session' = [session EXCEPT ![p].pongNeeded = FALSE, ![p].handshake = TRUE]
          /\ net' \in Taken(d, net)
  BY DEF ReceivePong
<1>2. session[p] \in LiveSessions /\ session \in [Peer -> Sessions]
  BY <1>1, LiveTyped DEF Known, TypeOK
<1>3. session'[p] = [session[p] EXCEPT !.pongNeeded = FALSE, !.handshake = TRUE]
  BY <1>1, <1>2
<1>4. /\ session'[p].handshake /\ ~session'[p].pongNeeded
      /\ session'[p].due = session[p].due
  BY <1>2, <1>3 DEF LiveSessions
<1>5. net' = net \ {d} /\ Moves(p)
  BY <1>1, HandledMoves DEF Taken
<1> QED BY <1>1, <1>4, <1>5 DEF IsPonged

\* and the check of the timer on one that is in time.
LEMMA OverdueIs ==
    ASSUME TypeOK, ~world.slow, NEW p \in Peer, PongOverdue(p) \/ PingAgain(p)
    PROVE  Overdue(p) \/ PingsAgain(p)
<1>1. /\ session'[p].handshake = session[p].handshake /\ session[p].pongNeeded /\ Moves(p)
      /\ session[p] \in LiveSessions /\ session \in [Peer -> Sessions]
  BY CheckIs, HandledMoves, LiveTyped DEF PongOverdue, PingAgain, CheckDue, TypeOK
<1>2. CASE PongOverdue(p)
  BY <1>1, <1>2 DEF PongOverdue, Overdue, Alters
<1>3. CASE PingAgain(p)
  <2>1. session[p].due /\ net' = net \union Datagram(p, session[p], "ping")
    BY <1>3 DEF PingAgain, CheckDue
  <2>2. \A d \in Datagram(p, session[p], "ping") : d.type = "ping"
    BY DEF Datagram
  <2>3. session'[p] = [session[p] EXCEPT !.retries = @ + 1, !.due = FALSE]
    BY <1>1, <1>3 DEF PingAgain
  <2>4. ~session'[p].due
    BY <1>1, <2>3 DEF LiveSessions
  <2> QED BY <1>1, <2>1, <2>2, <2>4 DEF PingsAgain, Alters
<1> QED BY <1>2, <1>3

\* Every action of a peer is one of these.
LEMMA ActsIs ==
    ASSUME TypesOK, News, Fitting, NoDangling, NetKnown, Punctual, NEW p \in Peer, Step(p)
    PROVE  Acts(p) /\ Does(p)
<1>1. /\ TypeOK /\ Able /\ ~Lossy /\ ~world.slow
      /\ session[p].state # "dangling" /\ capable[p] # "no" /\ p \in Open \cap Enabled
  BY DEF TypesOK, TypeOK, Punctual, NoDangling, Able
<1>2. Does(p)
  BY StepIs
<1>3. CASE \/ SendOverServer(p)
           \/ HandleText(p) \/ HandleConfirmation(p) \/ HandleSession(p)
  <2>1. net' = net /\ gone' = gone
    BY <1>3 DEF SendOverServer, HandleText, HandleConfirmation, HandleSession
  <2>2. CASE SendOverServer(p) /\ AsksForP2P(p)
    BY <1>2, <2>1, <2>2, AskAsks DEF Acts
  <2>3. CASE ~(SendOverServer(p) /\ AsksForP2P(p))
    BY <1>2, <1>3, <2>1, <2>3, HandledIdles DEF Acts, Rests
  <2> QED BY <2>2, <2>3
<1>4. CASE InfoCompatible(p)
  BY <1>1, <1>2, <1>4, GoesOnIs DEF Acts
<1>5. CASE ReceivePing(p) \/ ReceivePong(p) \/ PongOverdue(p) \/ PingAgain(p)
  BY <1>1, <1>2, <1>5, IsPingedIs, IsPongedIs, OverdueIs DEF Acts
<1>6. CASE SessionTimeout(p)
  BY <1>2, <1>6 DEF SessionTimeout, CheckDue, Acts, GivesUp, Removes
<1>7. CASE QuitMessages(p)
  <2>1. /\ gone' = gone \union {p} /\ net' = {d \in net : d.to # p}
    BY <1>7 DEF QuitMessages, Quit
  <2>2. Leaves(p)
    <3>1. Announce(p, 0)
      BY <1>7 DEF QuitMessages, Quit
    <3>2. /\ info'[p] = <<>>
          /\ info'[Other(p)] \in {info[Other(p)], Append(info[Other(p)], SessionIs(0))}
      BY <3>1, <1>1, AnnounceIs
    <3> QED BY <1>7, <3>2 DEF QuitMessages, Quit, Leaves
  <2> QED BY <1>2, <2>1, <2>2 DEF Acts, Rests
<1>8. CASE Return(p)
  <2>1. login[p] = 1 /\ login'[p] = 2
    BY <1>1, <1>8 DEF Return, TypeOK
  <2>2. ComesBack(p)
    BY <1>1, <1>2, <2>1, DoesAtOne
  <2> QED BY <1>2, <2>2 DEF Acts
<1>9. CASE ReceiveUnknown(p)
  <2>1. PICK d \in net : d.to = p /\ ~Known(p, d) /\ net' = net \ {d}
    BY <1>9 DEF ReceiveUnknown
  <2>2. Idle(p) /\ gone' = gone
    BY <1>1, <1>9, <2>1 DEF ReceiveUnknown, Idle
  <2> QED BY <1>2, <2>1, <2>2 DEF Acts, Rests
<1>10. CASE UNCHANGED <<world, login, session, capable, requested, info, net, fault, gone>>
  BY <1>1, <1>2, <1>10 DEF Acts, Rests, Idle
<1>11. ~InfoDenied(p) /\ ~InfoIncompatible(p) /\ ~ReceiveOnDangling(p) /\ ~SendOnDangling(p)
  BY <1>1 DEF InfoDenied, InfoIncompatible, Compatible, ReceiveOnDangling, SendOnDangling
<1> QED BY <1>3, <1>4, <1>5, <1>6, <1>7, <1>8, <1>9, <1>10, <1>11
        DEF Step, HandlesText, ReadsData, Negotiates, HandlesInfo, ChecksSession, vars,
            SendDirectly, ReceiveText, ReceiveConfirmation, ReceiveFromNobody,
            ReceiveStrayData

--------------------------------------------------------------------------------
(* Who pings has a timer, and gives up only when nothing is left to hear. *)

\* A session with a datagram on its way has an address and a timer.
Timed ==
    Able => \A p \in Peer : Live(p) =>
        \A d \in net : d.from = p /\ d.login = login[p] /\ d.salt = session[p].salt
                        => session[p].timer

\* Only a session with an address sends.
LEMMA TimedStep ==
    ASSUME TypeOK, TypeOK', News, Fitting, Fitting', NoDangling, Fresh, Timed,
           NEW p \in Peer, Does(p)
    PROVE  Timed'
<1> DEFINE q == Other(p)
<1>1. q \in Peer /\ q # p /\ Other(q) = p /\ (\A x \in Peer : x = p \/ x = q)
      /\ login \in [Peer -> Login] /\ session \in [Peer -> Sessions]
  BY TwoPeers DEF TypeOK
<1>2. /\ session'[q] = session[q] /\ login'[q] = login[q]
      /\ Able' <=> Able
      /\ ~ComesBack(p) => login'[p] = login[p]
  BY DoesAtOne DEF Able, Open, Enabled
<1> HIDE DEF q
<1> SUFFICES ASSUME Able, NEW r \in Peer, Live(r)', NEW d \in net', d.from = r,
                    d.login = login'[r], d.salt = session'[r].salt
             PROVE  session'[r].timer
  BY <1>2 DEF Timed
<1>3. CASE d \notin net
  <2>1. r = p /\ session'[p] \in LiveSessions /\ session'[p].reach = login[q]
    BY <1>3, NetDo DEF Sent, q
  <2>2. session'[p].reach # 0
    BY <1>1, <2>1 DEF Login
  <2> QED BY <2>1, <2>2 DEF Fitting
<1>4. CASE d \in net /\ r = q
  BY <1>1, <1>2, <1>4 DEF Timed, Live
<1>5. CASE d \in net /\ r = p
  <2>1. ~ComesBack(p) /\ login'[p] = login[p] /\ ~Removes(p)
    <3>1. ~ComesBack(p) /\ ~Removes(p)
      BY <1>1, <1>5 DEF ComesBack, Removes, Live, NoSession
    <3> QED BY <1>2, <3>1
  <2>2. CASE Live(p)
    <3>1. session'[p].salt = session[p].salt /\ ~Asks(p) /\ ~Refuses(p)
      BY <1>5, <2>2, AbleDo
    <3>2. session[p].timer
      BY <1>5, <2>1, <2>2, <3>1 DEF Timed
    <3>3. Idle(p) \/ Leaves(p) \/ Goes(p) \/ Moves(p)
      BY <2>1, <3>1 DEF Does
    <3> QED BY <1>5, <3>2, <3>3 DEF Idle, Leaves, Goes, Moves
  <2>3. CASE ~Live(p)
    <3>1. ~Asks(p)
      <4>1. SUFFICES ASSUME Asks(p) PROVE FALSE
        OBVIOUS
      <4>2. Silent(p) /\ session'[p].salt = OwnSalt(p)
        BY <4>1, AbleDo
      <4> QED BY <1>5, <4>2 DEF Fresh, Nowhere
    <3>2. Goes(p)
      BY <1>5, <2>3, <3>1, AbleDo
    <3> QED BY <1>5, <3>2 DEF Goes
  <2> QED BY <2>2, <2>3
<1>6. d \in net => r = p \/ r = q
  BY <1>1
<1> QED BY <1>3, <1>4, <1>5, <1>6

\* p's session waited in vain, or is gone.
GivenUp(p) == capable[p] = "yes" /\ (~Live(p) \/ session[p].due)

\* Then nobody who answered has anything to hear any more.
Late ==
    Punctual => \A p \in Peer : GivenUp(p) =>
        /\ PresentInfos(Other(p)) = {}
        /\ capable[Other(p)] = "yes" => PresentInfos(p) = {}

\* It is late once all queues are empty; who is asked answers once.
LEMMA LateStep ==
    ASSUME TypeOK, News, SaltsKnown, UpToDate, Fitting, NoDangling, Asked, Late,
           Punctual, NEW p \in Peer, Does(p), Acts(p)
    PROVE  Late'
<1> DEFINE q == Other(p)
<1>1. q \in Peer /\ q # p /\ Other(q) = p /\ (\A x \in Peer : x = p \/ x = q)
      /\ Able
  BY TwoPeers DEF Punctual
<1>2. /\ session'[q] = session[q] /\ login'[q] = login[q] /\ capable'[q] = capable[q]
      /\ ~ComesBack(p) => login'[p] = login[p]
  BY DoesAtOne
<1> HIDE DEF q
<1> SUFFICES ASSUME NEW r \in Peer, GivenUp(r)'
             PROVE  /\ PresentInfos(Other(r))' = {}
                    /\ capable'[Other(r)] = "yes" => PresentInfos(r)' = {}
  BY DEF Late
<1>3. CASE ComesBack(p)
  <2>1. \A x \in Peer : PresentInfos(x)' = {}
    BY <1>3, ComesBackClears
  <2> QED BY <1>1, <2>1 DEF q
<1>4. CASE ~ComesBack(p)
  <2>1. PresentInfos(p)' \subseteq PresentInfos(p)
    BY <1>2, InfosDo DEF PresentInfos, q
  <2>2. Idle(p) \/ Leaves(p) \/ Moves(p) \/ Removes(p) =>
          PresentInfos(q)' \subseteq PresentInfos(q) /\ capable'[p] = capable[p]
    <3>1. SUFFICES ASSUME Idle(p) \/ Leaves(p) \/ Moves(p) \/ Removes(p)
                   PROVE  PresentInfos(q)' \subseteq PresentInfos(q) /\ capable'[p] = capable[p]
      OBVIOUS
    <3>2. Infos(q)' \subseteq Infos(q)
      BY <3>1, InfosDo DEF q
    <3>3. capable'[p] = capable[p]
      BY <3>1 DEF Idle, Leaves, Moves, Removes
    <3> QED BY <1>1, <1>2, <1>4, <3>2, <3>3 DEF PresentInfos
  <2>4. CASE r = p
    <3>1. capable'[p] = "yes" /\ (~Live(p)' \/ session'[p].due)
      BY <1>4, <2>4 DEF GivenUp
    <3>2. ~Asks(p) /\ ~GoesOn(p) /\ ~PingsAgain(p)
      <4>1. ~Asks(p)
        BY <1>1, <3>1, AbleDo
      <4>2. ~GoesOn(p) /\ ~PingsAgain(p)
        BY <3>1 DEF GoesOn, PingsAgain, Alters, Goes, Moves, Live, LiveSessions
      <4> QED BY <4>1, <4>2
    <3>3. CASE Overdue(p)
      <4>1. info' = info /\ \A x \in Peer : info[x] = <<>>
        BY <3>3 DEF Overdue, Alters, Moves
      <4>2. \A x \in Peer : Infos(x)' = {}
        <5>1. InfosOf(<<>>) = {}
          BY EmptySeq, LenProperties DEF InfosOf
        <5> QED BY <4>1, <5>1 DEF Infos
      <4> QED BY <1>1, <4>2 DEF PresentInfos, q
    <3>4. CASE ~Overdue(p)
      <4>1. Rests(p) \/ GivesUp(p) \/ IsPinged(p) \/ IsPonged(p)
        BY <1>4, <3>2, <3>4 DEF Acts
      <4>2. /\ PresentInfos(q)' \subseteq PresentInfos(q) /\ capable[p] = "yes"
        BY <2>2, <3>1, <4>1 DEF Rests, GivesUp, IsPinged, IsPonged
      <4>3. ~Live(p) \/ session[p].due
        <5>1. CASE Rests(p)
          BY <3>1, <5>1 DEF Rests, Idle, Leaves, Live
        <5>2. CASE GivesUp(p)
          BY <5>2 DEF GivesUp
        <5>3. CASE IsPinged(p) \/ IsPonged(p)
          <6>1. Live(p)'
            BY <5>3 DEF IsPinged, IsPonged, Moves, Live, LiveSessions
          <6> QED BY <3>1, <5>3, <6>1 DEF IsPinged, IsPonged, Moves
        <5> QED BY <4>1, <5>1, <5>2, <5>3
      <4>4. PresentInfos(q) = {} /\ (capable[q] = "yes" => PresentInfos(p) = {})
        BY <4>2, <4>3 DEF Late, GivenUp, q
      <4> QED BY <1>2, <2>1, <2>4, <4>2, <4>4 DEF q
    <3> QED BY <3>3, <3>4
  <2>5. CASE r = q
    <3>1. GivenUp(q)
      BY <1>1, <1>2, <2>5 DEF GivenUp, Live
    <3>2. PresentInfos(p) = {} /\ (capable[p] = "yes" => PresentInfos(q) = {})
      BY <1>1, <3>1 DEF Late
    <3>3. capable'[p] = "yes" => PresentInfos(q)' = {}
      <4>1. CASE Goes(p)
        <5> DEFINE m == Head(info[p])
        <5>1. m \in Infos(p) /\ m.login = sid[p] /\ m.login # login[q]
          BY <1>1, <3>2, <4>1, AbleDo DEF PresentInfos, q
        <5>2. Infos(q)' \subseteq Infos(q)
          BY <4>1, <5>1, InfosDo DEF Reaches, q
        <5>3. PresentInfos(q)' \subseteq PresentInfos(q)
          BY <1>1, <1>2, <1>4, <5>2 DEF PresentInfos
        <5>4. PresentInfos(q) = {}
          <6>1. CASE capable[p] = "yes"
            BY <3>2, <6>1
          <6>2. CASE capable[p] = "unknown"
            <7>1. ~Current(p)
              BY <5>1 DEF UpToDate, q
            <7> QED BY <1>1, <6>2, <7>1 DEF Asked, q
          <6> QED BY <1>1, <6>1, <6>2 DEF NoDangling, TypeOK
        <5> QED BY <5>3, <5>4
      <4>2. CASE Asks(p)
        BY <1>1, <4>2, AbleDo
      <4>3. CASE ~Goes(p) /\ ~Asks(p)
        BY <1>1, <1>4, <2>2, <3>2, <4>3, AbleDo DEF Does
      <4> QED BY <4>1, <4>2, <4>3
    <3> QED BY <1>1, <2>1, <2>5, <3>2, <3>3
  <2> QED BY <1>1, <2>4, <2>5
<1> QED BY <1>3, <1>4

\* A session a direct message was sent for keeps its finished handshake.
HandshakeLasts ==
    Punctual => \A d \in DirectIms : OfSession(d) => session[d.from].handshake

\* A session like it does not begin again, for nothing is left to hear.
LEMMA HandshakeLastsStep ==
    ASSUME TypesOK, News, SaltsKnown, SaltsKnown', Fitting, NoDangling, ImsKnown, ImsMet,
           Late, HandshakeLasts, Punctual, [Next]_allVars, NEW p \in Peer, Does(p), Acts(p)
    PROVE  HandshakeLasts'
<1> DEFINE q == Other(p)
<1>1. q \in Peer /\ q # p /\ Other(q) = p /\ (\A x \in Peer : x = p \/ x = q)
      /\ Able /\ TypeOK /\ session \in [Peer -> Sessions]
  BY TwoPeers DEF Punctual, TypesOK, TypeOK
<1>2. /\ session'[q] = session[q] /\ login'[q] = login[q]
      /\ ~ComesBack(p) => login'[p] = login[p]
  BY <1>1, DoesAtOne
<1> HIDE DEF q
<1> SUFFICES ASSUME NEW d \in DirectIms', OfSession(d)'
             PROVE  session'[d.from].handshake
  BY DEF HandshakeLasts
<1>3. CASE UNCHANGED vars /\ Sends(d)
  BY <1>3 DEF Sends, vars
<1>4. CASE d \in DirectIms
  <2> DEFINE r == d.from
  <2>1. r \in Peer /\ (r = p \/ r = q)
    BY <1>1, <1>4, ImTyped
  <2>2. /\ Current(r)' /\ d.salt = session'[r].salt /\ d.login = session'[r].own
        /\ Live(r)' /\ d.login = login'[r]
    BY <2>1, <1>1 DEF OfSession, Current, SaltsKnown
  <2>3. ~ComesBack(p)
    BY <1>1, <2>1, <2>2, ComesBackClears
  <2>4. login'[p] = login[p] /\ login'[q] = login[q]
    BY <1>2, <2>3
  <2> HIDE DEF r
  <2>5. r = q => OfSession(d) /\ r = d.from
    BY <1>1, <1>2, <2>1, <2>2, <2>4 DEF OfSession, Current, Live, r
  <2>6. CASE r = q
    BY <1>2, <1>4, <2>5, <2>6 DEF HandshakeLasts, r
  <2>7. CASE r = p /\ Live(p)
    <3>1. session'[p].peer = session[p].peer /\ session'[p].salt = session[p].salt /\ ~Asks(p)
      BY <1>1, <2>2, <2>7, AbleDo
    <3>2. Current(p) /\ d.salt = session[p].salt /\ d.login = session[p].own
      BY <1>1, <2>2, <2>4, <2>7, <3>1 DEF Current, SaltsKnown, q
    <3>3. session[p].handshake
      BY <1>4, <2>7, <3>2 DEF HandshakeLasts, OfSession, r
    <3>4. ~GivesUp(p)
      BY <1>1, <2>2, <2>7 DEF GivesUp, Removes, Live, NoSession
    <3>5. Rests(p) \/ GoesOn(p) \/ Overdue(p) \/ PingsAgain(p) \/ IsPinged(p) \/ IsPonged(p)
      BY <2>3, <3>1, <3>4 DEF Acts
    <3>6. session'[p].handshake
      BY <2>7, <3>3, <3>5 DEF Rests, Idle, Leaves, GoesOn, Goes, Overdue, PingsAgain, Alters,
                              IsPinged, IsPonged
    <3> QED BY <2>7, <3>6 DEF r
  <2>8. CASE r = p /\ ~Live(p)
    <3>1. ~Asks(p)
      <4>1. SUFFICES ASSUME Asks(p) PROVE FALSE
        OBVIOUS
      <4>2. Silent(p) /\ d.salt = OwnSalt(p)
        BY <1>1, <2>2, <2>8, <4>1, AbleDo
      <4> QED BY <1>4, <4>2 DEF ImsKnown
    <3> DEFINE m == Head(info[p])
    <3>2. /\ m \in Infos(p) /\ m.login = sid[p] /\ session'[p].peer = sid[p]
          /\ session'[p].salt = m.salt
      BY <1>1, <2>2, <2>8, <3>1, AbleDo
    <3>3. m \in PresentInfos(p) /\ m.salt = d.salt
      BY <1>1, <2>2, <2>4, <2>8, <3>2 DEF PresentInfos, Current, q
    <3>4. InUse(d.salt)
      BY <3>3 DEF InUse
    <3>5. Met(d.from, d.salt)
      BY <1>4, <2>2, <2>4, <2>8, <3>4 DEF ImsMet, r
    <3>6. capable[p] = "yes" /\ capable[q] = "yes"
      BY <1>1, <3>5 DEF Met, AgreedOn
    <3>7. PresentInfos(p) = {}
      BY <2>8, <3>6 DEF Late, GivenUp, q
    <3> QED BY <3>3, <3>7
  <2> QED BY <2>1, <2>6, <2>7, <2>8
<1> QED BY <1>3, <1>4, ImsDo

--------------------------------------------------------------------------------
(* Who finished a handshake on such a network has the other side for good. *)

Reached(p, type) == \E d \in net : d.to = p /\ d.type = type /\ Known(p, d)

\* p's handshake is done, or will be by a pong on its way.
Answered(p) == Current(p) /\ (session[p].handshake \/ Reached(p, "pong"))

\* Both run their timers, and if the other side waits for a pong, not in vain: its
\* ping or p's pong is on the way.
Held(p) ==
    LET q == Other(p)
    IN  /\ session[p].timer /\ Current(q) /\ session[q].timer
        /\ session[q].pongNeeded =>
              ~session[q].due /\ (Reached(p, "ping") \/ Reached(q, "pong"))

Kept == Punctual => \A p \in Peer : Peer \cap gone = {} /\ Answered(p) => Held(p)

\* Who has an answer speaks the one session there is.
LEMMA AnsweredAgree ==
    ASSUME TypeOK, Able, Agreed, NEW p \in Peer, Answered(p) PROVE AgreedOn(session[p].salt)
<1>1. CASE session[p].handshake
  BY <1>1 DEF Agreed, Answered
<1>2. CASE Reached(p, "pong")
  <2>1. PICK d \in net : d.to = p /\ d.type = "pong" /\ Known(p, d)
    BY <1>2 DEF Reached
  <2>2. d.login = login[d.from] /\ d.salt = session[p].salt
    BY <2>1 DEF Known, Answered, Current
  <2> QED BY <2>1, <2>2 DEF Agreed
<1> QED BY <1>1, <1>2 DEF Answered

\* A datagram stays known to who keeps his session, and on its way until he takes it.
LEMMA ReachedStays ==
    ASSUME NEW p \in Peer, NEW type, Reached(p, type), Live(p)',
           session'[p].peer = session[p].peer, session'[p].salt = session[p].salt,
           \A d \in net : d.to = p /\ d.type = type /\ Known(p, d) => d \in net'
    PROVE  Reached(p, type)'
<1>1. PICK d \in net : d.to = p /\ d.type = type /\ Known(p, d)
  BY DEF Reached
<1>2. d \in net' /\ Known(p, d)'
  BY <1>1 DEF Known
<1> QED BY <1>1, <1>2 DEF Reached

\* It was on its way before, if it is not new.
LEMMA ReachedBefore ==
    ASSUME NEW p \in Peer, NEW type, Reached(p, type)', Live(p),
           session'[p].peer = session[p].peer, session'[p].salt = session[p].salt,
           \A d \in net' : d.to = p /\ d.type = type /\ Known(p, d)' => d \in net
    PROVE  Reached(p, type)
<1>1. PICK d \in net' : d.to = p /\ d.type = type /\ Known(p, d)'
  BY DEF Reached
<1>2. d \in net /\ Known(p, d)
  BY <1>1 DEF Known
<1> QED BY <1>1, <1>2 DEF Reached

\* The sender's step.
LEMMA SenderKeeps ==
    ASSUME TypesOK, News, SaltsKnown, Fitting, NoDangling, Fresh, Agreed,
           Late, Kept, Punctual, NEW p \in Peer, Does(p), Acts(p),
           Peer \cap gone' = {}, Answered(p)'
    PROVE  Held(p)'
<1> DEFINE q == Other(p)
<1>1. q \in Peer /\ q # p /\ Other(q) = p /\ (\A x \in Peer : x = p \/ x = q)
      /\ Able /\ TypeOK /\ session \in [Peer -> Sessions]
  BY TwoPeers DEF Punctual, TypesOK, TypeOK
<1>2. session'[q] = session[q] /\ login'[q] = login[q]
  BY <1>1, DoesAtOne
<1>3. Current(p)' /\ Live(p)' /\ (session'[p].handshake \/ Reached(p, "pong")')
      /\ session'[p].peer = login[q]
  BY <1>2 DEF Answered, Current
<1>4. ~ComesBack(p) /\ ~GivesUp(p) /\ login'[p] = login[p] /\ Peer \cap gone = {}
  <2>1. ~ComesBack(p) /\ ~GivesUp(p)
    BY <1>1, <1>3 DEF ComesBack, GivesUp, Removes, Live, NoSession
  <2>2. gone \subseteq gone'
    BY <1>1, <2>1 DEF Does, Idle, Asks, Refuses, Goes, Moves, Removes, Leaves
  <2> QED BY <1>1, <2>1, <2>2, DoesAtOne
<1> HIDE DEF q
<1>5. Live(p)
  <2>1. SUFFICES ASSUME ~Live(p) PROVE FALSE
    OBVIOUS
  <2>2. (Asks(p) /\ net' = net) \/ GoesOn(p)
    BY <1>1, <1>3, <1>4, <2>1
    DEF Acts, Rests, Idle, Leaves, Overdue, PingsAgain, Alters, IsPinged, IsPonged, Moves, Live
  <2>3. ~session'[p].handshake
    BY <2>1, <2>2 DEF Asks, GoesOn, Goes
  <2>4. PICK d \in net' : d.to = p /\ d.type = "pong" /\ Known(p, d)'
    BY <1>3, <2>3 DEF Reached
  <2>5. d \in net
    <3>1. CASE Asks(p) /\ net' = net
      BY <3>1
    <3>2. CASE GoesOn(p)
      <4>1. \A e \in Datagram(p, session'[p], "ping") : e.type = "ping"
        BY DEF Datagram
      <4> QED BY <2>4, <3>2, <4>1 DEF GoesOn, Goes
    <3> QED BY <2>2, <3>1, <3>2
  <2>6. d.from = q /\ d.login = login[q] /\ d.salt = session'[p].salt
    BY <1>1, <1>3, <2>4 DEF Known, q
  <2>7. CASE Asks(p)
    <3>1. Silent(p) /\ session'[p].salt = OwnSalt(p)
      BY <1>1, <2>7, AbleDo
    <3> QED BY <2>5, <2>6, <3>1 DEF Fresh, Nowhere
  <2>8. CASE Goes(p) /\ ~Asks(p)
    <3>1. AgreedOn(d.salt)
      BY <1>1, <2>4, <2>5, <2>6 DEF Agreed
    <3>2. capable[p] = "yes" /\ capable[q] = "yes"
      BY <1>1, <3>1 DEF AgreedOn
    <3>3. PresentInfos(p) = {}
      BY <2>1, <3>2 DEF Late, GivenUp, q
    <3>4. Head(info[p]) \in Infos(p) /\ Head(info[p]).login = login[q]
      BY <1>1, <1>3, <2>1, <2>8, AbleDo
    <3> QED BY <3>3, <3>4 DEF PresentInfos, q
  <2> QED BY <2>2, <2>7, <2>8 DEF GoesOn
<1>6. session'[p].peer = session[p].peer /\ session'[p].salt = session[p].salt /\ ~Asks(p)
      /\ Current(p)
  <2>1. session'[p].peer = session[p].peer /\ session'[p].salt = session[p].salt /\ ~Asks(p)
    BY <1>1, <1>3, <1>5, AbleDo
  <2> QED BY <1>3, <1>5, <2>1 DEF Current, q
<1>7. Live(q)' = Live(q) /\ Current(q)' = Current(q)
  BY <1>1, <1>2, <1>4 DEF Live, Current
<1>8. Rests(p) \/ GoesOn(p) \/ Overdue(p) \/ PingsAgain(p) \/ IsPinged(p) \/ IsPonged(p)
  BY <1>4, <1>6 DEF Acts
<1>9. Answered(p)
  <2>1. CASE IsPonged(p)
    <3>1. Reached(p, "pong")
      BY <2>1 DEF IsPonged, Reached
    <3> QED BY <1>6, <3>1 DEF Answered
  <2>2. CASE ~IsPonged(p)
    <3>1. session'[p].handshake = session[p].handshake
      BY <1>5, <1>8, <2>2 DEF Rests, Idle, Leaves, GoesOn, Goes, Overdue, PingsAgain, Alters,
                              IsPinged
    <3>2. \A d \in net' : d.to = p /\ d.type = "pong" /\ Known(p, d)' => d \in net
      <4>1. \A type : \A d \in Datagram(p, session'[p], type) : d.to = q
        BY DEF Datagram, q
      <4>2. CASE Rests(p) \/ Overdue(p) \/ PingsAgain(p)
        BY <4>2 DEF Rests, Overdue, PingsAgain, Alters
      <4>3. CASE GoesOn(p)
        BY <1>1, <4>1, <4>3 DEF GoesOn, Goes
      <4>4. CASE IsPinged(p)
        BY <1>1, <4>1, <4>4 DEF IsPinged
      <4> QED BY <1>8, <2>2, <4>2, <4>3, <4>4
    <3>3. Reached(p, "pong")' => Reached(p, "pong")
      BY <1>5, <1>6, <3>2, ReachedBefore
    <3> QED BY <1>3, <1>6, <3>1, <3>3 DEF Answered
  <2> QED BY <2>1, <2>2
<1>10. Held(p)
  BY <1>4, <1>9 DEF Kept
<1>11. session'[p].timer
  <2>1. session[p].timer
    BY <1>10 DEF Held
  <2> QED BY <1>8, <2>1 DEF Rests, Idle, Leaves, GoesOn, Goes, Overdue, PingsAgain, Alters,
                          IsPinged, IsPonged, Moves
<1>12. session[q].timer /\ Current(q)
  BY <1>10 DEF Held, q
<1>13. ASSUME session[q].pongNeeded
       PROVE  ~session[q].due /\ (Reached(p, "ping")' \/ Reached(q, "pong")')
  <2>1. ~session[q].due /\ (Reached(p, "ping") \/ Reached(q, "pong"))
    BY <1>10, <1>13 DEF Held, q
  <2>2. CASE IsPinged(p)
    <3>1. PICK d \in net :
             /\ Known(p, d)
             /\ session'[p].timer => session'[p].reach = d.login
             /\ Datagram(p, session'[p], "pong") \subseteq net'
      BY <2>2 DEF IsPinged
    <3>2. session'[p].reach = login[q] /\ q \notin gone
      BY <1>1, <1>4, <1>6, <1>11, <3>1 DEF Known, Current, q
    <3>3. session'[p].own = login[p]
      BY <1>5, <2>2 DEF IsPinged, Moves, SaltsKnown
    <3>4. session[q].salt = session[p].salt /\ session[q].peer = login[p]
      BY <1>1, <1>9, <1>12, AnsweredAgree DEF AgreedOn, Current
    <3>5. PICK e \in net' : /\ e.to = q /\ e.type = "pong" /\ e.from = p
                            /\ e.login = login[p] /\ e.salt = session[q].salt
      BY <1>6, <3>1, <3>2, <3>3, <3>4 DEF Datagram, Arriving, q
    <3>6. Known(q, e)'
      BY <1>1, <1>2, <1>7, <1>12, <3>4, <3>5 DEF Known, Current
    <3> QED BY <2>1, <3>5, <3>6 DEF Reached
  <2>3. CASE ~IsPinged(p)
    <3>1. \A d \in net : d.to = q /\ d.type = "pong" /\ Known(q, d) => d \in net'
      BY <1>1, <1>8, <1>4, <2>3 DEF Rests, GoesOn, Goes, Overdue, PingsAgain, Alters, IsPonged
    <3>2. \A d \in net : d.to = p /\ d.type = "ping" /\ Known(p, d) => d \in net'
      BY <1>1, <1>8, <1>4, <2>3 DEF Rests, GoesOn, Goes, Overdue, PingsAgain, Alters, IsPonged
    <3>3. Reached(p, "ping") => Reached(p, "ping")'
      BY <1>3, <1>6, <3>2, ReachedStays
    <3>4. Reached(q, "pong") => Reached(q, "pong")'
      BY <1>1, <1>2, <1>7, <1>12, <3>1, ReachedStays DEF Current
    <3> QED BY <2>1, <3>3, <3>4
  <2> QED BY <2>2, <2>3
<1> QED BY <1>2, <1>7, <1>11, <1>12, <1>13 DEF Held, q

\* The step of the other side.
LEMMA ReceiverKeeps ==
    ASSUME TypesOK, TypeOK', News, SaltsKnown, UpToDate, Fitting, Fitting', NoDangling,
           Agreed, Genuine, Timed, Kept, Punctual, NEW p \in Peer, Does(p), Acts(p),
           Peer \cap gone' = {}, Answered(Other(p))'
    PROVE  Held(Other(p))'
<1> DEFINE q == Other(p)
<1>1. q \in Peer /\ q # p /\ Other(q) = p /\ (\A x \in Peer : x = p \/ x = q)
      /\ Able /\ TypeOK /\ session \in [Peer -> Sessions] /\ login \in [Peer -> Login]
  BY TwoPeers DEF Punctual, TypesOK, TypeOK
<1>2. session'[q] = session[q] /\ login'[q] = login[q]
  BY <1>1, DoesAtOne
<1> HIDE DEF q
<1>3. Answered(q)' /\ Live(q)' /\ Current(q)'
  BY DEF Answered, Current, q
<1>4. ~ComesBack(p) /\ login'[p] = login[p] /\ Peer \cap gone = {}
  <2>1. ~ComesBack(p)
    BY <1>1, <1>3, ComesBackClears
  <2>2. gone \subseteq gone'
    BY <1>1, <2>1 DEF Does, Idle, Asks, Refuses, Goes, Moves, Removes, Leaves
  <2> QED BY <1>1, <2>1, <2>2, DoesAtOne
<1>5. Live(q) /\ Current(q)
  BY <1>1, <1>2, <1>3, <1>4 DEF Live, Current
\* Once what the session of p needs is known, it holds,
<1>6. ASSUME session[q].timer, Live(p), Live(p)', Current(p), session[p].timer,
             session'[p].timer, session'[p].pongNeeded =>
                ~session'[p].due /\ (Reached(q, "ping")' \/ Reached(p, "pong")')
      PROVE  Held(q)'
  <2>1. session'[p].peer = session[p].peer
    BY <1>1, <1>6, AbleDo
  <2>2. Current(p)'
    BY <1>2, <1>6, <2>1 DEF Current, q
  <2> QED BY <1>1, <1>2, <1>6, <2>2 DEF Held
\* and a ping to the present login is one the other side knows.
<1>7. ASSUME Live(p), Live(p)', Current(p), session[q].salt = session[p].salt,
             session'[p] \in LiveSessions, session'[p].own = session[p].own,
             session'[p].reach = login[q], Datagram(p, session'[p], "ping") \subseteq net'
      PROVE  Reached(q, "ping")'
  <2>1. session'[p].salt = session[p].salt
    BY <1>1, <1>7, AbleDo
  <2>2. session'[p].own = login[p] /\ session[q].peer = login[p]
    BY <1>1, <1>5, <1>7 DEF SaltsKnown, Current
  <2>3. PICK e \in net' : /\ e.to = q /\ e.type = "ping" /\ e.from = p
                          /\ e.login = login[p] /\ e.salt = session[q].salt
    BY <1>1, <1>4, <1>7, <2>1, <2>2 DEF Datagram, Arriving, q
  <2>4. Known(q, e)'
    BY <1>1, <1>2, <1>3, <2>2, <2>3 DEF Known
  <2> QED BY <2>3, <2>4 DEF Reached
<1>8. CASE ~Answered(q)
  <2>1. ~session[q].handshake /\ ~Reached(q, "pong") /\ Reached(q, "pong")'
    <3>1. ~session[q].handshake /\ ~Reached(q, "pong")
      BY <1>5, <1>8 DEF Answered
    <3>2. session'[q].handshake \/ Reached(q, "pong")'
      BY <1>3 DEF Answered
    <3> QED BY <1>2, <3>1, <3>2
  <2>2. PICK d \in net' : d.to = q /\ d.type = "pong" /\ Known(q, d)' /\ d \notin net
    BY <1>1, <1>2, <1>5, <2>1, ReachedBefore
  <2>3. /\ Sent(p, d) /\ d.from = p /\ session'[p] \in LiveSessions
        /\ d.login = session'[p].own /\ d.salt = session'[p].salt
        /\ session'[p].reach = login[q]
    BY <1>1, <2>2, NetDo DEF Sent, q
  <2>4. IsPinged(p)
    <3>1. ~Rests(p) /\ ~(Asks(p) /\ net' = net) /\ ~Overdue(p) /\ ~PingsAgain(p)
          /\ ~GivesUp(p) /\ ~IsPonged(p)
      BY <2>2 DEF Rests, Overdue, PingsAgain, Alters, GivesUp, Removes, IsPonged
    <3>2. ~GoesOn(p)
      <4>1. \A e \in Datagram(p, session'[p], "ping") : e.type = "ping"
        BY DEF Datagram
      <4> QED BY <2>2, <4>1 DEF GoesOn, Goes
    <3> QED BY <1>4, <3>1, <3>2 DEF Acts
  <2>5. PICK e \in net :
           /\ e.to = p /\ e.type = "ping" /\ Known(p, e)
           /\ session'[p].timer => session'[p].reach = e.login /\ session'[p].pongNeeded
                                   /\ ~session'[p].due
           /\ session'[p].timer => Datagram(p, session'[p], "ping") \subseteq net'
    BY <2>4 DEF IsPinged
  <2>6. Moves(p)
    BY <2>4 DEF IsPinged
  <2>7. /\ Live(p) /\ session'[p].salt = session[p].salt /\ session'[p].own = session[p].own
        /\ session'[p].timer = session[p].timer
    BY <2>6 DEF Moves
  <2>8. Live(p)'
    BY <2>3 DEF Live, LiveSessions
  <2>9. session'[p].timer
    <3>1. session'[p].reach # 0
      BY <1>1, <2>3 DEF Login
    <3> QED BY <2>8, <3>1 DEF Fitting
  <2>10. Current(p) /\ e.login = login[q]
    BY <2>3, <2>5, <2>7, <2>9 DEF Known, Current, q
  <2>11. session[q].salt = session[p].salt
    BY <1>2, <2>2, <2>3, <2>7 DEF Known
  <2>12. session[q].timer
    <3>1. e.from = q /\ e.salt = session[q].salt
      BY <2>5, <2>11 DEF Known, q
    <3> QED BY <1>1, <1>5, <2>10, <3>1 DEF Timed
  <2>13. Reached(q, "ping")'
    BY <1>7, <2>3, <2>5, <2>7, <2>8, <2>9, <2>10, <2>11
  <2>14. Held(q)'
    BY <1>6, <2>5, <2>7, <2>8, <2>9, <2>10, <2>12, <2>13
  <2> QED BY <2>14 DEF q
<1>9. CASE Answered(q)
  <2>1. /\ session[q].timer /\ Current(p) /\ Live(p) /\ session[p].timer
        /\ session[p].pongNeeded =>
              ~session[p].due /\ (Reached(q, "ping") \/ Reached(p, "pong"))
    <3>1. Held(q)
      BY <1>1, <1>4, <1>9 DEF Kept
    <3> QED BY <1>1, <3>1 DEF Held, Current
  <2>2. session[q].salt = session[p].salt
    BY <1>1, <1>9, <2>1, AnsweredAgree DEF AgreedOn
  <2>3. ~Asks(p) /\ ~Overdue(p) /\ ~PingsAgain(p) /\ ~GivesUp(p)
    BY <2>1 DEF Asks, Overdue, PingsAgain, GivesUp, Live, Reached
  <2>4. CASE Rests(p)
    <3>1. session'[p] = session[p] /\ Live(p)'
      BY <2>1, <2>4 DEF Rests, Idle, Leaves, Live
    <3>2. Reached(q, "ping") => Reached(q, "ping")'
      <4>1. \A d \in net : d.to = q => d \in net'
        BY <1>1, <2>4 DEF Rests
      <4> QED BY <1>1, <1>2, <1>3, <4>1, ReachedStays
    <3>3. Reached(p, "pong") => Reached(p, "pong")'
      <4>1. \A d \in net : d.to = p /\ Known(p, d) => d \in net'
        BY <2>4 DEF Rests
      <4> QED BY <3>1, <4>1, ReachedStays
    <3>4. Held(q)'
      BY <1>6, <2>1, <3>1, <3>2, <3>3
    <3> QED BY <3>4 DEF q
  <2>5. CASE GoesOn(p)
    <3> DEFINE m == Head(info[p])
    <3>1. /\ Goes(p) /\ ~session'[p].due /\ (m.real => session'[p].reach = m.login)
      BY <2>5 DEF GoesOn
    <3>2. /\ Live(p)' /\ m \in Infos(p)
      BY <1>1, <3>1, AbleDo
    <3>3. /\ session'[p] \in LiveSessions /\ session'[p].timer
          /\ session'[p].own = session[p].own
          /\ Datagram(p, session'[p], "ping") \subseteq net'
      BY <2>1, <3>1 DEF Goes
    <3>4. session'[p].reach = login[q]
      <4>1. m.real
        BY <1>1, <3>2 DEF Genuine
      <4>2. m.login = login[q]
        BY <2>1, <3>2 DEF UpToDate, q
      <4> QED BY <3>1, <4>1, <4>2
    <3>5. Reached(q, "ping")'
      BY <1>7, <2>1, <2>2, <3>2, <3>3, <3>4
    <3>6. Held(q)'
      BY <1>6, <2>1, <3>1, <3>2, <3>3, <3>5
    <3> QED BY <3>6 DEF q
  <2>6. CASE IsPinged(p)
    <3>1. Moves(p)
      BY <2>6 DEF IsPinged
    <3>2. /\ session'[p] \in LiveSessions /\ session'[p].own = session[p].own
          /\ session'[p].timer
      BY <2>1, <3>1 DEF Moves
    <3>3. PICK e \in net :
             /\ Known(p, e) /\ session'[p].reach = e.login /\ ~session'[p].due
             /\ Datagram(p, session'[p], "ping") \subseteq net'
      BY <2>6, <3>2 DEF IsPinged
    <3>4. session'[p].reach = login[q] /\ Live(p)'
      BY <2>1, <3>2, <3>3 DEF Known, Current, Live, LiveSessions, q
    <3>5. Reached(q, "ping")'
      BY <1>7, <2>1, <2>2, <3>2, <3>3, <3>4
    <3>6. Held(q)'
      BY <1>6, <2>1, <3>2, <3>3, <3>4, <3>5
    <3> QED BY <3>6 DEF q
  <2>7. CASE IsPonged(p)
    <3>1. Moves(p) /\ ~session'[p].pongNeeded
      BY <2>7 DEF IsPonged
    <3>2. Live(p)' /\ session'[p].timer
      BY <2>1, <3>1 DEF Moves, Live, LiveSessions
    <3>3. Held(q)'
      BY <1>6, <2>1, <3>1, <3>2
    <3> QED BY <3>3 DEF q
  <2> QED BY <1>4, <2>3, <2>4, <2>5, <2>6, <2>7 DEF Acts
<1> QED BY <1>8, <1>9

\* So it is in every state.
LEMMA KeptStep ==
    ASSUME TypesOK, TypeOK', News, SaltsKnown, UpToDate, Fitting, Fitting', NoDangling, Fresh,
           Agreed, Genuine, Timed, Late, Kept, Punctual, NEW p \in Peer, Does(p), Acts(p)
    PROVE  Kept'
<1>1. Other(p) \in Peer /\ \A x \in Peer : x = p \/ x = Other(p)
  BY TwoPeers
<1>2. Peer \cap gone' = {} /\ Answered(p)' => Held(p)'
  BY SenderKeeps
<1>3. Peer \cap gone' = {} /\ Answered(Other(p))' => Held(Other(p))'
  BY ReceiverKeeps
<1> QED BY <1>1, <1>2, <1>3 DEF Kept

--------------------------------------------------------------------------------
(* The invariant of the messages. *)

DeliveryInv ==
    /\ IndInv
    /\ Genuine /\ Asked /\ Bygone /\ Meeting /\ ImsKnown /\ ImsMet
    /\ Timed /\ Late /\ HandshakeLasts /\ Kept

\* At first nothing is on its way.
LEMMA DeliveryInitially == MessagesInit => DeliveryInv
<1> SUFFICES ASSUME MessagesInit PROVE DeliveryInv
  OBVIOUS
<1>1. /\ IndInv /\ net = {} /\ DirectIms = {}
      /\ session = [p \in Peer |-> NoSession] /\ info = [p \in Peer |-> <<>>]
      /\ capable = [p \in Peer |-> "unknown"]
  BY Initially DEF MessagesInit, Init, DirectIms
<1>2. \A p \in Peer : /\ Infos(p) = {} /\ ~Live(p) /\ ~Current(p) /\ Other(p) \in Peer
                      /\ PresentInfos(p) = {} /\ ~GivenUp(p) /\ ~Answered(p)
  <2>1. TAKE p \in Peer
  <2>2. InfosOf(<<>>) = {}
    BY EmptySeq, LenProperties DEF InfosOf
  <2>3. Infos(p) = {} /\ ~Live(p) /\ capable[p] = "unknown"
    BY <1>1, <2>2 DEF Infos, Live, NoSession
  <2> QED BY <2>3, TwoPeers DEF PresentInfos, Current, GivenUp, Answered
<1>3. Genuine /\ Asked /\ Bygone
  BY <1>2 DEF Genuine, Asked, Bygone
<1>4. Meeting /\ ImsKnown /\ ImsMet /\ Timed
  BY <1>1, <1>2 DEF Meeting, ImsKnown, ImsMet, Timed
<1>5. Late /\ HandshakeLasts /\ Kept
  BY <1>1, <1>2 DEF Late, HandshakeLasts, Kept
<1> QED BY <1>1, <1>3, <1>4, <1>5 DEF DeliveryInv

\* Every step keeps it.
LEMMA DeliveryPreserved == ASSUME DeliveryInv, [Next]_allVars PROVE DeliveryInv'
<1>1. /\ IndInv /\ TypesOK /\ TypeOK /\ News /\ SaltsKnown /\ NetKnown /\ UpToDate
      /\ Fitting /\ NoDangling /\ Fresh /\ Pinged /\ Crossing /\ Agreed
      /\ Genuine /\ Asked /\ Bygone /\ Meeting /\ ImsKnown /\ ImsMet
      /\ Timed /\ Late /\ HandshakeLasts /\ Kept
  BY DEF DeliveryInv, IndInv, TypesOK
<1>2. IndInv' /\ TypesOK' /\ TypeOK' /\ SaltsKnown' /\ Fitting'
  <2>1. IndInv'
    BY <1>1, Preserved
  <2> QED BY <2>1 DEF IndInv, TypesOK
<1>3. PICK p \in Peer : Does(p) /\ (Punctual => Acts(p))
  <2>1. CASE Punctual /\ Next
    <3>1. ~Lossy
      BY <2>1 DEF Punctual
    <3>2. PICK p \in Peer : Step(p)
      BY <2>1, <3>1 DEF Next, Lose, LoseData
    <3>3. Does(p) /\ Acts(p)
      BY <1>1, <2>1, <3>2, ActsIs
    <3> QED BY <3>3
  <2>2. CASE ~Punctual /\ Next
    BY <1>1, <2>2, StepDoes
  <2>3. CASE UNCHANGED allVars
    <3>1. PICK p \in Peer : TRUE
      BY PeerAssumption
    <3>2. Idle(p) /\ net' = net /\ gone' = gone
      BY <2>3 DEF Idle, allVars, vars
    <3> QED BY <3>2 DEF Does, Acts, Rests
  <2> QED BY <2>1, <2>2, <2>3
<1>4. Punctual' <=> Punctual
  BY <1>1, <1>3, DoesAtOne DEF Punctual, Able, Open, Enabled, Lossy
<1>5. Genuine' /\ Asked' /\ Bygone'
  BY <1>1, <1>3, GenuineStep, AskedStep, BygoneStep
<1>6. Meeting' /\ ImsKnown' /\ ImsMet'
  BY <1>1, <1>2, <1>3, MeetingStep, ImsKnownStep, ImsMetStep
<1>7. Timed'
  BY <1>1, <1>2, <1>3, TimedStep
<1>8. Late' /\ HandshakeLasts' /\ Kept'
  <2>1. CASE Punctual
    <3>1. Late'
      BY <1>1, <1>3, <2>1, LateStep
    <3>2. HandshakeLasts'
      BY <1>1, <1>2, <1>3, <2>1, HandshakeLastsStep
    <3>3. Kept'
      BY <1>1, <1>2, <1>3, <2>1, KeptStep
    <3> QED BY <3>1, <3>2, <3>3
  <2>2. CASE ~Punctual
    BY <1>4, <2>2 DEF Late, HandshakeLasts, Kept
  <2> QED BY <2>1, <2>2
<1> QED BY <1>2, <1>5, <1>6, <1>7, <1>8 DEF DeliveryInv

\* A message that no session of its receiver is for came late, or its receiver or its
\* sender ended.
LEMMA StrayForAReason ==
    ASSUME DeliveryInv, NEW d \in DirectIms, OfSession(d), ~Lossy, ~Known(d.to, d),
           session[d.to].state # "dangling"
    PROVE  {d.to, d.from} \cap gone # {} \/ (world.slow /\ session[d.to] = NoSession)
<1> DEFINE s == d.from
           r == d.to
<1>1. /\ TypesOK /\ TypeOK /\ SaltsKnown /\ ImsKnown /\ ImsMet /\ HandshakeLasts /\ Kept
      /\ session \in [Peer -> Sessions]
  BY DEF DeliveryInv, IndInv, TypesOK, TypeOK
<1>2. r \in Peer /\ s \in Peer /\ s = Other(r) /\ Other(s) = r /\ Able
  <2>1. r \in Peer /\ s \in Peer /\ s = Other(r) /\ Able
    BY <1>1, ImTyped DEF ImsKnown
  <2> QED BY <2>1, TwoPeers
<1>3. Current(s) /\ d.salt = session[s].salt /\ d.login = login[s] /\ Live(s)
  BY <1>1, <1>2 DEF OfSession, SaltsKnown, Current
<1>4. Met(s, d.salt)
  BY <1>1, <1>2, <1>3 DEF ImsMet, InUse
<1>5. ~Live(r)
  <2>1. SUFFICES ASSUME Live(r) PROVE FALSE
    OBVIOUS
  <2>2. Current(r) /\ session[r].salt = d.salt
    BY <1>2, <1>4, <2>1 DEF Met, AgreedOn
  <2> QED BY <1>2, <1>3, <2>1, <2>2 DEF Known, Current
<1>6. session[r] = NoSession
  BY <1>1, <1>2, <1>5 DEF Sessions, Live, Dangling
<1>7. CASE ~world.slow /\ {r, s} \cap gone = {}
  <2>1. Punctual
    BY <1>2, <1>7 DEF Punctual
  <2>2. Answered(s)
    BY <1>1, <1>3, <2>1 DEF HandshakeLasts, Answered
  <2>3. Peer \cap gone = {}
    BY <1>2, <1>7, TwoPeers
  <2>4. Current(r)
    BY <1>1, <1>2, <2>1, <2>2, <2>3 DEF Kept, Held
  <2> QED BY <1>5, <2>4 DEF Current
<1> QED BY <1>6, <1>7

\* A direct message disappears unseen for a reason only.
LEMMA VanishesStep ==
    ASSUME DeliveryInv, [Next]_allVars, NEW d \in direct, d \notin direct', d.type = "im",
           OfSession(d), ~Lossy
    PROVE  \/ shown'[d.to] # shown[d.to]
           \/ {d.to, d.from} \cap gone' # {}
           \/ d.to \notin world.listed
           \/ world.slow /\ session[d.to] = NoSession
<1>1. TypesOK /\ d \in DirectIms
  BY DEF DeliveryInv, IndInv, DirectIms
<1>2. PICK p \in Peer : Step(p)
  BY DEF Next, Lose, LoseData, allVars, messages
<1>3. CASE ReceiveText(p)
  <2>1. PICK e \in direct :
           /\ Arrives(p, e) /\ ReceivedMessage(p, e.n)
           /\ \E rest \in TakenData(p, e) :
                 direct' = rest \union Data(p, session[p], "confirm", e.n)
    BY <1>3 DEF ReceiveText
  <2>2. e = d
    BY <2>1 DEF TakenData, Taken
  <2>3. d.to = p /\ d.n \in Number /\ shown[p] \in Seq(Number) /\ DOMAIN shown = Peer
    BY <1>1, <2>1, <2>2 DEF Arrives, TypesOK
  <2>4. shown'[p] = Append(shown[p], d.n)
    BY <2>1, <2>2, <2>3 DEF ReceivedMessage
  <2>5. Append(shown[p], d.n) # shown[p]
    BY <2>3, AppendProperties, LenProperties
  <2> QED BY <2>3, <2>4, <2>5
<1>4. CASE ReceiveConfirmation(p)
  BY <1>4 DEF ReceiveConfirmation, TakenData, Taken
<1>5. CASE ReceiveFromNobody(p)
  BY <1>5 DEF ReceiveFromNobody, Arrives, FromFound
<1>6. CASE ReceiveStrayData(p)
  <2>1. d.to = p /\ ~Known(p, d) /\ session[p].state # "dangling" /\ gone' = gone
    BY <1>6 DEF ReceiveStrayData, vars
  <2> QED BY <1>1, <2>1, StrayForAReason
<1>7. CASE QuitMessages(p)
  BY <1>7 DEF QuitMessages, Quit
<1> QED BY <1>2, <1>3, <1>4, <1>5, <1>6, <1>7
        DEF Step, HandlesText, ReadsData, SendOverServer, SendDirectly, SendOnDangling,
            HandleText, HandleConfirmation, messages

\* A direct message disappears unseen only for one of the reasons the design has, in
\* every world: above all, on a network that loses nothing and is in time, never while
\* both programs stay, however requests cross and timers run (handlePacket, 0x0002).
THEOREM NoMessageVanishes == Spec => VanishesForAReason
<1>1. DeliveryInv /\ [Next]_allVars =>
         [\A d \in direct :
             d \notin direct' /\ d.type = "im" /\ OfSession(d) /\ ~Lossy
             => \/ shown'[d.to] # shown[d.to]
                \/ {d.to, d.from} \cap gone' # {}
                \/ d.to \notin world.listed
                \/ world.slow /\ session[d.to] = NoSession]_allVars
  BY VanishesStep
<1> QED BY <1>1, DeliveryInitially, DeliveryPreserved, PTL DEF Spec, VanishesForAReason

\* On a network that loses nothing and is in time, who finished a handshake has a
\* partner whose timer runs, as long as both programs do: nobody gives a session up that
\* the other side counts on, whatever pings and pongs still are on their way
\* (slotCheckSession).
THEOREM HandshakeHasPartner == Spec => []HandshakeIsMutual
<1>1. DeliveryInv => HandshakeIsMutual
  <2>1. SUFFICES ASSUME DeliveryInv, Peer \subseteq Open \cap Enabled, ~Lossy, ~world.slow,
                        gone = {}, NEW p \in Peer, Current(p), session[p].handshake
                 PROVE  Current(Other(p)) /\ session[Other(p)].timer
    BY DEF HandshakeIsMutual
  <2>2. Punctual /\ Kept /\ Answered(p) /\ Peer \cap gone = {}
    BY <2>1 DEF Punctual, Able, DeliveryInv, Answered
  <2> QED BY <2>2 DEF Kept, Held
<1> QED BY <1>1, DeliveryInitially, DeliveryPreserved, PTL DEF Spec
================================================================================
