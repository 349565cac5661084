------------------------ MODULE XfireNegotiationProofs ------------------------
(***************************************************************************)
(* Sessions of two peers, whatever the circumstances.                      *)
(*                                                                         *)
(* That a finished handshake is one session of both depends on everything  *)
(* on its way, so the invariant says it all:                               *)
(*   - packets tell of logins in order, and come while the login they are  *)
(*     of is the one that is known (News);                                 *)
(*   - salts are drawn by a peer for one of its logins (SaltsKnown), and   *)
(*     datagrams name no login of the future (NetKnown);                   *)
(*   - addresses, timers and handshakes exist only where both were found   *)
(*     compatible (Fitting, NoDangling);                                   *)
(*   - of a peer who neither asked nor heard, nobody knows anything but    *)
(*     what the other's request began with (Fresh, Pinged, Unheard);       *)
(*   - two requests that cross give two sessions whose pings never meet    *)
(*     (Crossing), so whoever pongs has the only salt in use (Agreed).     *)
(*                                                                         *)
(* The handlers differ in far more than these facts see.  Does(p) lists    *)
(* the eight kinds of steps they do see; StepDoes shows that each action   *)
(* is one of them, and every part of the invariant is proved of those.     *)
(***************************************************************************)
EXTENDS XfireMessages, SequenceTheorems, TLAPS

--------------------------------------------------------------------------------
(* What a queue of the server tells of the other side. *)

\* The login a peer knows before packet i of its queue, where s is its m_sid, and
\* after all of them.
Before(s, queue, i) == IF i = 1 THEN s ELSE queue[i - 1].login
Latest(s, queue) == IF queue = <<>> THEN s ELSE queue[Len(queue)].login

\* A packet of the other side comes while its login is the one that is known, and
\* once its present login l is known no older one is told of.
Heard(s, queue, l) ==
    /\ \A i \in DOMAIN queue :
          /\ queue[i].type # "sid" => queue[i].login = Before(s, queue, i)
          /\ queue[i].login <= l
          /\ s = l => queue[i].login \in {0, l}
    /\ \A i, j \in DOMAIN queue : i < j /\ queue[i].login = l => queue[j].login \in {0, l}
    /\ s <= l

Present(p) == IF p \in gone THEN 0 ELSE login[p]

News ==
    \A p \in Peer :
        /\ Heard(sid[p], info[p], login[Other(p)])
        /\ p \notin gone => Latest(sid[p], info[p]) = Present(Other(p))
        /\ p \in gone => info[p] = <<>>

--------------------------------------------------------------------------------
(* Peers and queues. *)

\* There are two peers.
LEMMA TwoPeers ==
    ASSUME NEW p \in Peer
    PROVE  /\ Other(p) \in Peer /\ Other(p) # p /\ Other(Other(p)) = p
           /\ \A q \in Peer : q = p \/ q = Other(p)
<1>1. PICK a, b \in Peer : a # b /\ Peer = {a, b}
  BY PeerAssumption
<1>2. \A r \in Peer : Other(r) \in Peer /\ Other(r) # r
  <2>1. TAKE r \in Peer
  <2>2. \E q \in Peer : q # r
    BY <1>1
  <2> QED BY <2>2 DEF Other
<1>3. Other(p) \in Peer /\ Other(p) # p /\ Other(Other(p)) \in Peer /\ Other(Other(p)) # Other(p)
  BY <1>2
<1> QED BY <1>1, <1>3

\* A sequence to which something is appended,
LEMMA Appending ==
    ASSUME NEW S, NEW s \in Seq(S), NEW m \in S
    PROVE  /\ Append(s, m) \in Seq(S) /\ Append(s, m) # <<>>
           /\ Len(s) \in Nat /\ DOMAIN s = 1..Len(s)
           /\ Len(Append(s, m)) = Len(s) + 1 /\ DOMAIN Append(s, m) = 1..(Len(s) + 1)
           /\ \A i \in 1..Len(s) : Append(s, m)[i] = s[i]
           /\ Append(s, m)[Len(s) + 1] = m
  BY AppendProperties, LenProperties

\* and one whose first element is taken.
LEMMA Dropping ==
    ASSUME NEW S, NEW s \in Seq(S), s # <<>>
    PROVE  /\ Len(s) \in Nat /\ Len(s) >= 1 /\ DOMAIN s = 1..Len(s)
           /\ Head(s) = s[1] /\ Head(s) \in S
           /\ Tail(s) \in Seq(S) /\ Len(Tail(s)) = Len(s) - 1
           /\ DOMAIN Tail(s) = 1..(Len(s) - 1)
           /\ \A i \in 1..(Len(s) - 1) : Tail(s)[i] = s[i + 1]
<1>1. Len(s) \in Nat /\ DOMAIN s = 1..Len(s) /\ Len(s) >= 1
  BY LenProperties, EmptySeq
<1>2. /\ Tail(s) \in Seq(S) /\ Len(Tail(s)) = Len(s) - 1 /\ Head(s) \in S
      /\ \A i \in 1..(Len(s) - 1) : Tail(s)[i] = s[i + 1]
  BY HeadTailProperties
<1>3. DOMAIN Tail(s) = 1..(Len(s) - 1)
  BY <1>1, <1>2, LenProperties
<1> QED BY <1>1, <1>2, <1>3

\* What is relayed, or announced, is the login that is present.
LEMMA HeardAppend ==
    ASSUME NEW s \in 0..2, NEW l \in Login, NEW queue \in Seq(Packets), NEW m \in Packets,
           Heard(s, queue, l), m.login \in {0, l},
           m.type # "sid" => m.login = Latest(s, queue)
    PROVE  Heard(s, Append(queue, m), l) /\ Latest(s, Append(queue, m)) = m.login
<1> DEFINE n == Len(queue)
           t == Append(queue, m)
<1>1. /\ n \in Nat /\ DOMAIN queue = 1..n /\ t # <<>> /\ Len(t) = n + 1 /\ DOMAIN t = 1..(n + 1)
      /\ \A i \in 1..n : t[i] = queue[i]
      /\ t[n + 1] = m
  BY Appending
<1>2. \A i \in 1..n : Before(s, t, i) = Before(s, queue, i)
  BY <1>1 DEF Before
<1>3. Before(s, t, n + 1) = Latest(s, queue)
  <2>1. queue = <<>> <=> n = 0
    BY EmptySeq
  <2>2. (n + 1 = 1 <=> n = 0) /\ (n + 1) - 1 = n /\ (n # 0 => n \in 1..n)
    BY <1>1
  <2>3. Before(s, t, n + 1) = IF n = 0 THEN s ELSE t[n].login
    BY <2>2 DEF Before
  <2>4. Latest(s, queue) = IF n = 0 THEN s ELSE queue[n].login
    BY <2>1 DEF Latest
  <2> QED BY <2>2, <2>3, <2>4, <1>1
<1>4. m.login <= l /\ l \in Nat
  BY DEF Login
<1>5. \A i \in DOMAIN t :
          /\ t[i].type # "sid" => t[i].login = Before(s, t, i)
          /\ t[i].login <= l
          /\ s = l => t[i].login \in {0, l}
  <2>1. TAKE i \in DOMAIN t
  <2>2. CASE i \in 1..n
    BY <2>2, <1>1, <1>2 DEF Heard
  <2>3. CASE i = n + 1
    BY <2>3, <1>1, <1>3, <1>4
  <2> QED BY <2>1, <2>2, <2>3, <1>1
<1>6. \A i, j \in DOMAIN t : i < j /\ t[i].login = l => t[j].login \in {0, l}
  <2>1. TAKE i, j \in DOMAIN t
  <2>2. CASE j \in 1..n
    BY <2>2, <1>1 DEF Heard
  <2>3. CASE j = n + 1
    BY <2>3, <1>1
  <2> QED BY <2>1, <2>2, <2>3, <1>1
<1>7. Latest(s, t) = m.login
  BY <1>1 DEF Latest
<1> HIDE DEF t
<1> QED BY <1>5, <1>6, <1>7 DEF Heard, t

\* Handling the first packet: it is of the login that is known, if it is not news.
LEMMA HeardTail ==
    ASSUME NEW s \in 0..2, NEW l \in Login, NEW queue \in Seq(Packets), queue # <<>>,
           Heard(s, queue, l)
    PROVE  /\ Head(queue).type # "sid" => Head(queue).login = s
           /\ Heard(Head(queue).login, Tail(queue), l)
           /\ Latest(Head(queue).login, Tail(queue)) = Latest(s, queue)
<1> DEFINE n == Len(queue)
           t == Tail(queue)
           h == Head(queue).login
<1>1. /\ n \in Nat /\ n >= 1 /\ DOMAIN queue = 1..n /\ Head(queue) = queue[1]
      /\ Len(t) = n - 1 /\ DOMAIN t = 1..(n - 1) /\ t \in Seq(Packets)
      /\ \A i \in 1..(n - 1) : t[i] = queue[i + 1]
  BY Dropping
<1>2. \A i \in 1..(n - 1) : i + 1 \in 1..n /\ Before(h, t, i) = Before(s, queue, i + 1)
  <2>1. TAKE i \in 1..(n - 1)
  <2>2. CASE i = 1
    BY <2>2, <1>1 DEF Before
  <2>3. CASE i # 1
    <3>1. i - 1 \in 1..(n - 1) /\ i + 1 # 1 /\ (i + 1) - 1 = i /\ (i - 1) + 1 = i
      BY <1>1, <2>3
    <3> QED BY <3>1, <2>3, <1>1 DEF Before
  <2> QED BY <2>2, <2>3
<1>3. Head(queue).type # "sid" => h = s
  BY <1>1 DEF Heard, Before
<1>4. \A i \in DOMAIN t :
          /\ t[i].type # "sid" => t[i].login = Before(h, t, i)
          /\ t[i].login <= l
          /\ h = l => t[i].login \in {0, l}
  <2>1. TAKE i \in DOMAIN t
  <2>2. i \in 1..(n - 1) /\ i + 1 \in 1..n /\ 1 \in 1..n /\ 1 < i + 1 /\ t[i] = queue[i + 1]
    BY <1>1
  <2>3. h = l => t[i].login \in {0, l}
    BY <2>2, <1>1 DEF Heard
  <2> QED BY <2>2, <2>3, <1>1, <1>2 DEF Heard
<1>5. \A i, j \in DOMAIN t : i < j /\ t[i].login = l => t[j].login \in {0, l}
  <2>1. TAKE i, j \in DOMAIN t
  <2>2. /\ i + 1 \in 1..n /\ j + 1 \in 1..n /\ (i < j => i + 1 < j + 1)
        /\ t[i] = queue[i + 1] /\ t[j] = queue[j + 1]
    BY <1>1
  <2> QED BY <2>2, <1>1 DEF Heard
<1>6. h <= l
  BY <1>1 DEF Heard
<1>7. Latest(h, t) = Latest(s, queue)
  <2>1. t = <<>> <=> Len(t) = 0
    BY <1>1, EmptySeq
  <2>2. Len(t) = 0 <=> n = 1
    BY <1>1
  <2>3. n # 1 => n - 1 \in 1..(n - 1) /\ (n - 1) + 1 = n
    BY <1>1
  <2> QED BY <2>1, <2>2, <2>3, <1>1 DEF Latest
<1> HIDE DEF t, h
<1> QED BY <1>3, <1>4, <1>5, <1>6, <1>7 DEF Heard, t, h

\* With the other side's next login all that was told is older.
LEMMA HeardNext ==
    ASSUME NEW s \in 0..2, NEW queue \in Seq(Packets), Heard(s, queue, 1)
    PROVE  Heard(s, queue, 2)
<1>1. s # 2 /\ \A i \in DOMAIN queue : queue[i].login <= 1
  BY DEF Heard
<1>2. \A i \in DOMAIN queue : queue[i].login \in 0..2
  <2>1. TAKE i \in DOMAIN queue
  <2>2. queue[i] \in Packets
    BY LenProperties, ElementOfSeq
  <2> QED BY <2>2 DEF Packets, Login
<1>3. \A i \in DOMAIN queue : queue[i].login # 2 /\ queue[i].login <= 2
  BY <1>1, <1>2
<1> QED BY <1>1, <1>3 DEF Heard

--------------------------------------------------------------------------------
(* What the pieces of the handlers do. *)

LiveSessions ==
    [state : {"live"}, own : Login, peer : Login, salt : Salt, reach : Login \union {0},
     timer : BOOLEAN, due : BOOLEAN, pongNeeded : BOOLEAN, handshake : BOOLEAN,
     retries : 0..MaxPings]

Datagrams ==
    [to : Peer, type : {"ping", "pong"}, from : Peer, login : Login, salt : Salt]

\* The fields of a session,
LEMMA LiveTyped ==
    ASSUME TypeOK, NEW p \in Peer
    PROVE  /\ session[p] \in Sessions
           /\ Live(p) => session[p] \in LiveSessions
           /\ NoSession \in Sessions /\ Dangling \in Sessions /\ LiveSessions \subseteq Sessions
           /\ OwnSalt(p) \in Salt /\ login[p] \in Login /\ sid[p] \in 0..2
  BY DEF TypeOK, Live, Sessions, LiveSessions, NoSession, Dangling, OwnSalt, Salt, Login

\* of one just made,
LEMMA NewSessionIs ==
    ASSUME TypeOK, NEW p \in Peer, sid[p] \in Login, NEW s \in Salt
    PROVE  /\ NewSession(p, s) \in LiveSessions
           /\ NewSession(p, s).own = login[p] /\ NewSession(p, s).peer = sid[p]
           /\ NewSession(p, s).salt = s /\ NewSession(p, s).reach = 0
           /\ NewSession(p, s).state = "live"
           /\ ~NewSession(p, s).timer /\ ~NewSession(p, s).handshake
  BY BoundsAssumption DEF NewSession, LiveSessions, TypeOK, Login

\* and of one that gets an address.
LEMMA AddressedIs ==
    ASSUME NEW ses \in LiveSessions, NEW r \in Login \union {0}
    PROVE  /\ Addressed(ses, r) \in LiveSessions
           /\ Addressed(ses, r).own = ses.own /\ Addressed(ses, r).peer = ses.peer
           /\ Addressed(ses, r).salt = ses.salt /\ Addressed(ses, r).reach = r
           /\ Addressed(ses, r).state = "live" /\ Addressed(ses, r).timer
           /\ Addressed(ses, r).handshake = ses.handshake
  BY DEF Addressed, LiveSessions

\* A datagram is the session's, for the login it has the address of.
LEMMA DatagramIs ==
    ASSUME TypeOK, NEW p \in Peer, NEW ses \in LiveSessions, NEW type \in {"ping", "pong"}
    PROVE  /\ Datagram(p, ses, type) \subseteq Datagrams
           /\ \A d \in Datagram(p, ses, type) :
                 /\ d.to = Other(p) /\ d.from = p /\ d.type = type
                 /\ d.login = ses.own /\ d.salt = ses.salt
                 /\ ses.reach = login[Other(p)] /\ Other(p) \notin gone
<1>1. Other(p) \in Peer
  BY TwoPeers
<1> QED BY <1>1 DEF Datagram, Datagrams, LiveSessions, Arriving

\* What is sent over the server are packets.
LEMMA PacketsAre ==
    ASSUME TypeOK, NEW p \in Peer
    PROVE  /\ \A s \in Salt, real \in BOOLEAN : Info(p, s, real) \in Packets
           /\ \A n \in 1..MaxTexts, type \in {"im", "confirm"} : OverServer(p, type, n) \in Packets
           /\ \A n \in Login \union {0} : SessionIs(n) \in Packets
  BY DEF Info, OverServer, SessionIs, Packets, TypeOK

\* The fields of a packet, by its type.
LEMMA PacketIs ==
    ASSUME NEW m \in Packets
    PROVE  /\ m.login \in 0..2 /\ m.type \in {"info", "sid", "im", "confirm"}
           /\ m.type = "info" => m.login \in Login /\ m.salt \in Salt /\ m.real \in BOOLEAN
           /\ m.type \in {"im", "confirm"} => m.login \in Login /\ m.n \in 1..MaxTexts
  BY DEF Packets, Login

\* The server appends a packet for who is there.
LEMMA RelayIs ==
    ASSUME NEW p \in Peer, NEW m \in Packets, NEW queues \in [Peer -> Seq(Packets)]
    PROVE  /\ Relay(queues, p, m) \in [Peer -> Seq(Packets)]
           /\ Relay(queues, p, m)[p] = queues[p]
           /\ ~Reaches(p) => Relay(queues, p, m)[Other(p)] = queues[Other(p)]
           /\ Reaches(p) => Relay(queues, p, m)[Other(p)] = Append(queues[Other(p)], m)
<1>1. Other(p) \in Peer /\ Other(p) # p
  BY TwoPeers
<1>2. Append(queues[Other(p)], m) \in Seq(Packets)
  BY <1>1, AppendProperties
<1> QED BY <1>1, <1>2 DEF Relay

\* The packet in front is taken.
LEMMA ConsumedIs ==
    ASSUME TypeOK, NEW p \in Peer, info[p] # <<>>
    PROVE  /\ Head(info[p]) \in Packets /\ Head(info[p]) = info[p][1]
           /\ Consumed(p) \in [Peer -> Seq(Packets)]
           /\ Consumed(p)[p] = Tail(info[p])
           /\ Consumed(p)[Other(p)] = info[Other(p)]
<1>1. Other(p) \in Peer /\ Other(p) # p
  BY TwoPeers
<1>2. info[p] \in Seq(Packets)
  BY DEF TypeOK
<1>3. Head(info[p]) \in Packets /\ Head(info[p]) = info[p][1] /\ Tail(info[p]) \in Seq(Packets)
  BY <1>2, Dropping
<1> QED BY <1>1, <1>3 DEF Consumed, TypeOK

\* The information that is handled is of the login that is known.
LEMMA FirstIsKnown ==
    ASSUME TypeOK, News, NEW p \in Peer, info[p] # <<>>, Head(info[p]).type # "sid"
    PROVE  sid[p] = Head(info[p]).login /\ sid[p] \in Login
<1>1. Other(p) \in Peer /\ info[p] \in Seq(Packets) /\ sid[p] \in 0..2 /\ login[Other(p)] \in Login
  BY TwoPeers, LiveTyped DEF TypeOK
<1>2. Heard(sid[p], info[p], login[Other(p)])
  BY DEF News
<1>3. Head(info[p]).login = sid[p]
  BY <1>1, <1>2, HeardTail
<1>4. Head(info[p]) \in Packets
  BY ConsumedIs
<1> QED BY <1>3, <1>4, PacketIs

\* InfoCompatible: the session goes on, or is created from the message.
LEMMA CompatibleIs ==
    ASSUME TypeOK, News, NEW p \in Peer, InfoCompatible(p)
    PROVE  LET m == Head(info[p])
               new == session'[p]
           IN  /\ m \in Packets /\ m.type = "info" /\ m.login = sid[p] /\ sid[p] \in Login
               /\ m.salt \in Salt
               /\ new \in LiveSessions /\ new.timer
               /\ session' = [session EXCEPT ![p] = new]
               /\ new.reach \in {0, m.login}
               /\ Live(p) => /\ new.own = session[p].own /\ new.peer = session[p].peer
                             /\ new.salt = session[p].salt
                             /\ new.handshake = session[p].handshake
               /\ ~Live(p) => /\ new.own = login[p] /\ new.peer = sid[p]
                              /\ new.salt = m.salt /\ ~new.handshake
               /\ net' = net \union Datagram(p, new, "ping")
               /\ \/ info' = Consumed(p)
                  \/ ~requested[p] /\ info' = Relay(Consumed(p), p, Info(p, m.salt, TRUE))
               /\ requested' = [requested EXCEPT ![p] = TRUE]
               /\ capable' = [capable EXCEPT ![p] = "yes"]
               /\ p \in Open \cap Enabled /\ capable[p] # "no"
<1> DEFINE m == Head(info[p])
           old == SessionFor(p, m)
           reach == IF m.real THEN m.login ELSE 0
           new == Addressed(old, reach)
<1>1. info[p] # <<>> /\ m.type = "info"
  BY DEF InfoCompatible, Judges, Waiting
<1>2. m \in Packets /\ m.login = sid[p] /\ sid[p] \in Login /\ m.salt \in Salt /\ m.login \in Login
  BY <1>1, ConsumedIs, FirstIsKnown, PacketIs
<1>3. /\ old \in LiveSessions
      /\ Live(p) => old = session[p]
      /\ ~Live(p) => old.own = login[p] /\ old.peer = sid[p] /\ old.salt = m.salt /\ ~old.handshake
  BY <1>2, LiveTyped, NewSessionIs DEF SessionFor
<1>4. session' = [session EXCEPT ![p] = new] /\ session'[p] = new
  BY DEF InfoCompatible, TypeOK
<1>5. /\ new \in LiveSessions /\ new.own = old.own /\ new.peer = old.peer
      /\ new.salt = old.salt /\ new.reach = reach /\ new.timer /\ new.handshake = old.handshake
  BY <1>2, <1>3, AddressedIs
<1>6. /\ net' = net \union Datagram(p, new, "ping")
      /\ Answer(p, m.salt) /\ capable' = [capable EXCEPT ![p] = "yes"]
      /\ p \in Open \cap Enabled /\ capable[p] # "no"
  BY DEF InfoCompatible, Judges, Compatible
<1>7. /\ \/ info' = Consumed(p)
         \/ ~requested[p] /\ info' = Relay(Consumed(p), p, Info(p, m.salt, TRUE))
      /\ requested' = [requested EXCEPT ![p] = TRUE]
  BY <1>6 DEF Answer, Tell
<1> HIDE DEF new, old, m
<1>8. /\ m \in Packets /\ m.type = "info" /\ m.login = sid[p] /\ sid[p] \in Login /\ m.salt \in Salt
      /\ new \in LiveSessions /\ new.timer /\ new.reach \in {0, m.login}
      /\ Live(p) => /\ new.own = session[p].own /\ new.peer = session[p].peer
                    /\ new.salt = session[p].salt /\ new.handshake = session[p].handshake
      /\ ~Live(p) => /\ new.own = login[p] /\ new.peer = sid[p]
                     /\ new.salt = m.salt /\ ~new.handshake
  BY <1>1, <1>2, <1>3, <1>5
<1> QED BY <1>4, <1>6, <1>7, <1>8 DEF m

\* ReceivePing: the address may be set, and a pong and a ping are sent there.
LEMMA PingIs ==
    ASSUME TypeOK, NEW p \in Peer, ReceivePing(p)
    PROVE  \E d \in net :
              /\ d.to = p /\ d.type = "ping" /\ Known(p, d) /\ d \in Datagrams
              /\ LET new == session'[p]
                 IN  /\ new \in LiveSessions
                     /\ session' = [session EXCEPT ![p] = new]
                     /\ new.own = session[p].own /\ new.peer = session[p].peer
                     /\ new.salt = session[p].salt
                     /\ new.handshake = session[p].handshake
                     /\ new.timer = session[p].timer
                     /\ new.timer => new.reach = d.login
                     /\ ~new.timer => new.reach = session[p].reach
                     /\ net' \subseteq net \union Datagram(p, new, "pong")
                                         \union Datagram(p, new, "ping")
<1>1. PICK d \in net :
          /\ d.to = p /\ d.type = "ping" /\ Known(p, d)
          /\ session' = [session EXCEPT ![p] = Rectified(session[p], d)]
          /\ \E rest \in Taken(d, net) :
                net' = rest \union Datagram(p, Rectified(session[p], d), "pong")
                       \union IF Rectified(session[p], d).timer
                              THEN Datagram(p, Rectified(session[p], d), "ping") ELSE {}
  BY DEF ReceivePing
<1> DEFINE old == session[p]
           new == Rectified(old, d)
<1>2. d \in Datagrams /\ d.login \in Login /\ old \in LiveSessions
  BY <1>1, LiveTyped DEF TypeOK, Known, Datagrams
<1>3. /\ new \in LiveSessions
      /\ new.own = old.own /\ new.peer = old.peer /\ new.salt = old.salt
      /\ new.handshake = old.handshake
      /\ new.timer = old.timer
      /\ new.timer => new.reach = d.login
      /\ ~new.timer => new.reach = old.reach
  <2>1. CASE old.timer
    <3>1. new = Addressed(old, d.login)
      BY <2>1 DEF Rectified
    <3> HIDE DEF new, old
    <3>2. new.timer /\ new.reach = d.login
      BY <3>1, <1>2, AddressedIs
    <3>3. new.timer = old.timer
      BY <3>2, <2>1, <1>2 DEF LiveSessions
    <3>4. /\ new \in LiveSessions
          /\ new.own = old.own /\ new.peer = old.peer /\ new.salt = old.salt
          /\ new.handshake = old.handshake
      BY <3>1, <1>2, AddressedIs
    <3> QED BY <3>2, <3>3, <3>4
  <2>2. CASE ~old.timer
    <3>1. new = old
      BY <2>2 DEF Rectified
    <3> QED BY <3>1, <2>2, <1>2
  <2> QED BY <2>1, <2>2
<1>4. session'[p] = new
  BY <1>1 DEF TypeOK
<1>5. net' \subseteq net \union Datagram(p, new, "pong") \union Datagram(p, new, "ping")
  <2>1. \A rest \in Taken(d, net) : rest \subseteq net
    BY DEF Taken
  <2> QED BY <1>1, <2>1
<1> HIDE DEF new, old
<1>6. session' = [session EXCEPT ![p] = new]
  BY <1>1 DEF new, old
<1> QED BY <1>1, <1>2, <1>3, <1>4, <1>5, <1>6 DEF old

\* ReceivePong: the handshake is done.
LEMMA PongIs ==
    ASSUME TypeOK, NEW p \in Peer, ReceivePong(p)
    PROVE  \E d \in net :
              /\ d.to = p /\ d.type = "pong" /\ Known(p, d) /\ d \in Datagrams
              /\ LET new == session'[p]
                 IN  /\ new \in LiveSessions
                     /\ session' = [session EXCEPT ![p] = new]
                     /\ new.own = session[p].own /\ new.peer = session[p].peer
                     /\ new.salt = session[p].salt /\ new.timer = session[p].timer
                     /\ new.reach = session[p].reach
              /\ net' \subseteq net
<1>1. PICK d \in net :
          /\ d.to = p /\ d.type = "pong" /\ Known(p, d)
          /\ session' = [session EXCEPT ![p].pongNeeded = FALSE, ![p].handshake = TRUE]
          /\ net' \in Taken(d, net)
  BY DEF ReceivePong
<1>2. d \in Datagrams /\ session[p] \in LiveSessions
  BY <1>1, LiveTyped DEF TypeOK, Known, Datagrams
<1> DEFINE new == [session[p] EXCEPT !.pongNeeded = FALSE, !.handshake = TRUE]
<1>3. session' = [session EXCEPT ![p] = new] /\ session'[p] = new
  BY <1>1 DEF TypeOK
<1>4. /\ new \in LiveSessions /\ new.own = session[p].own /\ new.peer = session[p].peer
      /\ new.salt = session[p].salt /\ new.timer = session[p].timer
      /\ new.reach = session[p].reach
  BY <1>2 DEF LiveSessions
<1>5. net' \subseteq net
  BY <1>1 DEF Taken
<1> QED BY <1>1, <1>2, <1>3, <1>4, <1>5

\* The check timer: a ping may be sent again.
LEMMA CheckIs ==
    ASSUME TypeOK, NEW p \in Peer, PongOverdue(p) \/ PingAgain(p)
    PROVE  LET new == session'[p]
           IN  /\ Live(p) /\ new \in LiveSessions
               /\ session' = [session EXCEPT ![p] = new]
               /\ new.own = session[p].own /\ new.peer = session[p].peer
               /\ new.salt = session[p].salt /\ new.timer = session[p].timer
               /\ new.reach = session[p].reach /\ new.handshake = session[p].handshake
               /\ net' \subseteq net \union Datagram(p, session[p], "ping")
<1>1. Live(p) /\ session[p] \in LiveSessions
  BY LiveTyped DEF PongOverdue, PingAgain, CheckDue
<1> DEFINE late == [session[p] EXCEPT !.due = TRUE]
           again == [session[p] EXCEPT !.retries = @ + 1, !.due = FALSE]
<1>2. CASE PongOverdue(p)
  <2>1. session' = [session EXCEPT ![p] = late] /\ session'[p] = late /\ net' = net
    BY <1>2 DEF PongOverdue, TypeOK
  <2>2. /\ late \in LiveSessions /\ late.own = session[p].own /\ late.peer = session[p].peer
        /\ late.salt = session[p].salt /\ late.timer = session[p].timer
        /\ late.reach = session[p].reach /\ late.handshake = session[p].handshake
    BY <1>1 DEF LiveSessions
  <2> QED BY <1>1, <2>1, <2>2
<1>3. CASE PingAgain(p)
  <2>1. session' = [session EXCEPT ![p] = again] /\ session'[p] = again
        /\ net' = net \union Datagram(p, session[p], "ping")
    <3>1. /\ session' = [session EXCEPT ![p].retries = @ + 1, ![p].due = FALSE]
          /\ net' = net \union Datagram(p, session[p], "ping")
      BY <1>3 DEF PingAgain
    <3>2. session' = [session EXCEPT ![p] = again]
      BY <3>1
    <3> QED BY <3>1, <3>2 DEF TypeOK
  <2>2. session[p].retries + 1 \in 0..MaxPings
    BY <1>1, <1>3, BoundsAssumption DEF PingAgain, MayPing, LiveSessions
  <2>3. /\ again \in LiveSessions /\ again.own = session[p].own /\ again.peer = session[p].peer
        /\ again.salt = session[p].salt /\ again.timer = session[p].timer
        /\ again.reach = session[p].reach /\ again.handshake = session[p].handshake
    BY <1>1, <2>2 DEF LiveSessions
  <2> QED BY <1>1, <2>1, <2>3
<1> QED BY <1>2, <1>3

\* A request: a session with the user's own salt, and the packets about it.
LEMMA AskIs ==
    ASSUME TypeOK, NEW p \in Peer, AsksForP2P(p), sid[p] # 0, RequestP2P(p)
    PROVE  LET new == session'[p]
           IN  /\ new \in LiveSessions /\ session' = [session EXCEPT ![p] = new]
               /\ new.own = login[p] /\ new.peer = sid[p] /\ new.salt = OwnSalt(p)
               /\ new.reach = 0 /\ ~new.timer /\ ~new.handshake
               /\ capable[p] = "unknown" /\ session[p].state = "none"
<1>1. sid[p] \in Login /\ OwnSalt(p) \in Salt
  BY LiveTyped DEF Login
<1>2. session' = [session EXCEPT ![p] = NewSession(p, OwnSalt(p))]
      /\ session'[p] = NewSession(p, OwnSalt(p))
  BY DEF RequestP2P, TypeOK
<1> DEFINE new == NewSession(p, OwnSalt(p))
<1>3. /\ new \in LiveSessions /\ new.own = login[p] /\ new.peer = sid[p]
      /\ new.salt = OwnSalt(p) /\ new.reach = 0 /\ ~new.timer /\ ~new.handshake
  BY <1>1, NewSessionIs
<1> HIDE DEF new
<1>4. session' = [session EXCEPT ![p] = new] /\ session'[p] = new
  BY <1>2 DEF new
<1> QED BY <1>3, <1>4 DEF AsksForP2P

\* The server tells the other side, if it is there.
LEMMA AnnounceIs ==
    ASSUME TypeOK, NEW p \in Peer, NEW n \in Login \union {0}, Announce(p, n)
    PROVE  /\ info' \in [Peer -> Seq(Packets)] /\ info'[p] = <<>>
           /\ Other(p) \in gone => info'[Other(p)] = info[Other(p)]
           /\ Other(p) \notin gone => info'[Other(p)] = Append(info[Other(p)], SessionIs(n))
<1>1. Other(p) \in Peer /\ Other(p) # p
  BY TwoPeers
<1>2. info \in [Peer -> Seq(Packets)] /\ SessionIs(n) \in Packets
  BY PacketsAre DEF TypeOK
<1>3. <<>> \in Seq(Packets) /\ Append(info[Other(p)], SessionIs(n)) \in Seq(Packets)
  BY <1>1, <1>2, EmptySeq, AppendProperties
<1>4. CASE Other(p) \in gone
  BY <1>1, <1>2, <1>3, <1>4 DEF Announce
<1>5. CASE Other(p) \notin gone
  <2>1. info' = [info EXCEPT ![p] = <<>>, ![Other(p)] = Append(@, SessionIs(n))]
    BY <1>5 DEF Announce
  <2> QED BY <1>1, <1>2, <1>3, <1>5, <2>1
<1> QED BY <1>4, <1>5

--------------------------------------------------------------------------------
(* The types. *)

\* How much a user writes is bounded.
LEMMA WorldTyped ==
    ASSUME TypeOK, NEW p \in Peer
    PROVE  world.texts[p] \in 0..MaxTexts
  BY WorldsAssumption DEF TypeOK, Circumstances

\* The queues keep their types.
LEMMA InfoTyped == ASSUME TypesOK, News, Next PROVE info' \in [Peer -> Seq(Packets)]
<1>1. TypeOK /\ info \in [Peer -> Seq(Packets)]
  BY DEF TypesOK, TypeOK
<1>2. ASSUME NEW p \in Peer, info[p] # <<>>, Head(info[p]).type = "info", NEW real \in BOOLEAN
      PROVE  Tell(p, Head(info[p]).salt, real) \in [Peer -> Seq(Packets)]
  <2>1. Info(p, Head(info[p]).salt, real) \in Packets
    BY <1>1, <1>2, ConsumedIs, PacketIs, PacketsAre
  <2> QED BY <1>1, <1>2, <2>1, ConsumedIs, RelayIs DEF Tell
<1>3. ASSUME NEW p \in Peer, Step(p) PROVE info' \in [Peer -> Seq(Packets)]
  <2>1. CASE SendOverServer(p)
    <3>1. Len(written[p]) \in Nat /\ Len(written[p]) < world.texts[p]
      BY <2>1, LenProperties DEF SendOverServer, CanWrite, TypesOK
    <3>2. NextNumber(p) \in 1..MaxTexts
      BY <1>1, <3>1, WorldTyped, BoundsAssumption DEF NextNumber
    <3>3. OverServer(p, "im", NextNumber(p)) \in Packets /\ Info(p, OwnSalt(p), TRUE) \in Packets
      BY <1>1, <3>2, PacketsAre, LiveTyped
    <3>4. Requested(p) \in [Peer -> Seq(Packets)]
      BY <1>1, <3>3, RelayIs DEF Requested
    <3> QED BY <2>1, <1>1, <3>3, <3>4, RelayIs DEF SendOverServer
  <2>2. CASE HandleText(p)
    <3>1. info[p] # <<>> /\ Head(info[p]).type = "im"
      BY <2>2 DEF HandleText, Waiting
    <3>2. OverServer(p, "confirm", Head(info[p]).n) \in Packets
      BY <1>1, <3>1, ConsumedIs, PacketIs, PacketsAre
    <3> QED BY <2>2, <1>1, <3>1, <3>2, ConsumedIs, RelayIs DEF HandleText
  <2>3. CASE HandleConfirmation(p)
    BY <2>3, <1>1, ConsumedIs DEF HandleConfirmation, Waiting
  <2>4. CASE InfoDenied(p)
    BY <2>4, <1>2 DEF InfoDenied, Waiting
  <2>5. CASE InfoCompatible(p) \/ InfoIncompatible(p)
    <3>1. info[p] # <<>> /\ Head(info[p]).type = "info" /\ Answer(p, Head(info[p]).salt)
      BY <2>5 DEF InfoCompatible, InfoIncompatible, Judges, Waiting
    <3> QED BY <3>1, <1>1, <1>2, ConsumedIs DEF Answer
  <2>6. CASE HandleSession(p)
    BY <2>6, <1>1, ConsumedIs DEF HandleSession, Waiting
  <2>7. CASE Quit(p) \/ Return(p)
    BY <2>7, <1>1, AnnounceIs DEF Quit, Return, Login
  <2>8. CASE info' = info
    BY <2>8, <1>1
  <2> QED BY <1>3, <2>1, <2>2, <2>3, <2>4, <2>5, <2>6, <2>7, <2>8
          DEF Step, HandlesText, ReadsData, Negotiates, HandlesInfo, ChecksSession, vars,
              SendDirectly, SendOnDangling, ReceiveText, ReceiveConfirmation,
              ReceiveFromNobody, ReceiveStrayData, QuitMessages, PongOverdue, PingAgain,
              SessionTimeout, ReceivePing, ReceivePong, ReceiveUnknown, ReceiveOnDangling
<1>4. CASE (\E d \in net : Lose(d)) \/ LoseData
  BY <1>4, <1>1 DEF Lose, LoseData, vars
<1> QED BY <1>3, <1>4 DEF Next

\* The sessions and the datagrams for them keep their types.
LEMMA SessionTyped ==
    ASSUME TypesOK, News, Next
    PROVE  session' \in [Peer -> Sessions] /\ net' \subseteq Datagrams
<1>1. TypeOK /\ session \in [Peer -> Sessions] /\ net \subseteq Datagrams
      /\ LiveSessions \subseteq Sessions /\ NoSession \in Sessions /\ Dangling \in Sessions
  BY DEF TypesOK, TypeOK, Datagrams, Sessions, LiveSessions
<1>2. ASSUME NEW p \in Peer, Step(p) PROVE session' \in [Peer -> Sessions] /\ net' \subseteq Datagrams
  <2>1. CASE SendOverServer(p)
    <3>1. sid[p] # 0 /\ net' = net
      BY <2>1 DEF SendOverServer, CanWrite
    <3>2. CASE AsksForP2P(p) /\ RequestP2P(p)
      BY <3>1, <3>2, <1>1, AskIs
    <3>3. CASE session' = session
      BY <3>1, <3>3, <1>1
    <3> QED BY <2>1, <3>2, <3>3 DEF SendOverServer
  <2>2. CASE InfoCompatible(p)
    <3>1. session'[p] \in LiveSessions /\ session' = [session EXCEPT ![p] = session'[p]]
          /\ net' = net \union Datagram(p, session'[p], "ping")
      BY <2>2, <1>1, CompatibleIs DEF TypesOK
    <3> QED BY <3>1, <1>1, DatagramIs
  <2>3. CASE ReceivePing(p)
    <3>1. session'[p] \in LiveSessions /\ session' = [session EXCEPT ![p] = session'[p]]
          /\ net' \subseteq net \union Datagram(p, session'[p], "pong")
                                \union Datagram(p, session'[p], "ping")
      BY <2>3, <1>1, PingIs
    <3>2. Datagram(p, session'[p], "pong") \subseteq Datagrams
          /\ Datagram(p, session'[p], "ping") \subseteq Datagrams
      BY <3>1, <1>1, DatagramIs
    <3> QED BY <3>1, <3>2, <1>1
  <2>4. CASE ReceivePong(p)
    BY <2>4, <1>1, PongIs
  <2>5. CASE PongOverdue(p) \/ PingAgain(p)
    <3>1. session'[p] \in LiveSessions /\ session' = [session EXCEPT ![p] = session'[p]]
          /\ net' \subseteq net \union Datagram(p, session[p], "ping") /\ Live(p)
      BY <2>5, <1>1, CheckIs
    <3>2. Datagram(p, session[p], "ping") \subseteq Datagrams
      BY <3>1, <1>1, DatagramIs, LiveTyped
    <3> QED BY <3>1, <3>2, <1>1
  <2>6. CASE InfoIncompatible(p)
    BY <2>6, <1>1 DEF InfoIncompatible
  <2>7. CASE SessionTimeout(p) \/ Return(p)
    BY <2>7, <1>1 DEF SessionTimeout, Return
  <2>8. CASE session' = session /\ net' \subseteq net
    BY <2>8, <1>1
  <2> QED BY <1>2, <2>1, <2>2, <2>3, <2>4, <2>5, <2>6, <2>7, <2>8
          DEF Step, HandlesText, ReadsData, Negotiates, HandlesInfo, ChecksSession, vars,
              SendDirectly, SendOnDangling, ReceiveText, ReceiveConfirmation, HandleText,
              HandleConfirmation, InfoDenied, HandleSession, Quit,
              ReceiveFromNobody, ReceiveStrayData, QuitMessages, ReceiveUnknown,
              ReceiveOnDangling
<1>3. CASE (\E d \in net : Lose(d)) \/ LoseData
  BY <1>3, <1>1 DEF Lose, LoseData, vars
<1> QED BY <1>2, <1>3 DEF Next

\* What the peers know of each other keeps its types.
LEMMA KnowledgeTyped ==
    ASSUME TypesOK, News, Next
    PROVE  /\ world' = world
           /\ login' \in [Peer -> Login] /\ sid' \in [Peer -> Login \union {0}]
           /\ capable' \in [Peer -> {"unknown", "yes", "no"}]
           /\ requested' \in [Peer -> BOOLEAN] /\ fault' \in BOOLEAN /\ gone' \subseteq Peer
<1>1. TypeOK /\ login \in [Peer -> Login] /\ sid \in [Peer -> Login \union {0}]
      /\ capable \in [Peer -> {"unknown", "yes", "no"}]
      /\ requested \in [Peer -> BOOLEAN] /\ fault \in BOOLEAN /\ gone \subseteq Peer
  BY DEF TypesOK, TypeOK
<1> DEFINE Goal == /\ world' = world
                   /\ login' \in [Peer -> Login] /\ sid' \in [Peer -> Login \union {0}]
                   /\ capable' \in [Peer -> {"unknown", "yes", "no"}]
                   /\ requested' \in [Peer -> BOOLEAN] /\ fault' \in BOOLEAN /\ gone' \subseteq Peer
<1>2. ASSUME NEW p \in Peer, Step(p) PROVE Goal
  <2>1. CASE InfoCompatible(p) \/ InfoIncompatible(p)
    BY <2>1, <1>1 DEF InfoCompatible, InfoIncompatible, Answer
  <2>2. CASE HandleSession(p)
    <3>1. Head(info[p]) \in Packets /\ Head(info[p]).type = "sid"
      BY <2>2, <1>1, ConsumedIs DEF HandleSession, Waiting
    <3>2. Head(info[p]).login \in Login \union {0}
      BY <3>1, PacketIs DEF Login
    <3> QED BY <2>2, <1>1, <3>2 DEF HandleSession
  <2>3. CASE Return(p)
    <3>1. (IF Other(p) \in gone THEN 0 ELSE login[Other(p)]) \in Login \union {0} /\ 2 \in Login
      BY <1>1, TwoPeers DEF Login
    <3> QED BY <2>3, <3>1, <1>1 DEF Return
  <2>4. CASE Quit(p)
    BY <2>4, <1>1 DEF Quit
  <2>5. CASE UNCHANGED <<world, login, sid, capable, requested, gone>> /\ fault' \in {fault, TRUE}
    BY <2>5, <1>1
  <2> QED BY <1>2, <2>1, <2>2, <2>3, <2>4, <2>5
          DEF Step, HandlesText, ReadsData, Negotiates, HandlesInfo, ChecksSession, vars,
              SendOverServer, SendDirectly, SendOnDangling, ReceiveText, ReceiveConfirmation,
              HandleText, HandleConfirmation, InfoDenied, ReceivePing, ReceivePong, PongOverdue,
              PingAgain, SessionTimeout,
              ReceiveFromNobody, ReceiveStrayData, QuitMessages, ReceiveUnknown,
              ReceiveOnDangling
<1>3. CASE (\E d \in net : Lose(d)) \/ LoseData
  BY <1>3, <1>1 DEF Lose, LoseData, vars
<1> QED BY <1>2, <1>3 DEF Next

\* Chats and datagrams with messages keep their types.
DataGrams ==
    [to : Peer, type : {"im", "confirm"}, from : Peer, login : Login, salt : Salt, n : Number]

\* A message over the session is a datagram.
LEMMA DataIs ==
    ASSUME TypeOK, NEW p \in Peer, Live(p), NEW type \in {"im", "confirm"}, NEW n \in Number
    PROVE  /\ Data(p, session[p], type, n) \subseteq DataGrams
           /\ \A d \in Data(p, session[p], type, n) :
                 d.to = Other(p) /\ d.from = p /\ d.type = type /\ d.n = n
<1>1. Other(p) \in Peer /\ session[p] \in LiveSessions
  BY TwoPeers, LiveTyped
<1> QED BY <1>1 DEF Data, DataGrams, LiveSessions

\* Chats keep their types.
LEMMA ChatsTyped ==
    ASSUME TypesOK, News, Next
    PROVE  /\ written' \in [Peer -> Seq({"server", "direct"})]
           /\ shown' \in [Peer -> Seq(Number)] /\ confirmed' \in [Peer -> SUBSET Number]
           /\ direct' \subseteq DataGrams
<1>1. TypeOK /\ written \in [Peer -> Seq({"server", "direct"})]
      /\ shown \in [Peer -> Seq(Number)] /\ confirmed \in [Peer -> SUBSET Number]
      /\ direct \subseteq DataGrams
  BY DEF TypesOK, DataGrams
<1> DEFINE Goal == /\ written' \in [Peer -> Seq({"server", "direct"})]
                   /\ shown' \in [Peer -> Seq(Number)] /\ confirmed' \in [Peer -> SUBSET Number]
                   /\ direct' \subseteq DataGrams
<1>2. ASSUME NEW p \in Peer, NEW way \in {"server", "direct"}, Wrote(p, way)
      PROVE  written' \in [Peer -> Seq({"server", "direct"})]
  <2>1. Append(written[p], way) \in Seq({"server", "direct"})
    BY <1>1, <1>2, AppendProperties
  <2> QED BY <1>1, <1>2, <2>1 DEF Wrote
<1>3. ASSUME NEW p \in Peer, NEW n \in Number, ReceivedMessage(p, n)
      PROVE  shown' \in [Peer -> Seq(Number)]
  <2>1. Append(shown[p], n) \in Seq(Number)
    BY <1>1, <1>3, AppendProperties
  <2> QED BY <1>1, <1>3, <2>1 DEF ReceivedMessage
<1>4. ASSUME NEW p \in Peer, CanWrite(p) PROVE NextNumber(p) \in Number
  <2>1. Len(written[p]) \in Nat /\ Len(written[p]) < world.texts[p]
    BY <1>4, <1>1, LenProperties DEF CanWrite
  <2> QED BY <2>1, <1>1, WorldTyped, BoundsAssumption DEF NextNumber, Number
<1>5. ASSUME NEW p \in Peer, NEW d \in direct PROVE TakenData(p, d) \subseteq SUBSET direct
  BY DEF TakenData, Taken
<1>6. ASSUME NEW p \in Peer, Step(p) PROVE Goal
  <2>1. CASE SendOverServer(p)
    BY <2>1, <1>1, <1>2 DEF SendOverServer
  <2>2. CASE SendDirectly(p)
    <3>1. Live(p) /\ NextNumber(p) \in Number
      BY <2>2, <1>4 DEF SendDirectly, Active
    <3>2. Data(p, session[p], "im", NextNumber(p)) \subseteq DataGrams
      BY <3>1, <1>1, DataIs
    <3> QED BY <2>2, <3>2, <1>1, <1>2 DEF SendDirectly
  <2>3. CASE HandleText(p)
    <3>1. Head(info[p]).n \in Number
      BY <2>3, <1>1, ConsumedIs, PacketIs DEF HandleText, Waiting, Number
    <3> QED BY <2>3, <3>1, <1>1, <1>3 DEF HandleText
  <2>4. CASE HandleConfirmation(p)
    <3>1. Head(info[p]).n \in Number
      BY <2>4, <1>1, ConsumedIs, PacketIs DEF HandleConfirmation, Waiting, Number
    <3> QED BY <2>4, <3>1, <1>1 DEF HandleConfirmation
  <2>5. CASE ReceiveText(p)
    <3>1. PICK d \in direct :
             /\ Arrives(p, d) /\ ReceivedMessage(p, d.n)
             /\ \E rest \in TakenData(p, d) :
                   direct' = rest \union Data(p, session[p], "confirm", d.n)
             /\ UNCHANGED <<vars, written, confirmed>>
      BY <2>5 DEF ReceiveText
    <3>2. d.n \in Number /\ Live(p)
      BY <3>1, <1>1 DEF DataGrams, Arrives, Known
    <3>3. Data(p, session[p], "confirm", d.n) \subseteq DataGrams
      BY <3>2, <1>1, DataIs
    <3> QED BY <3>1, <3>2, <3>3, <1>1, <1>3, <1>5
  <2>6. CASE ReceiveConfirmation(p)
    <3>1. PICK d \in direct :
             /\ confirmed' = [confirmed EXCEPT ![p] = @ \union {d.n}]
             /\ direct' \in TakenData(p, d)
             /\ UNCHANGED <<vars, written, shown>>
      BY <2>6 DEF ReceiveConfirmation
    <3>2. d.n \in Number
      BY <1>1 DEF DataGrams
    <3> QED BY <3>1, <3>2, <1>1, <1>5
  <2>7. CASE UNCHANGED <<written, shown, confirmed>> /\ direct' \subseteq direct
    BY <2>7, <1>1
  <2> QED BY <1>6, <2>1, <2>2, <2>3, <2>4, <2>5, <2>6, <2>7
          DEF Step, HandlesText, ReadsData, messages, SendOnDangling,
              ReceiveFromNobody, ReceiveStrayData, QuitMessages
<1>7. CASE UNCHANGED <<written, shown, confirmed>> /\ direct' \subseteq direct
  BY <1>7, <1>1
<1> QED BY <1>6, <1>7 DEF Next, LoseData, messages

\* Every step keeps the types.
LEMMA TypesStep == ASSUME TypesOK, News, Next PROVE TypesOK'
<1>1. world' \in Worlds
  BY KnowledgeTyped DEF TypesOK, TypeOK
<1>2. TypeOK'
  BY <1>1, KnowledgeTyped, InfoTyped, SessionTyped DEF TypeOK, Datagrams
<1> QED BY <1>2, ChatsTyped DEF TypesOK, DataGrams

--------------------------------------------------------------------------------
(* What the server tells comes in order. *)

\* q = Other(p) has this queue, and p is there.
Fits(p, queue) ==
    /\ queue \in Seq(Packets)
    /\ Heard(sid[Other(p)], queue, login[p])
    /\ Other(p) \notin gone => Latest(sid[Other(p)], queue) = login[p]
    /\ Other(p) \in gone => queue = <<>>

\* A packet of the present login fits behind what fits,
LEMMA FitsRelay ==
    ASSUME TypeOK, News, NEW p \in Peer, NEW queues \in [Peer -> Seq(Packets)],
           Fits(p, queues[Other(p)]), NEW m \in Packets, m.login = login[p]
    PROVE  Fits(p, Relay(queues, p, m)[Other(p)])
<1>1. Other(p) \in Peer /\ login[p] \in Login /\ sid[Other(p)] \in 0..2
  BY TwoPeers, LiveTyped
<1>2. CASE ~Reaches(p)
  BY <1>2, RelayIs
<1>3. CASE Reaches(p)
  <2> DEFINE queue == queues[Other(p)]
  <2>1. Relay(queues, p, m)[Other(p)] = Append(queue, m) /\ Other(p) \notin gone
    BY <1>3, RelayIs DEF Reaches
  <2>2. Heard(sid[Other(p)], queue, login[p]) /\ Latest(sid[Other(p)], queue) = login[p]
        /\ queue \in Seq(Packets)
    BY <2>1 DEF Fits
  <2>3. Heard(sid[Other(p)], Append(queue, m), login[p])
        /\ Latest(sid[Other(p)], Append(queue, m)) = m.login
        /\ Append(queue, m) \in Seq(Packets)
    BY <2>2, <1>1, HeardAppend, AppendProperties
  <2> QED BY <2>1, <2>3 DEF Fits
<1> QED BY <1>2, <1>3

\* as everything does that is told of a peer who is there.
LEMMA NewsFits ==
    ASSUME TypeOK, News, NEW p \in Peer, p \notin gone
    PROVE  Fits(p, info[Other(p)])
<1>1. Other(p) \in Peer /\ Other(Other(p)) = p
  BY TwoPeers
<1> QED BY <1>1 DEF Fits, News, Present, TypeOK

\* A peer that is there handles what comes first, and what it sends fits.
LEMMA FitsStep ==
    ASSUME TypeOK, News, NEW p \in Peer, p \notin gone, UNCHANGED <<login, gone>>,
           Fits(p, info'[Other(p)]), sid'[Other(p)] = sid[Other(p)],
           \/ info'[p] = info[p] /\ sid'[p] = sid[p]
           \/ info[p] # <<>> /\ info'[p] = Tail(info[p]) /\ sid'[p] = Head(info[p]).login
    PROVE  News'
<1>1. /\ Other(p) \in Peer /\ Other(Other(p)) = p /\ \A q \in Peer : q = p \/ q = Other(p)
      /\ sid[p] \in 0..2 /\ login[Other(p)] \in Login /\ info[p] \in Seq(Packets)
  BY TwoPeers, LiveTyped DEF TypeOK
<1>2. Heard(sid[p], info[p], login[Other(p)]) /\ Latest(sid[p], info[p]) = Present(Other(p))
  BY DEF News
<1>3. Heard(sid'[p], info'[p], login[Other(p)]) /\ Latest(sid'[p], info'[p]) = Present(Other(p))
  BY <1>1, <1>2, HeardTail
<1>4. /\ Heard(sid'[Other(p)], info'[Other(p)], login[p])
      /\ Other(p) \notin gone => Latest(sid'[Other(p)], info'[Other(p)]) = Present(p)
      /\ Other(p) \in gone => info'[Other(p)] = <<>>
  BY DEF Fits, Present
<1> QED BY <1>1, <1>3, <1>4 DEF News, Present

\* Who leaves is told of last,
LEMMA QuitNews == ASSUME TypeOK, News, NEW p \in Peer, Quit(p) PROVE News'
<1>1. /\ Other(p) \in Peer /\ Other(p) # p /\ Other(Other(p)) = p
      /\ \A q \in Peer : q = p \/ q = Other(p)
      /\ sid[p] \in 0..2 /\ sid[Other(p)] \in 0..2 /\ login[p] \in Login
      /\ info[Other(p)] \in Seq(Packets) /\ gone' = gone \union {p} /\ p \notin gone
      /\ UNCHANGED <<sid, login>>
  BY TwoPeers, LiveTyped DEF TypeOK, Quit, Running
<1>2. /\ info'[p] = <<>>
      /\ Other(p) \in gone => info'[Other(p)] = info[Other(p)]
      /\ Other(p) \notin gone => info'[Other(p)] = Append(info[Other(p)], SessionIs(0))
  BY AnnounceIs DEF Quit, Login
<1>3. Heard(sid[p], <<>>, login[Other(p)])
  BY DEF News, Heard
<1>4. Heard(sid[Other(p)], info[Other(p)], login[p])
  BY <1>1 DEF News
<1>5. SessionIs(0) \in Packets /\ SessionIs(0).login = 0 /\ SessionIs(0).type = "sid"
  BY PacketsAre DEF SessionIs
<1>6. Other(p) \notin gone => /\ Heard(sid[Other(p)], info'[Other(p)], login[p])
                              /\ Latest(sid[Other(p)], info'[Other(p)]) = 0
  <2>1. SessionIs(0).login \in {0, login[p]}
    BY <1>5
  <2>2. /\ Heard(sid[Other(p)], Append(info[Other(p)], SessionIs(0)), login[p])
        /\ Latest(sid[Other(p)], Append(info[Other(p)], SessionIs(0))) = SessionIs(0).login
    BY <1>1, <1>4, <1>5, <2>1, HeardAppend
  <2> QED BY <1>2, <1>5, <2>2
<1>7. Other(p) \in gone => info'[Other(p)] = <<>>
  BY <1>1, <1>2 DEF News
<1>8. Heard(sid[Other(p)], info'[Other(p)], login[p])
  BY <1>2, <1>4, <1>6
<1> QED BY <1>1, <1>2, <1>3, <1>6, <1>7, <1>8 DEF News, Present

\* who comes back is told of anew,
LEMMA ReturnNews == ASSUME TypeOK, News, NEW p \in Peer, Return(p) PROVE News'
<1>1. /\ Other(p) \in Peer /\ Other(p) # p /\ Other(Other(p)) = p
      /\ \A q \in Peer : q = p \/ q = Other(p)
      /\ sid[p] \in 0..2 /\ sid[Other(p)] \in 0..2
      /\ login[p] = 1 /\ login[Other(p)] \in Login
      /\ info[Other(p)] \in Seq(Packets) /\ gone' = gone \ {p} /\ p \in gone
      /\ login'[p] = 2 /\ login'[Other(p)] = login[Other(p)]
      /\ sid'[p] = Present(Other(p)) /\ sid'[Other(p)] = sid[Other(p)]
  BY TwoPeers, LiveTyped DEF TypeOK, Return, Present
<1>2. /\ info'[p] = <<>>
      /\ Other(p) \in gone => info'[Other(p)] = info[Other(p)]
      /\ Other(p) \notin gone => info'[Other(p)] = Append(info[Other(p)], SessionIs(2))
  BY AnnounceIs DEF Return, Login
<1>3. Present(Other(p)) <= login[Other(p)] /\ Latest(sid'[p], <<>>) = Present(Other(p))
  BY <1>1 DEF Present, Login, Latest
<1>4. Heard(sid'[p], <<>>, login[Other(p)])
  BY <1>1, <1>3 DEF Heard
<1>5. Heard(sid[Other(p)], info[Other(p)], 2)
  BY <1>1, HeardNext DEF News
<1>6. SessionIs(2) \in Packets /\ SessionIs(2).login = 2 /\ SessionIs(2).type = "sid" /\ 2 \in Login
  BY PacketsAre DEF SessionIs, Login
<1>7. Other(p) \notin gone => /\ Heard(sid[Other(p)], info'[Other(p)], 2)
                              /\ Latest(sid[Other(p)], info'[Other(p)]) = 2
  BY <1>1, <1>2, <1>5, <1>6, HeardAppend
<1>8. Other(p) \in gone => info'[Other(p)] = <<>>
  BY <1>1, <1>2 DEF News
<1>9. Heard(sid[Other(p)], info'[Other(p)], 2)
  BY <1>2, <1>5, <1>7
<1>10. /\ Heard(sid'[p], info'[p], login'[Other(p)])
       /\ Latest(sid'[p], info'[p]) = Present(Other(p))
  BY <1>1, <1>2, <1>3, <1>4
<1>11. /\ Heard(sid'[Other(p)], info'[Other(p)], login'[p])
       /\ Other(p) \notin gone => Latest(sid'[Other(p)], info'[Other(p)]) = 2
       /\ Other(p) \in gone => info'[Other(p)] = <<>>
  BY <1>1, <1>7, <1>8, <1>9
<1>12. Present(p)' = 2 /\ Present(Other(p))' = Present(Other(p)) /\ p \notin gone'
       /\ (Other(p) \in gone' <=> Other(p) \in gone)
  BY <1>1 DEF Present
<1>13. Other(p) \in gone => info'[Other(p)] = <<>>
  BY <1>8
<1> QED BY <1>1, <1>10, <1>11, <1>12 DEF News

\* and every step tells of logins in order.
LEMMA NewsStep == ASSUME TypesOK, News, Next PROVE News'
<1>1. TypeOK /\ info \in [Peer -> Seq(Packets)]
  BY DEF TypesOK, TypeOK
<1>2. ASSUME NEW p \in Peer, info[p] # <<>>, Head(info[p]).type = "info", p \notin gone,
             NEW real \in BOOLEAN
      PROVE  /\ Fits(p, Tell(p, Head(info[p]).salt, real)[Other(p)])
             /\ Tell(p, Head(info[p]).salt, real)[p] = Tail(info[p])
  <2> DEFINE m == Info(p, Head(info[p]).salt, real)
  <2>1. m \in Packets
    BY <1>1, <1>2, ConsumedIs, PacketIs, PacketsAre
  <2>2. m.login = login[p]
    BY DEF Info
  <2>3. Consumed(p) \in [Peer -> Seq(Packets)] /\ Consumed(p)[p] = Tail(info[p])
        /\ Consumed(p)[Other(p)] = info[Other(p)] /\ Fits(p, Consumed(p)[Other(p)])
    BY <1>1, <1>2, ConsumedIs, NewsFits
  <2> HIDE DEF m
  <2>4. Fits(p, Relay(Consumed(p), p, m)[Other(p)]) /\ Relay(Consumed(p), p, m)[p] = Tail(info[p])
    BY <1>1, <2>1, <2>2, <2>3, FitsRelay, RelayIs
  <2> QED BY <2>4 DEF Tell, m
<1>3. ASSUME NEW p \in Peer, Step(p) PROVE News'
  <2>0. Other(p) \in Peer /\ Other(p) # p
    BY TwoPeers
  <2>1. CASE SendOverServer(p)
    <3>0. Len(written[p]) \in Nat /\ Len(written[p]) < world.texts[p] /\ p \notin gone
      BY <2>1, LenProperties DEF SendOverServer, CanWrite, TypesOK, Running
    <3>1. NextNumber(p) \in 1..MaxTexts
      BY <1>1, <3>0, WorldTyped, BoundsAssumption DEF NextNumber
    <3> DEFINE text == OverServer(p, "im", NextNumber(p))
               ask == Info(p, OwnSalt(p), TRUE)
    <3>2. text \in Packets /\ ask \in Packets /\ text.login = login[p] /\ ask.login = login[p]
      BY <1>1, <3>1, PacketsAre, LiveTyped DEF OverServer, Info
    <3> HIDE DEF text, ask
    <3>3. Fits(p, info[Other(p)])
      BY <1>1, <3>0, NewsFits
    <3>4. Requested(p) = Relay(info, p, ask)
      BY DEF Requested, ask
    <3>5. /\ Requested(p) \in [Peer -> Seq(Packets)] /\ Requested(p)[p] = info[p]
          /\ Fits(p, Requested(p)[Other(p)])
      <4>1. Fits(p, Relay(info, p, ask)[Other(p)])
        BY <1>1, <3>0, <3>2, <3>3, FitsRelay
      <4> QED BY <1>1, <3>2, <3>4, <4>1, RelayIs
    <3>6. info' \in {Relay(Requested(p), p, text), Relay(info, p, text)}
          /\ UNCHANGED <<sid, login, gone>>
      BY <2>1 DEF SendOverServer, text
    <3>7. Fits(p, info'[Other(p)]) /\ info'[p] = info[p]
      <4>1. /\ Fits(p, Relay(info, p, text)[Other(p)])
            /\ Fits(p, Relay(Requested(p), p, text)[Other(p)])
        BY <1>1, <3>2, <3>3, <3>5, FitsRelay
      <4>2. Relay(info, p, text)[p] = info[p] /\ Relay(Requested(p), p, text)[p] = info[p]
        BY <1>1, <3>2, <3>5, RelayIs
      <4> QED BY <3>6, <4>1, <4>2
    <3> QED BY <1>1, <3>0, <3>6, <3>7, FitsStep
  <2>2. CASE HandleText(p)
    <3>1. /\ info[p] # <<>> /\ Head(info[p]).type = "im" /\ p \notin gone
          /\ UNCHANGED <<sid, login, gone>>
          /\ info' = Relay(Consumed(p), p, OverServer(p, "confirm", Head(info[p]).n))
      BY <2>2 DEF HandleText, Waiting, Running
    <3>2. OverServer(p, "confirm", Head(info[p]).n) \in Packets
          /\ OverServer(p, "confirm", Head(info[p]).n).login = login[p]
      BY <1>1, <3>1, ConsumedIs, PacketIs, PacketsAre DEF OverServer
    <3>3. /\ Consumed(p) \in [Peer -> Seq(Packets)] /\ Consumed(p)[p] = Tail(info[p])
          /\ Fits(p, Consumed(p)[Other(p)])
      BY <1>1, <3>1, ConsumedIs, NewsFits
    <3>4. Fits(p, info'[Other(p)]) /\ info'[p] = Tail(info[p])
      BY <1>1, <3>1, <3>2, <3>3, RelayIs, FitsRelay
    <3>5. Head(info[p]).login = sid[p]
      BY <1>1, <3>1, FirstIsKnown
    <3> QED BY <1>1, <3>1, <3>4, <3>5, FitsStep
  <2>3. CASE HandleConfirmation(p)
    <3>1. /\ info[p] # <<>> /\ Head(info[p]).type = "confirm" /\ p \notin gone
          /\ UNCHANGED <<sid, login, gone>> /\ info' = Consumed(p)
      BY <2>3 DEF HandleConfirmation, Waiting, Running
    <3>2. Fits(p, info'[Other(p)]) /\ info'[p] = Tail(info[p])
      BY <1>1, <3>1, ConsumedIs, NewsFits
    <3>3. Head(info[p]).login = sid[p]
      BY <1>1, <3>1, FirstIsKnown
    <3> QED BY <1>1, <3>1, <3>2, <3>3, FitsStep
  <2>4. CASE InfoDenied(p)
    <3>1. /\ info[p] # <<>> /\ Head(info[p]).type = "info" /\ p \notin gone
          /\ UNCHANGED <<sid, login, gone>> /\ info' = Tell(p, Head(info[p]).salt, FALSE)
      BY <2>4 DEF InfoDenied, Waiting, Running
    <3>2. Fits(p, info'[Other(p)]) /\ info'[p] = Tail(info[p])
      BY <1>2, <3>1
    <3>3. Head(info[p]).login = sid[p]
      BY <1>1, <3>1, FirstIsKnown
    <3> QED BY <1>1, <3>1, <3>2, <3>3, FitsStep
  <2>5. CASE InfoCompatible(p) \/ InfoIncompatible(p)
    <3>1. /\ info[p] # <<>> /\ Head(info[p]).type = "info" /\ p \notin gone
          /\ UNCHANGED <<sid, login, gone>>
          /\ info' \in {Consumed(p), Tell(p, Head(info[p]).salt, TRUE)}
      BY <2>5 DEF InfoCompatible, InfoIncompatible, Judges, Waiting, Running, Answer
    <3>2. Fits(p, info'[Other(p)]) /\ info'[p] = Tail(info[p])
      BY <1>1, <1>2, <3>1, ConsumedIs, NewsFits
    <3>3. Head(info[p]).login = sid[p]
      BY <1>1, <3>1, FirstIsKnown
    <3> QED BY <1>1, <3>1, <3>2, <3>3, FitsStep
  <2>6. CASE HandleSession(p)
    <3>1. /\ info[p] # <<>> /\ p \notin gone /\ UNCHANGED <<login, gone>>
          /\ info' = Consumed(p) /\ sid' = [sid EXCEPT ![p] = Head(info[p]).login]
      BY <2>6 DEF HandleSession, Waiting, Running
    <3>2. Fits(p, info'[Other(p)]) /\ info'[p] = Tail(info[p])
      BY <1>1, <3>1, ConsumedIs, NewsFits
    <3>3. sid'[p] = Head(info[p]).login /\ sid'[Other(p)] = sid[Other(p)]
      BY <1>1, <2>0, <3>1 DEF TypeOK
    <3> QED BY <1>1, <3>1, <3>2, <3>3, FitsStep
  <2>7. CASE Quit(p)
    BY <2>7, <1>1, QuitNews
  <2>8. CASE Return(p)
    BY <2>8, <1>1, ReturnNews
  <2>9. CASE UNCHANGED <<sid, login, info, gone>>
    BY <2>9 DEF News, Present
  <2> QED BY <1>3, <2>1, <2>2, <2>3, <2>4, <2>5, <2>6, <2>7, <2>8, <2>9
          DEF Step, HandlesText, ReadsData, Negotiates, HandlesInfo, ChecksSession, vars,
              SendDirectly, SendOnDangling, ReceiveText, ReceiveConfirmation,
              ReceiveFromNobody, ReceiveStrayData, QuitMessages, PongOverdue, PingAgain,
              SessionTimeout, ReceivePing, ReceivePong, ReceiveUnknown, ReceiveOnDangling
<1>4. CASE UNCHANGED <<sid, login, info, gone>>
  BY <1>4 DEF News, Present
<1> QED BY <1>3, <1>4 DEF Next, Lose, LoseData, vars

--------------------------------------------------------------------------------
(* What a step means for the sessions. *)

InfosOf(queue) == {queue[i] : i \in {j \in DOMAIN queue : queue[j].type = "info"}}
Infos(p) == InfosOf(info[p])

Took(p) == info[p] # <<>> /\ info'[p] = Tail(info[p])
Gave(p, m) == Reaches(p) /\ info'[Other(p)] = Append(info[Other(p)], m)

\* No session is touched.
Idle(p) ==
    /\ UNCHANGED <<world, login, session, capable, requested, gone>>
    /\ net' \subseteq net
    /\ (Took(p) /\ Head(info[p]).type # "info") \/ info'[p] = info[p]
    /\ \/ info'[Other(p)] = info[Other(p)]
       \/ \E m \in Packets : m.type # "info" /\ Gave(p, m)
    /\ fault' = fault \/ session[p].state = "dangling"

\* p asks for a session.
Asks(p) ==
    /\ UNCHANGED <<world, login, capable, requested, net, fault, gone>>
    /\ capable[p] = "unknown" /\ session[p].state = "none"
    /\ sid[p] # 0
    /\ LET new == session'[p]
       IN  /\ new \in LiveSessions /\ session' = [session EXCEPT ![p] = new]
           /\ new.own = login[p] /\ new.peer = sid[p] /\ new.salt = OwnSalt(p)
           /\ new.reach = 0 /\ ~new.timer /\ ~new.handshake
    /\ info'[p] = info[p]
    /\ \/ ~Reaches(p) /\ info'[Other(p)] = info[Other(p)]
       \/ /\ Reaches(p)
          /\ \E m \in Packets : /\ m.type # "info"
                                /\ info'[Other(p)] = Append(Append(info[Other(p)],
                                                         Info(p, OwnSalt(p), TRUE)), m)

\* p denies, or finds itself incompatible.
Refuses(p) ==
    /\ UNCHANGED <<world, login, net, fault, gone>>
    /\ p \notin Open \cap Enabled \/ capable[p] = "no"
    /\ Took(p) /\ Head(info[p]).type = "info"
    /\ \/ info'[Other(p)] = info[Other(p)]
       \/ \E real \in BOOLEAN : Gave(p, Info(p, Head(info[p]).salt, real))
    /\ \/ UNCHANGED <<session, capable, requested>>
       \/ /\ capable' = [capable EXCEPT ![p] = "no"]
          /\ session' = [session EXCEPT ![p] = IF Live(p) THEN Dangling ELSE @]
          /\ requested' = [requested EXCEPT ![p] = TRUE]

\* p goes on with its session, or one made from the message.
Goes(p) ==
    LET m == Head(info[p])
        new == session'[p]
    IN  /\ UNCHANGED <<world, login, fault, gone>>
        /\ Took(p)
        /\ m \in Packets /\ m.type = "info" /\ m.login = sid[p] /\ sid[p] \in Login
        /\ m.salt \in Salt
        /\ new \in LiveSessions /\ new.timer
        /\ session' = [session EXCEPT ![p] = new]
        /\ new.reach \in {0, m.login}
        /\ Live(p) => /\ new.own = session[p].own /\ new.peer = session[p].peer
                      /\ new.salt = session[p].salt
                      /\ new.handshake = session[p].handshake
        /\ ~Live(p) => /\ new.own = login[p] /\ new.peer = sid[p]
                       /\ new.salt = m.salt /\ ~new.handshake
        /\ net' = net \union Datagram(p, new, "ping")
        /\ \/ info'[Other(p)] = info[Other(p)]
           \/ ~requested[p] /\ Gave(p, Info(p, m.salt, TRUE))
        /\ requested' = [requested EXCEPT ![p] = TRUE]
        /\ capable' = [capable EXCEPT ![p] = "yes"]
        /\ p \in Open \cap Enabled /\ capable[p] # "no"

\* p's session does something with datagrams: what it pings and pongs.
Moves(p) ==
    /\ UNCHANGED <<world, login, capable, requested, info, fault, gone>>
    /\ Live(p)
    /\ LET old == session[p]
           new == session'[p]
       IN  /\ new \in LiveSessions /\ session' = [session EXCEPT ![p] = new]
           /\ new.own = old.own /\ new.peer = old.peer /\ new.salt = old.salt
           /\ new.timer = old.timer
           /\ \/ /\ new.handshake = old.handshake /\ new.reach = old.reach
                 /\ net' \subseteq net \union Datagram(p, new, "ping")
              \/ /\ new.handshake = old.handshake
                 /\ \E d \in net :
                       /\ d.to = p /\ d.type = "ping" /\ Known(p, d) /\ d \in Datagrams
                       /\ new.timer => new.reach = d.login
                       /\ ~new.timer => new.reach = old.reach
                       /\ net' \subseteq net \union Datagram(p, new, "pong")
                                             \union Datagram(p, new, "ping")
              \/ /\ new.reach = old.reach /\ net' \subseteq net
                 /\ \E d \in net : /\ d.to = p /\ d.type = "pong" /\ Known(p, d)
                                   /\ d \in Datagrams

\* p's session is removed by its timer.
Removes(p) ==
    /\ UNCHANGED <<world, login, capable, requested, info, net, fault, gone>>
    /\ Live(p) /\ session[p].timer
    /\ session' = [session EXCEPT ![p] = NoSession]

Leaves(p) ==
    /\ UNCHANGED <<world, login, session, capable, requested, fault>>
    /\ gone' = gone \union {p}
    /\ info'[p] = <<>> /\ net' = {d \in net : d.to # p}
    /\ info'[Other(p)] = info[Other(p)] \/ info'[Other(p)] = Append(info[Other(p)], SessionIs(0))

ComesBack(p) ==
    /\ UNCHANGED <<world, net, fault>>
    /\ p \in gone /\ gone' = gone \ {p}
    /\ info[p] = <<>> /\ info'[p] = <<>>
    /\ info'[Other(p)] = info[Other(p)] \/ info'[Other(p)] = Append(info[Other(p)], SessionIs(2))
    /\ login[p] = 1 /\ login' = [login EXCEPT ![p] = 2]
    /\ session' = [session EXCEPT ![p] = NoSession]
    /\ capable' = [capable EXCEPT ![p] = "unknown"]
    /\ requested' = [requested EXCEPT ![p] = FALSE]

Does(p) ==
    Idle(p) \/ Asks(p) \/ Refuses(p) \/ Goes(p) \/ Moves(p) \/ Removes(p) \/ Leaves(p) \/ ComesBack(p)

\* What a step gives to the other side's queue.
LEMMA GaveIs ==
    ASSUME TypeOK, NEW p \in Peer, NEW m \in Packets, NEW queues \in [Peer -> Seq(Packets)],
           queues[Other(p)] = info[Other(p)], info' = Relay(queues, p, m)
    PROVE  info'[p] = queues[p] /\ (info'[Other(p)] = info[Other(p)] \/ Gave(p, m))
<1>1. info'[p] = queues[p]
  BY RelayIs
<1>2. CASE Reaches(p)
  BY <1>1, <1>2, RelayIs DEF Gave
<1>3. CASE ~Reaches(p)
  BY <1>1, <1>3, RelayIs
<1> QED BY <1>2, <1>3

\* Who tells takes the information it answers.
LEMMA Told ==
    ASSUME TypeOK, NEW p \in Peer, info[p] # <<>>, Head(info[p]).type = "info",
           NEW real \in BOOLEAN, info' = Tell(p, Head(info[p]).salt, real)
    PROVE  /\ Took(p)
           /\ \/ info'[Other(p)] = info[Other(p)]
              \/ Gave(p, Info(p, Head(info[p]).salt, real))
<1> DEFINE m == Info(p, Head(info[p]).salt, real)
<1>1. m \in Packets
  BY ConsumedIs, PacketIs, PacketsAre
<1> HIDE DEF m
<1>2. info' = Relay(Consumed(p), p, m)
  BY DEF Tell, m
<1>3. Consumed(p) \in [Peer -> Seq(Packets)] /\ Consumed(p)[p] = Tail(info[p])
      /\ Consumed(p)[Other(p)] = info[Other(p)]
  BY ConsumedIs
<1>4. info'[p] = Tail(info[p]) /\ (info'[Other(p)] = info[Other(p)] \/ Gave(p, m))
  BY <1>1, <1>2, <1>3, GaveIs
<1> QED BY <1>4 DEF Took, m

\* Who finds the other side compatible goes on.
LEMMA CompatibleGoes ==
    ASSUME TypeOK, News, NEW p \in Peer, InfoCompatible(p) PROVE Goes(p)
<1>1. /\ info[p] # <<>> /\ Head(info[p]).type = "info"
      /\ UNCHANGED <<world, login, fault, gone>> /\ Answer(p, Head(info[p]).salt)
  BY DEF InfoCompatible, Judges, Waiting
<1>2. CASE requested[p]
  <2>1. info' = Consumed(p)
    BY <1>1, <1>2 DEF Answer
  <2>2. Took(p) /\ info'[Other(p)] = info[Other(p)]
    BY <1>1, <2>1, ConsumedIs DEF Took
  <2> QED BY <1>1, <2>2, CompatibleIs DEF Goes
<1>3. CASE ~requested[p]
  <2>1. info' = Tell(p, Head(info[p]).salt, TRUE)
    BY <1>1, <1>3 DEF Answer
  <2>2. /\ Took(p)
        /\ \/ info'[Other(p)] = info[Other(p)]
           \/ Gave(p, Info(p, Head(info[p]).salt, TRUE))
    BY <1>1, <2>1, Told
  <2> QED BY <1>1, <1>3, <2>2, CompatibleIs DEF Goes
<1> QED BY <1>2, <1>3

\* What the socket and the check of the timer do to a session that stays.
LEMMA HandledMoves ==
    ASSUME TypeOK, NEW p \in Peer,
           ReceivePing(p) \/ ReceivePong(p) \/ PongOverdue(p) \/ PingAgain(p)
    PROVE  Moves(p)
<1>1. CASE ReceivePing(p)
  <2>1. UNCHANGED <<world, login, capable, requested, info, fault, gone>> /\ Live(p)
    BY <1>1 DEF ReceivePing, Known
  <2> QED BY <1>1, <2>1, PingIs DEF Moves
<1>2. CASE ReceivePong(p)
  <2>1. UNCHANGED <<world, login, capable, requested, info, fault, gone>> /\ Live(p)
    BY <1>2 DEF ReceivePong, Known
  <2> QED BY <1>2, <2>1, PongIs DEF Moves
<1>3. CASE PongOverdue(p) \/ PingAgain(p)
  <2>1. UNCHANGED <<world, login, capable, requested, info, fault, gone>>
    BY <1>3 DEF PongOverdue, PingAgain
  <2>2. session'[p] \in LiveSessions /\ session[p] \in LiveSessions
    BY <1>3, CheckIs, LiveTyped
  <2>3. Datagram(p, session[p], "ping") = Datagram(p, session'[p], "ping")
    BY <1>3, CheckIs DEF Datagram, Arriving
  <2> QED BY <1>3, <2>1, <2>3, CheckIs DEF Moves
<1> QED BY <1>1, <1>2, <1>3

\* A message over the server is a packet.
LEMMA TextIs ==
    ASSUME TypesOK, NEW p \in Peer, SendOverServer(p)
    PROVE  /\ OverServer(p, "im", NextNumber(p)) \in Packets /\ sid[p] # 0
           /\ OverServer(p, "im", NextNumber(p)).type # "info"
<1>1. Len(written[p]) \in Nat /\ Len(written[p]) < world.texts[p] /\ sid[p] # 0
  BY LenProperties DEF SendOverServer, CanWrite, TypesOK
<1>2. NextNumber(p) \in 1..MaxTexts
  BY <1>1, WorldTyped, BoundsAssumption DEF NextNumber, TypesOK
<1> QED BY <1>1, <1>2, PacketsAre DEF OverServer, TypesOK

\* It asks for a session,
LEMMA AskAsks ==
    ASSUME TypesOK, News, NEW p \in Peer, SendOverServer(p), AsksForP2P(p) PROVE Asks(p)
<1>1. TypeOK /\ info \in [Peer -> Seq(Packets)]
  BY DEF TypesOK, TypeOK
<1> DEFINE text == OverServer(p, "im", NextNumber(p))
           ask == Info(p, OwnSalt(p), TRUE)
<1>2. text \in Packets /\ ask \in Packets /\ text.type # "info" /\ sid[p] # 0
  BY <1>1, TextIs, PacketsAre, LiveTyped
<1> HIDE DEF text, ask
<1>3. UNCHANGED <<world, login, capable, requested, net, fault, gone>>
  BY DEF SendOverServer
<1>4. RequestP2P(p) /\ info' = Relay(Requested(p), p, text)
  BY DEF SendOverServer, text
<1>5. Requested(p) = Relay(info, p, ask)
  BY DEF Requested, ask
<1>6. /\ Requested(p) \in [Peer -> Seq(Packets)] /\ Requested(p)[p] = info[p]
      /\ ~Reaches(p) => Requested(p)[Other(p)] = info[Other(p)]
      /\ Reaches(p) => Requested(p)[Other(p)] = Append(info[Other(p)], ask)
  BY <1>1, <1>2, <1>5, RelayIs
<1>7. /\ info'[p] = info[p]
      /\ ~Reaches(p) => info'[Other(p)] = info[Other(p)]
      /\ Reaches(p) => info'[Other(p)] = Append(Append(info[Other(p)], ask), text)
  <2> DEFINE queues == Requested(p)
  <2>1. queues \in [Peer -> Seq(Packets)]
    BY <1>6
  <2> HIDE DEF queues
  <2>2. /\ Relay(queues, p, text)[p] = queues[p]
        /\ ~Reaches(p) => Relay(queues, p, text)[Other(p)] = queues[Other(p)]
        /\ Reaches(p) => Relay(queues, p, text)[Other(p)] = Append(queues[Other(p)], text)
    BY <2>1, <1>2, RelayIs
  <2> QED BY <2>2, <1>4, <1>6 DEF queues
<1> QED BY <1>1, <1>2, <1>3, <1>4, <1>7, AskIs DEF Asks, ask

\* or touches none, like what brings no information.
LEMMA HandledIdles ==
    ASSUME TypesOK, News, NEW p \in Peer,
           \/ SendOverServer(p) /\ ~AsksForP2P(p)
           \/ HandleText(p) \/ HandleConfirmation(p) \/ HandleSession(p)
    PROVE  Idle(p)
<1>1. TypeOK /\ info \in [Peer -> Seq(Packets)]
  BY DEF TypesOK, TypeOK
<1>2. CASE SendOverServer(p) /\ ~AsksForP2P(p)
  <2> DEFINE text == OverServer(p, "im", NextNumber(p))
  <2>1. text \in Packets /\ text.type # "info"
    BY <1>2, TextIs
  <2> HIDE DEF text
  <2>2. /\ UNCHANGED <<world, login, session, capable, requested, net, fault, gone>>
        /\ info' = Relay(info, p, text)
    BY <1>2 DEF SendOverServer, text
  <2>3. info'[p] = info[p] /\ (info'[Other(p)] = info[Other(p)] \/ Gave(p, text))
    BY <1>1, <2>1, <2>2, GaveIs
  <2> QED BY <2>1, <2>2, <2>3 DEF Idle
<1>3. CASE HandleText(p)
  <2> DEFINE text == OverServer(p, "confirm", Head(info[p]).n)
  <2>1. /\ info[p] # <<>> /\ Head(info[p]).type = "im"
        /\ UNCHANGED <<world, login, session, capable, requested, net, fault, gone>>
        /\ info' = Relay(Consumed(p), p, text)
    BY <1>3 DEF HandleText, Waiting
  <2>2. text \in Packets /\ text.type # "info"
    BY <1>1, <2>1, ConsumedIs, PacketIs, PacketsAre DEF OverServer
  <2> HIDE DEF text
  <2>3. Consumed(p) \in [Peer -> Seq(Packets)] /\ Consumed(p)[p] = Tail(info[p])
        /\ Consumed(p)[Other(p)] = info[Other(p)]
    BY <1>1, <2>1, ConsumedIs
  <2>4. info'[p] = Tail(info[p]) /\ (info'[Other(p)] = info[Other(p)] \/ Gave(p, text))
    BY <1>1, <2>1, <2>2, <2>3, GaveIs
  <2> QED BY <2>1, <2>2, <2>4 DEF Idle, Took
<1>4. CASE HandleConfirmation(p)
  <2>1. /\ info[p] # <<>> /\ info' = Consumed(p) /\ Head(info[p]).type # "info"
        /\ UNCHANGED <<world, login, session, capable, requested, net, fault, gone>>
    BY <1>4 DEF HandleConfirmation, Waiting
  <2> QED BY <1>1, <2>1, ConsumedIs DEF Idle, Took
<1>5. CASE HandleSession(p)
  <2>1. /\ info[p] # <<>> /\ info' = Consumed(p) /\ Head(info[p]).type # "info"
        /\ UNCHANGED <<world, login, session, capable, requested, net, fault, gone>>
    BY <1>5 DEF HandleSession, Waiting
  <2> QED BY <1>1, <2>1, ConsumedIs DEF Idle, Took
<1> QED BY <1>2, <1>3, <1>4, <1>5

\* Every action of a peer is one of the eight kinds of steps.
LEMMA StepIs == ASSUME TypesOK, News, NEW p \in Peer, Step(p) PROVE Does(p)
<1>1. TypeOK /\ info \in [Peer -> Seq(Packets)]
  BY DEF TypesOK, TypeOK
<1>2. CASE SendOverServer(p)
  BY <1>2, AskAsks, HandledIdles DEF Does
<1>3. CASE HandleText(p) \/ HandleConfirmation(p) \/ HandleSession(p)
  BY <1>3, HandledIdles DEF Does
<1>4. CASE InfoDenied(p)
  <2>1. /\ info[p] # <<>> /\ Head(info[p]).type = "info"
        /\ capable[p] = "no" \/ p \notin Open \cap Enabled
        /\ UNCHANGED <<world, login, session, capable, requested, net, fault, gone>>
        /\ info' = Tell(p, Head(info[p]).salt, FALSE)
    BY <1>4 DEF InfoDenied, Waiting
  <2>2. /\ Took(p)
        /\ \/ info'[Other(p)] = info[Other(p)]
           \/ Gave(p, Info(p, Head(info[p]).salt, FALSE))
    BY <1>1, <2>1, Told
  <2> QED BY <2>1, <2>2 DEF Does, Refuses
<1>5. CASE InfoCompatible(p)
  BY <1>1, <1>5, CompatibleGoes DEF Does
<1>6. CASE InfoIncompatible(p)
  <2>0. /\ info[p] # <<>> /\ Head(info[p]).type = "info" /\ p \notin Open \cap Enabled
        /\ UNCHANGED <<world, login, net, fault, gone>> /\ Answer(p, Head(info[p]).salt)
        /\ capable' = [capable EXCEPT ![p] = "no"]
        /\ session' = [session EXCEPT ![p] = IF Live(p) THEN Dangling ELSE @]
    BY <1>6 DEF InfoIncompatible, Judges, Waiting, Compatible
  <2>1. requested' = [requested EXCEPT ![p] = TRUE]
    BY <2>0 DEF Answer
  <2>2. /\ Took(p)
        /\ \/ info'[Other(p)] = info[Other(p)]
           \/ Gave(p, Info(p, Head(info[p]).salt, TRUE))
    <3>1. CASE info' = Consumed(p)
      BY <1>1, <2>0, <3>1, ConsumedIs DEF Took
    <3>2. CASE info' = Tell(p, Head(info[p]).salt, TRUE)
      BY <1>1, <2>0, <3>2, Told
    <3> QED BY <2>0, <3>1, <3>2 DEF Answer
  <2> QED BY <2>0, <2>1, <2>2 DEF Does, Refuses
<1>7. CASE ReceivePing(p) \/ ReceivePong(p) \/ PongOverdue(p) \/ PingAgain(p)
  BY <1>1, <1>7, HandledMoves DEF Does
<1>8. CASE SessionTimeout(p)
  BY <1>8 DEF SessionTimeout, CheckDue, Does, Removes
<1>9. CASE QuitMessages(p)
  <2>1. Quit(p)
    BY <1>9 DEF QuitMessages
  <2>2. /\ info'[p] = <<>>
        /\ info'[Other(p)] \in {info[Other(p)], Append(info[Other(p)], SessionIs(0))}
    BY <2>1, <1>1, AnnounceIs DEF Quit, Login
  <2> QED BY <2>1, <2>2 DEF Quit, Does, Leaves
<1>10. CASE Return(p)
  <2>1. /\ info'[p] = <<>>
        /\ info'[Other(p)] \in {info[Other(p)], Append(info[Other(p)], SessionIs(2))}
    BY <1>10, <1>1, AnnounceIs DEF Return, Login
  <2>2. info[p] = <<>>
    BY <1>10 DEF Return, News
  <2> QED BY <1>10, <2>1, <2>2 DEF Return, Does, ComesBack
<1>11. CASE /\ UNCHANGED <<world, login, session, capable, requested, info, gone>>
            /\ net' \subseteq net
            /\ fault' = fault \/ session[p].state = "dangling"
  BY <1>11 DEF Does, Idle
<1> QED BY <1>2, <1>3, <1>4, <1>5, <1>6, <1>7, <1>8, <1>9, <1>10, <1>11
        DEF Step, HandlesText, ReadsData, Negotiates, HandlesInfo, ChecksSession, vars,
            SendDirectly, SendOnDangling, ReceiveText, ReceiveConfirmation,
            ReceiveFromNobody, ReceiveStrayData, ReceiveUnknown, ReceiveOnDangling

\* So is every step, for one peer.
LEMMA StepDoes == ASSUME TypesOK, News, Next PROVE \E p \in Peer : Does(p)
<1>1. ASSUME NEW p \in Peer, Step(p) PROVE Does(p)
  BY <1>1, StepIs
<1>2. CASE (\E d \in net : Lose(d)) \/ LoseData
  <2>1. PICK p \in Peer : TRUE
    BY PeerAssumption
  <2>2. UNCHANGED <<world, login, session, capable, requested, info, fault, gone>> /\ net' \subseteq net
    BY <1>2 DEF Lose, LoseData, vars
  <2> QED BY <2>2 DEF Does, Idle
<1> QED BY <1>1, <1>2 DEF Next

--------------------------------------------------------------------------------
(* Information on its way. *)

\* Information in a queue when the first packet is taken,
LEMMA InfosTail ==
    ASSUME NEW queue \in Seq(Packets), queue # <<>>
    PROVE  /\ InfosOf(Tail(queue)) \subseteq InfosOf(queue)
           /\ Head(queue).type = "info" => Head(queue) \in InfosOf(queue)
<1>1. /\ Len(queue) \in Nat /\ Len(queue) >= 1 /\ DOMAIN queue = 1..Len(queue)
      /\ Head(queue) = queue[1] /\ DOMAIN Tail(queue) = 1..(Len(queue) - 1)
      /\ \A i \in 1..(Len(queue) - 1) : Tail(queue)[i] = queue[i + 1]
  BY Dropping
<1>2. \A i \in DOMAIN Tail(queue) : i + 1 \in DOMAIN queue /\ Tail(queue)[i] = queue[i + 1]
  BY <1>1
<1>3. 1 \in DOMAIN queue
  BY <1>1
<1> QED BY <1>1, <1>2, <1>3 DEF InfosOf

\* and when one is appended.
LEMMA InfosAppend ==
    ASSUME NEW queue \in Seq(Packets), NEW m \in Packets
    PROVE  /\ InfosOf(Append(queue, m)) \subseteq InfosOf(queue) \union {m}
           /\ m.type # "info" => InfosOf(Append(queue, m)) \subseteq InfosOf(queue)
<1> DEFINE n == Len(queue)
           t == Append(queue, m)
<1>1. /\ n \in Nat /\ DOMAIN queue = 1..n /\ DOMAIN t = 1..(n + 1)
      /\ \A i \in 1..n : t[i] = queue[i]
      /\ t[n + 1] = m
  BY Appending
<1>2. \A i \in DOMAIN t : (i \in DOMAIN queue /\ t[i] = queue[i]) \/ t[i] = m
  BY <1>1
<1> HIDE DEF t
<1>3. InfosOf(t) \subseteq InfosOf(queue) \union {m}
  BY <1>2 DEF InfosOf
<1>4. m.type # "info" => InfosOf(t) \subseteq InfosOf(queue)
  BY <1>2 DEF InfosOf
<1> QED BY <1>3, <1>4 DEF t

\* Information is of a login of the other side.
LEMMA InfosAre ==
    ASSUME TypeOK, News, NEW p \in Peer, NEW m \in Infos(p)
    PROVE  /\ m \in Packets /\ m.type = "info" /\ m.login \in Login /\ m.salt \in Salt
           /\ m.login <= login[Other(p)]
<1>1. PICK i \in DOMAIN info[p] : m = info[p][i] /\ m.type = "info"
  BY DEF Infos, InfosOf
<1>2. info[p] \in Seq(Packets)
  BY DEF TypeOK
<1>3. m \in Packets
  BY <1>1, <1>2, ElementOfSeq, LenProperties
<1>4. m.login <= login[Other(p)]
  BY <1>1 DEF News, Heard
<1> QED BY <1>1, <1>3, <1>4, PacketIs

\* What each kind of step takes and sends.
LEMMA InfosDo ==
    ASSUME TypeOK, News, NEW p \in Peer, Does(p)
    PROVE  /\ Infos(p)' \subseteq Infos(p)
           /\ Idle(p) \/ Moves(p) \/ Removes(p) \/ Leaves(p) \/ ComesBack(p)
                 => Infos(Other(p))' \subseteq Infos(Other(p))
           /\ Asks(p) => \/ Infos(Other(p))' \subseteq Infos(Other(p))
                         \/ /\ Reaches(p)
                            /\ Infos(Other(p))' \subseteq
                                  Infos(Other(p)) \union {Info(p, OwnSalt(p), TRUE)}
           /\ Refuses(p) \/ Goes(p) =>
                 LET m == Head(info[p])
                 IN  /\ m \in Infos(p) /\ m.login = sid[p]
                     /\ \/ Infos(Other(p))' \subseteq Infos(Other(p))
                        \/ /\ Reaches(p)
                           /\ \E real \in BOOLEAN : Infos(Other(p))' \subseteq
                                 Infos(Other(p)) \union {Info(p, m.salt, real)}
<1>1. /\ Other(p) \in Peer /\ info[p] \in Seq(Packets) /\ info[Other(p)] \in Seq(Packets)
  BY TwoPeers DEF TypeOK
<1>2. Took(p) => /\ Infos(p)' \subseteq Infos(p)
                 /\ Head(info[p]).type = "info" => Head(info[p]) \in Infos(p) /\ Head(info[p]).login = sid[p]
  <2>1. SUFFICES ASSUME Took(p)
                 PROVE  /\ Infos(p)' \subseteq Infos(p)
                        /\ Head(info[p]).type = "info"
                           => Head(info[p]) \in Infos(p) /\ Head(info[p]).login = sid[p]
    OBVIOUS
  <2>2. Infos(p)' = InfosOf(Tail(info[p])) /\ info[p] # <<>>
    BY <2>1 DEF Took, Infos, InfosOf
  <2>3. Head(info[p]).type = "info" => Head(info[p]).login = sid[p]
    BY <2>2, FirstIsKnown
  <2> QED BY <1>1, <2>2, <2>3, InfosTail DEF Infos
<1>3. info'[p] = info[p] => Infos(p)' \subseteq Infos(p)
  BY DEF Infos, InfosOf
<1>4. info'[p] = <<>> => Infos(p)' \subseteq Infos(p)
  BY EmptySeq, LenProperties DEF Infos, InfosOf
<1>5. info'[Other(p)] = info[Other(p)] => Infos(Other(p))' \subseteq Infos(Other(p))
  BY DEF Infos, InfosOf
<1>6. ASSUME NEW m \in Packets, info'[Other(p)] = Append(info[Other(p)], m)
      PROVE  /\ Infos(Other(p))' \subseteq Infos(Other(p)) \union {m}
             /\ m.type # "info" => Infos(Other(p))' \subseteq Infos(Other(p))
  <2>1. Infos(Other(p))' = InfosOf(Append(info[Other(p)], m))
    BY <1>6 DEF Infos, InfosOf
  <2> QED BY <1>1, <2>1, InfosAppend DEF Infos
<1>7. Infos(p)' \subseteq Infos(p)
  BY <1>2, <1>3, <1>4 DEF Does, Idle, Asks, Refuses, Goes, Moves, Removes, Leaves, ComesBack
<1>8. Idle(p) => Infos(Other(p))' \subseteq Infos(Other(p))
  BY <1>5, <1>6 DEF Idle, Gave
<1>9. Moves(p) \/ Removes(p) => Infos(Other(p))' \subseteq Infos(Other(p))
  BY <1>5 DEF Moves, Removes
<1>10. Leaves(p) \/ ComesBack(p) => Infos(Other(p))' \subseteq Infos(Other(p))
  <2>1. \A n \in {0, 2} : SessionIs(n) \in Packets /\ SessionIs(n).type # "info"
    BY PacketsAre DEF SessionIs, Login
  <2> QED BY <2>1, <1>5, <1>6 DEF Leaves, ComesBack
<1>11. Asks(p) => \/ Infos(Other(p))' \subseteq Infos(Other(p))
                  \/ /\ Reaches(p)
                     /\ Infos(Other(p))' \subseteq
                           Infos(Other(p)) \union {Info(p, OwnSalt(p), TRUE)}
  <2> DEFINE ask == Info(p, OwnSalt(p), TRUE)
  <2>1. ask \in Packets
    BY PacketsAre, LiveTyped
  <2> HIDE DEF ask
  <2>2. ASSUME NEW m \in Packets, m.type # "info",
               info'[Other(p)] = Append(Append(info[Other(p)], ask), m)
        PROVE  Infos(Other(p))' \subseteq Infos(Other(p)) \union {ask}
    <3> DEFINE queue == Append(info[Other(p)], ask)
    <3>1. queue \in Seq(Packets) /\ InfosOf(queue) \subseteq Infos(Other(p)) \union {ask}
      BY <1>1, <2>1, AppendProperties, InfosAppend DEF Infos
    <3>2. info'[Other(p)] = Append(queue, m)
      BY <2>2
    <3> HIDE DEF queue
    <3>3. InfosOf(Append(queue, m)) \subseteq InfosOf(queue)
      BY <2>2, <3>1, InfosAppend
    <3>4. Infos(Other(p))' = InfosOf(Append(queue, m))
      BY <3>2 DEF Infos, InfosOf
    <3> QED BY <3>1, <3>3, <3>4
  <2> QED BY <1>5, <2>2 DEF Asks, ask
<1>12. Refuses(p) \/ Goes(p) =>
          LET m == Head(info[p])
          IN  /\ m \in Infos(p) /\ m.login = sid[p]
              /\ \/ Infos(Other(p))' \subseteq Infos(Other(p))
                 \/ /\ Reaches(p)
                    /\ \E real \in BOOLEAN : Infos(Other(p))' \subseteq
                          Infos(Other(p)) \union {Info(p, m.salt, real)}
  <2>1. SUFFICES ASSUME Refuses(p) \/ Goes(p)
                 PROVE  LET m == Head(info[p])
                        IN  /\ m \in Infos(p) /\ m.login = sid[p]
                            /\ \/ Infos(Other(p))' \subseteq Infos(Other(p))
                               \/ /\ Reaches(p)
                                  /\ \E real \in BOOLEAN : Infos(Other(p))' \subseteq
                                        Infos(Other(p)) \union {Info(p, m.salt, real)}
    OBVIOUS
  <2> DEFINE m == Head(info[p])
  <2>2. m \in Infos(p) /\ m.login = sid[p]
    <3>1. Took(p) /\ Head(info[p]).type = "info"
      BY <2>1 DEF Refuses, Goes
    <3> QED BY <3>1, <1>2
  <2>3. \A real \in BOOLEAN : Info(p, m.salt, real) \in Packets
    BY <2>2, InfosAre, PacketsAre
  <2>4. \/ info'[Other(p)] = info[Other(p)]
        \/ \E real \in BOOLEAN : Gave(p, Info(p, m.salt, real))
    BY <2>1 DEF Refuses, Goes
  <2> HIDE DEF m
  <2>5. CASE info'[Other(p)] = info[Other(p)]
    BY <2>2, <2>5, <1>5 DEF m
  <2>6. CASE \E real \in BOOLEAN : Gave(p, Info(p, m.salt, real))
    <3>1. PICK real \in BOOLEAN : Gave(p, Info(p, m.salt, real))
      BY <2>6
    <3>2. Reaches(p) /\ Infos(Other(p))' \subseteq Infos(Other(p)) \union {Info(p, m.salt, real)}
      BY <3>1, <2>3, <1>6 DEF Gave
    <3> QED BY <2>2, <3>2 DEF m
  <2> QED BY <2>4, <2>5, <2>6
<1> QED BY <1>7, <1>8, <1>9, <1>10, <1>11, <1>12

--------------------------------------------------------------------------------
(* Salts and monikers. *)

\* A session's salt was drawn by its own peer, or by the login of the other side it
\* is with; so is the salt a message carries, which is of a login of its sender.
SaltsKnown ==
    \A p \in Peer :
        /\ Live(p) => /\ session[p].own = login[p] /\ session[p].peer <= login[Other(p)]
                      /\ session[p].salt \in {OwnSalt(p), <<Other(p), session[p].peer>>}
        /\ \A m \in Infos(p) : m.salt \in {OwnSalt(p), <<Other(p), m.login>>}

\* Datagrams are the other side's, name no login of the future, and have a socket to
\* come to.
NetKnown ==
    \A d \in net :
        /\ d.from = Other(d.to) /\ d.to \notin gone
        /\ d.login <= login[d.from] /\ d.salt[2] <= login[d.salt[1]]

\* A peer with a session with the other's present login hears of no older one.
UpToDate == \A p \in Peer : Current(p) => \A m \in Infos(p) : m.login = login[Other(p)]

\* A step is one of one peer; the other's session and login stay.
LEMMA DoesAtOne ==
    ASSUME TypeOK, NEW p \in Peer, Does(p)
    PROVE  /\ session'[Other(p)] = session[Other(p)] /\ login'[Other(p)] = login[Other(p)]
           /\ capable'[Other(p)] = capable[Other(p)] /\ requested'[Other(p)] = requested[Other(p)]
           /\ login[p] <= login'[p] /\ (~ComesBack(p) => login'[p] = login[p])
           /\ world' = world
<1>1. /\ Other(p) \in Peer /\ Other(p) # p /\ login \in [Peer -> Login]
      /\ session \in [Peer -> Sessions] /\ login[p] \in Login
      /\ capable \in [Peer -> {"unknown", "yes", "no"}] /\ requested \in [Peer -> BOOLEAN]
  BY TwoPeers DEF TypeOK
<1>2. session'[Other(p)] = session[Other(p)]
  BY <1>1 DEF Does, Idle, Asks, Refuses, Goes, Moves, Removes, Leaves, ComesBack
<1>3. capable'[Other(p)] = capable[Other(p)] /\ requested'[Other(p)] = requested[Other(p)]
  BY <1>1 DEF Does, Idle, Asks, Refuses, Goes, Moves, Removes, Leaves, ComesBack
<1>4. ComesBack(p) => login'[Other(p)] = login[Other(p)] /\ login[p] <= login'[p]
  BY <1>1 DEF ComesBack
<1>5. ~ComesBack(p) => login' = login
  BY DEF Does, Idle, Asks, Refuses, Goes, Moves, Removes, Leaves
<1>6. login[p] <= login[p]
  BY <1>1 DEF Login
<1>7. world' = world
  BY DEF Does, Idle, Asks, Refuses, Goes, Moves, Removes, Leaves, ComesBack
<1> QED BY <1>2, <1>3, <1>4, <1>5, <1>6, <1>7

\* A step passes on salts it was told, or draws its own.
LEMMA SaltsStep ==
    ASSUME TypeOK, News, SaltsKnown, NEW p \in Peer, Does(p) PROVE SaltsKnown'
<1>1. /\ Other(p) \in Peer /\ Other(p) # p /\ Other(Other(p)) = p
      /\ \A q \in Peer : q = p \/ q = Other(p)
      /\ login \in [Peer -> Login] /\ session \in [Peer -> Sessions]
  BY TwoPeers DEF TypeOK
<1>2. /\ session'[Other(p)] = session[Other(p)] /\ login'[Other(p)] = login[Other(p)]
      /\ login[p] <= login'[p] /\ (~ComesBack(p) => login'[p] = login[p])
  BY DoesAtOne
<1>3. Live(Other(p))' =>
         /\ session'[Other(p)].own = login'[Other(p)] /\ session'[Other(p)].peer <= login'[p]
         /\ session'[Other(p)].salt \in {OwnSalt(Other(p))', <<p, session'[Other(p)].peer>>}
  <2>1. SUFFICES ASSUME Live(Other(p))'
                 PROVE  /\ session'[Other(p)].own = login'[Other(p)]
                        /\ session'[Other(p)].peer <= login'[p]
                        /\ session'[Other(p)].salt \in {OwnSalt(Other(p))', <<p, session'[Other(p)].peer>>}
    OBVIOUS
  <2>2. Live(Other(p)) /\ session[Other(p)] \in LiveSessions
    BY <2>1, <1>1, <1>2, LiveTyped DEF Live
  <2>3. /\ session[Other(p)].own = login[Other(p)] /\ session[Other(p)].peer <= login[p]
        /\ session[Other(p)].salt \in {OwnSalt(Other(p)), <<p, session[Other(p)].peer>>}
        /\ session[Other(p)].peer \in Login
    BY <2>2, <1>1 DEF SaltsKnown, LiveSessions
  <2>4. session[Other(p)].peer <= login'[p]
    BY <2>3, <1>1, <1>2 DEF ComesBack, Login
  <2> QED BY <2>3, <2>4, <1>2 DEF OwnSalt
<1>4. \A m \in Infos(Other(p))' : m.salt \in {OwnSalt(Other(p))', <<p, m.login>>}
  <2>1. OwnSalt(Other(p))' = OwnSalt(Other(p))
    BY <1>2 DEF OwnSalt
  <2>2. \A m \in Infos(Other(p)) : m.salt \in {OwnSalt(Other(p)), <<p, m.login>>}
    BY <1>1 DEF SaltsKnown
  <2>3. Reaches(p) => sid[p] = login[Other(p)]
    BY DEF Reaches
  <2>4. CASE Asks(p)
    <3>1. LET m == Info(p, OwnSalt(p), TRUE) IN m.salt = <<p, m.login>>
      BY DEF Info, OwnSalt
    <3> QED BY <2>1, <2>2, <2>4, <3>1, InfosDo
  <2>5. CASE Refuses(p) \/ Goes(p)
    <3> DEFINE h == Head(info[p])
    <3>1. h \in Infos(p) /\ h.login = sid[p]
      BY <2>5, InfosDo
    <3>2. h.salt \in {OwnSalt(p), <<Other(p), sid[p]>>}
      BY <3>1 DEF SaltsKnown
    <3>3. \A real \in BOOLEAN : Info(p, h.salt, real).salt = h.salt
                                /\ Info(p, h.salt, real).login = login[p]
      BY DEF Info
    <3>4. \/ Infos(Other(p))' \subseteq Infos(Other(p))
          \/ /\ Reaches(p)
             /\ \E real \in BOOLEAN : Infos(Other(p))' \subseteq
                   Infos(Other(p)) \union {Info(p, h.salt, real)}
      BY <2>5, InfosDo
    <3> HIDE DEF h
    <3> QED BY <2>1, <2>2, <2>3, <3>2, <3>3, <3>4 DEF OwnSalt
  <2>6. CASE Infos(Other(p))' \subseteq Infos(Other(p))
    BY <2>1, <2>2, <2>6
  <2> QED BY <2>4, <2>5, <2>6, InfosDo DEF Does
<1>5. Live(p)' => /\ session'[p].own = login'[p] /\ session'[p].peer <= login'[Other(p)]
                  /\ session'[p].salt \in {OwnSalt(p)', <<Other(p), session'[p].peer>>}
  <2>1. SUFFICES ASSUME Live(p)'
                 PROVE  /\ session'[p].own = login'[p] /\ session'[p].peer <= login'[Other(p)]
                        /\ session'[p].salt \in {OwnSalt(p)', <<Other(p), session'[p].peer>>}
    OBVIOUS
  <2>2. ~ComesBack(p) /\ ~Removes(p)
    BY <1>1, <2>1 DEF Live, ComesBack, Removes, NoSession
  <2>3. login'[p] = login[p] /\ OwnSalt(p)' = OwnSalt(p)
    BY <1>2, <2>2 DEF OwnSalt
  <2>4. Live(p) => /\ session[p].own = login[p] /\ session[p].peer <= login[Other(p)]
                   /\ session[p].salt \in {OwnSalt(p), <<Other(p), session[p].peer>>}
    BY DEF SaltsKnown
  <2>5. sid[p] <= login[Other(p)]
    BY <1>1 DEF News, Heard
  <2>6. CASE Idle(p) \/ Leaves(p)
    BY <2>6, <2>1, <2>3, <2>4, <1>2 DEF Idle, Leaves, Live
  <2>7. CASE Asks(p)
    BY <2>7, <2>3, <2>5, <1>2 DEF Asks
  <2>8. CASE Refuses(p)
    <3>1. session'[p] = session[p]
      BY <2>8, <2>1, <1>1 DEF Refuses, Live, Dangling
    <3> QED BY <3>1, <2>1, <2>3, <2>4, <1>2 DEF Live
  <2>9. CASE Goes(p)
    <3>1. CASE Live(p)
      BY <2>9, <3>1, <2>3, <2>4, <1>2 DEF Goes
    <3>2. CASE ~Live(p)
      <4>1. Head(info[p]) \in Infos(p) /\ Head(info[p]).login = sid[p]
        BY <2>9, InfosDo
      <4>2. Head(info[p]).salt \in {OwnSalt(p), <<Other(p), sid[p]>>}
        BY <4>1 DEF SaltsKnown
      <4> QED BY <2>9, <3>2, <4>2, <2>3, <2>5, <1>2 DEF Goes
    <3> QED BY <3>1, <3>2
  <2>10. CASE Moves(p)
    BY <2>10, <2>3, <2>4, <1>2 DEF Moves
  <2> QED BY <2>2, <2>6, <2>7, <2>8, <2>9, <2>10 DEF Does
<1>6. \A m \in Infos(p)' : m.salt \in {OwnSalt(p)', <<Other(p), m.login>>}
  <2>1. CASE ComesBack(p)
    <3>1. Infos(p)' = {}
      BY <2>1, EmptySeq, LenProperties DEF ComesBack, Infos, InfosOf
    <3> QED BY <3>1
  <2>2. CASE ~ComesBack(p)
    BY <2>2, <1>2, InfosDo DEF SaltsKnown, OwnSalt
  <2> QED BY <2>1, <2>2
<1> QED BY <1>1, <1>3, <1>4, <1>5, <1>6 DEF SaltsKnown

\* What is in the network after a step was there, or belongs to p's session, which
\* has the present address of the other side.
Sent(p, d) ==
    LET new == session'[p]
    IN  /\ d \in Datagrams /\ d.to = Other(p) /\ d.from = p
        /\ new \in LiveSessions /\ d.login = new.own /\ d.salt = new.salt
        /\ new.reach = login[Other(p)] /\ Other(p) \notin gone
        /\ \/ Goes(p) /\ d.type = "ping"
           \/ Moves(p) /\ d.type = "ping"
           \/ Moves(p) /\ d.type = "pong"
              /\ \E e \in net : /\ e.to = p /\ e.type = "ping" /\ Known(p, e)
                                /\ new.timer => new.reach = e.login

\* What is new in the network is of the session of who acts.
LEMMA NetDo ==
    ASSUME TypeOK, NEW p \in Peer, Does(p), NEW d \in net', d \notin net
    PROVE  Sent(p, d) /\ UNCHANGED <<login, gone>>
<1>1. Goes(p) \/ Moves(p)
  BY DEF Does, Idle, Asks, Refuses, Removes, Leaves, ComesBack
<1>2. session'[p] \in LiveSessions /\ UNCHANGED <<login, gone>>
  BY <1>1 DEF Goes, Moves
<1>3. ASSUME NEW type \in {"ping", "pong"}, d \in Datagram(p, session'[p], type)
      PROVE  /\ d \in Datagrams /\ d.to = Other(p) /\ d.from = p /\ d.type = type
             /\ d.login = session'[p].own /\ d.salt = session'[p].salt
             /\ session'[p].reach = login[Other(p)] /\ Other(p) \notin gone
  BY <1>2, <1>3, DatagramIs
<1>4. CASE Goes(p)
  <2>1. d \in Datagram(p, session'[p], "ping")
    BY <1>4 DEF Goes
  <2> QED BY <2>1, <1>2, <1>3, <1>4 DEF Sent
<1>5. CASE Moves(p)
  <2>1. \/ d \in Datagram(p, session'[p], "ping")
        \/ d \in Datagram(p, session'[p], "pong")
           /\ \E e \in net : /\ e.to = p /\ e.type = "ping" /\ Known(p, e)
                             /\ session'[p].timer => session'[p].reach = e.login
    BY <1>5 DEF Moves
  <2> QED BY <2>1, <1>2, <1>3, <1>5 DEF Sent
<1> QED BY <1>1, <1>4, <1>5

\* A step sends what its session carries.
LEMMA NetStep ==
    ASSUME TypeOK, TypeOK', SaltsKnown', NetKnown, NEW p \in Peer, Does(p) PROVE NetKnown'
<1>1. /\ Other(p) \in Peer /\ Other(p) # p /\ Other(Other(p)) = p
      /\ \A q \in Peer : q = p \/ q = Other(p)
      /\ login \in [Peer -> Login] /\ login' \in [Peer -> Login]
  BY TwoPeers DEF TypeOK
<1>2. \A q \in Peer : login[q] <= login'[q]
  <2>1. login[p] <= login'[p] /\ login'[Other(p)] = login[Other(p)]
    BY DoesAtOne
  <2>2. login[Other(p)] <= login'[Other(p)]
    BY <1>1, <2>1 DEF Login
  <2> QED BY <1>1, <2>1, <2>2
<1>3. ASSUME NEW d \in net'
      PROVE  /\ d.from = Other(d.to) /\ d.to \notin gone'
             /\ d.login <= login'[d.from] /\ d.salt[2] <= login'[d.salt[1]]
  <2>1. CASE d \in net
    <3>1. d \in Datagrams
      BY <2>1 DEF TypeOK, Datagrams
    <3>2. d.login \in Login /\ d.from \in Peer /\ d.salt[1] \in Peer /\ d.salt[2] \in Login
      BY <3>1 DEF Datagrams, Salt
    <3>3. d.from = Other(d.to) /\ d.login <= login[d.from] /\ d.salt[2] <= login[d.salt[1]]
      BY <2>1 DEF NetKnown
    <3>4. \A x, y, z \in Login : x <= y /\ y <= z => x <= z
      BY DEF Login
    <3>5. d.to \notin gone'
      <4>1. d.to \notin gone
        BY <2>1 DEF NetKnown
      <4> QED BY <4>1, <1>3
              DEF Does, Idle, Asks, Refuses, Goes, Moves, Removes, Leaves, ComesBack
    <3> QED BY <1>1, <1>2, <3>2, <3>3, <3>4, <3>5
  <2>2. CASE d \notin net
    <3>1. Sent(p, d) /\ UNCHANGED <<login, gone>>
      BY <2>2, NetDo
    <3>2. /\ d.from = p /\ d.to = Other(p) /\ session'[p] \in LiveSessions /\ d.to \notin gone'
          /\ d.login = session'[p].own /\ d.salt = session'[p].salt
      BY <3>1 DEF Sent
    <3>3. Live(p)'
      BY <3>2 DEF Live, LiveSessions
    <3>4. /\ d.login = login'[p] /\ session'[p].peer <= login'[Other(p)]
          /\ d.salt \in {<<p, login'[p]>>, <<Other(p), session'[p].peer>>}
      BY <3>2, <3>3 DEF SaltsKnown, OwnSalt
    <3>5. login'[p] <= login'[p]
      BY <1>1 DEF Login
    <3> QED BY <1>1, <3>2, <3>4, <3>5
  <2> QED BY <2>1, <2>2
<1> QED BY <1>3 DEF NetKnown

\* Who has a session with the present login heard of it, and older ones are past.
LEMMA UpToDateStep ==
    ASSUME TypeOK, News, SaltsKnown, UpToDate, NEW p \in Peer, Does(p) PROVE UpToDate'
<1>1. /\ Other(p) \in Peer /\ Other(p) # p /\ Other(Other(p)) = p
      /\ \A q \in Peer : q = p \/ q = Other(p)
      /\ login \in [Peer -> Login] /\ session \in [Peer -> Sessions]
  BY TwoPeers DEF TypeOK
<1>2. /\ session'[Other(p)] = session[Other(p)] /\ login'[Other(p)] = login[Other(p)]
      /\ (~ComesBack(p) => login'[p] = login[p])
  BY DoesAtOne
<1>3. ASSUME Current(Other(p))', NEW m \in Infos(Other(p))'
      PROVE  m.login = login'[p]
  <2>1. ~ComesBack(p)
    <3>1. SUFFICES ASSUME ComesBack(p) PROVE FALSE
      OBVIOUS
    <3>2. login[p] = 1 /\ login'[p] = 2
      BY <1>1, <3>1 DEF ComesBack
    <3>3. Live(Other(p)) /\ session[Other(p)].peer = 2
      BY <1>1, <1>2, <1>3, <3>2 DEF Current, Live
    <3>4. session[Other(p)].peer <= login[p]
      BY <1>1, <3>3 DEF SaltsKnown
    <3> QED BY <3>2, <3>3, <3>4
  <2>2. login'[p] = login[p] /\ Current(Other(p))
    BY <1>1, <1>2, <1>3, <2>1 DEF Current, Live
  <2>3. \A x \in Infos(Other(p)) : x.login = login[p]
    BY <1>1, <2>2 DEF UpToDate
  <2>4. \A s \in Salt, real \in BOOLEAN : Info(p, s, real).login = login[p]
    BY DEF Info
  <2>5. CASE m \in Infos(Other(p))
    BY <2>2, <2>3, <2>5
  <2>6. CASE m \notin Infos(Other(p))
    <3>1. Asks(p) \/ Refuses(p) \/ Goes(p)
      BY <2>1, <2>6, <1>3, InfosDo DEF Does
    <3>2. \E s, real : m = Info(p, s, real)
      BY <2>6, <1>3, <3>1, InfosDo
    <3> QED BY <3>2, <2>2 DEF Info
  <2> QED BY <2>5, <2>6
<1>4. ASSUME Current(p)', NEW m \in Infos(p)' PROVE m.login = login'[Other(p)]
  <2>1. m \in Infos(p) /\ m.login \in Login /\ m.login <= login[Other(p)]
    BY <1>4, InfosDo, InfosAre
  <2>2. CASE sid[p] = login[Other(p)]
    <3>1. PICK i \in DOMAIN info[p] : m = info[p][i]
      BY <2>1 DEF Infos, InfosOf
    <3>2. m.login \in {0, login[Other(p)]}
      BY <2>2, <3>1 DEF News, Heard
    <3> QED BY <2>1, <3>2, <1>2 DEF Login
  <2>3. CASE sid[p] # login[Other(p)]
    <3>1. Live(p)' /\ session'[p].peer = login[Other(p)]
      BY <1>2, <1>4 DEF Current
    <3>2. Live(p) /\ session[p].peer = session'[p].peer
      <4>1. ~ComesBack(p) /\ ~Removes(p)
        BY <1>1, <3>1 DEF Live, ComesBack, Removes, NoSession
      <4>2. ~Asks(p)
        BY <2>3, <3>1 DEF Asks
      <4>3. Goes(p) => Live(p)
        BY <2>3, <3>1 DEF Goes
      <4>4. Refuses(p) => session'[p] = session[p]
        BY <1>1, <3>1 DEF Refuses, Live, Dangling
      <4>5. Idle(p) \/ Leaves(p) => session'[p] = session[p]
        BY DEF Idle, Leaves
      <4> QED BY <3>1, <4>1, <4>2, <4>3, <4>4, <4>5 DEF Does, Goes, Moves, Live
    <3>3. Current(p)
      BY <3>1, <3>2 DEF Current
    <3> QED BY <2>1, <3>3, <1>2 DEF UpToDate
  <2> QED BY <2>2, <2>3
<1> QED BY <1>1, <1>3, <1>4 DEF UpToDate

--------------------------------------------------------------------------------
(* Who is compatible. *)

\* Both peers have peer to peer enabled and a NAT that fits.
Able == Peer \subseteq Open \cap Enabled

\* A session has an address, and pings, once its contact was found compatible; its
\* handshake is done by a pong, which only answers a ping.
Fitting ==
    /\ \A p \in Peer : Live(p) =>
          /\ session[p].reach # 0 => session[p].timer
          /\ session[p].timer => p \in Open \cap Enabled /\ capable[p] = "yes" /\ requested[p]
          /\ session[p].handshake => Able
    /\ \A d \in net : d.from \in Open \cap Enabled /\ (d.type = "pong" => Able)

\* A step gives an address only to a compatible peer.
LEMMA FittingStep ==
    ASSUME TypeOK, TypeOK', NetKnown, Fitting, NEW p \in Peer, Does(p) PROVE Fitting'
<1>1. /\ Other(p) \in Peer /\ Other(p) # p /\ Other(Other(p)) = p
      /\ \A q \in Peer : q = p \/ q = Other(p)
      /\ session \in [Peer -> Sessions] /\ capable \in [Peer -> {"unknown", "yes", "no"}]
      /\ requested \in [Peer -> BOOLEAN]
  BY TwoPeers DEF TypeOK
<1>2. /\ session'[Other(p)] = session[Other(p)]
      /\ capable'[Other(p)] = capable[Other(p)] /\ requested'[Other(p)] = requested[Other(p)]
      /\ Open' = Open /\ Enabled' = Enabled /\ (Able' <=> Able)
  BY DoesAtOne DEF Open, Enabled, Able
<1>3. ASSUME Live(p)'
      PROVE  /\ session'[p].reach # 0 => session'[p].timer
             /\ session'[p].timer => /\ p \in Open \cap Enabled
                                     /\ capable'[p] = "yes" /\ requested'[p]
             /\ session'[p].handshake => Able
  <2>0. Live(p) => /\ session[p].reach # 0 => session[p].timer
                   /\ session[p].timer => /\ p \in Open \cap Enabled
                                          /\ capable[p] = "yes" /\ requested[p]
                   /\ session[p].handshake => Able
    BY DEF Fitting
  <2>1. ~ComesBack(p) /\ ~Removes(p)
    BY <1>1, <1>3 DEF Live, ComesBack, Removes, NoSession
  <2>2. CASE Idle(p) \/ Leaves(p)
    BY <2>0, <2>2, <1>3 DEF Idle, Leaves, Live
  <2>3. CASE Asks(p)
    BY <2>3 DEF Asks
  <2>4. CASE Refuses(p)
    <3>1. Live(p) => UNCHANGED <<session, capable, requested>>
      BY <1>1, <1>3, <2>4 DEF Refuses, Live, Dangling
    <3>2. Live(p)
      BY <1>1, <1>3, <2>4 DEF Refuses, Live, Dangling
    <3> QED BY <3>1, <3>2, <2>0
  <2>5. CASE Goes(p)
    BY <2>0, <2>5, <1>1 DEF Goes
  <2>6. CASE Moves(p)
    <3>1. /\ Live(p) /\ capable'[p] = capable[p] /\ requested'[p] = requested[p]
          /\ session'[p].timer = session[p].timer
      BY <2>6 DEF Moves
    <3>2. session'[p].reach = session[p].reach \/ (session'[p].timer => session'[p].reach # 0)
      BY <2>6 DEF Moves, Datagrams, Login
    <3>3. session'[p].reach # 0 => session'[p].timer
      BY <2>6, <2>0, <3>1 DEF Moves
    <3>4. session'[p].handshake = session[p].handshake \/ \E d \in net : d.type = "pong"
      BY <2>6 DEF Moves
    <3>5. session'[p].handshake => Able
      BY <2>0, <3>1, <3>4 DEF Fitting
    <3> QED BY <2>0, <3>1, <3>3, <3>5
  <2> QED BY <2>1, <2>2, <2>3, <2>4, <2>5, <2>6 DEF Does
<1>4. ASSUME Live(Other(p))'
      PROVE  LET q == Other(p)
             IN  /\ session'[q].reach # 0 => session'[q].timer
                 /\ session'[q].timer => /\ q \in Open \cap Enabled
                                         /\ capable'[q] = "yes" /\ requested'[q]
                 /\ session'[q].handshake => Able
  BY <1>1, <1>2, <1>4 DEF Fitting, Live
<1>5. ASSUME NEW d \in net'
      PROVE  d.from \in Open \cap Enabled /\ (d.type = "pong" => Able)
  <2>1. CASE d \in net
    BY <2>1 DEF Fitting
  <2>2. CASE d \notin net
    <3>1. Sent(p, d)
      BY <2>2, NetDo
    <3>2. /\ d.from = p /\ session'[p] \in LiveSessions /\ session'[p].reach = login[Other(p)]
      BY <3>1 DEF Sent
    <3>3. Live(p)' /\ session'[p].reach # 0
      BY <3>2, <1>1 DEF Live, LiveSessions, TypeOK, Login
    <3>4. p \in Open \cap Enabled
      BY <3>3, <1>3
    <3>5. d.type = "pong" => Able
      <4>1. SUFFICES ASSUME d.type = "pong" PROVE Able
        OBVIOUS
      <4>2. PICK e \in net : Known(p, e)
        BY <3>1, <4>1 DEF Sent
      <4>3. Other(p) \in Open \cap Enabled
        BY <4>2 DEF Known, Fitting
      <4> QED BY <1>1, <3>4, <4>3 DEF Able
    <3> QED BY <3>2, <3>4, <3>5
  <2> QED BY <2>1, <2>2
<1> QED BY <1>1, <1>2, <1>3, <1>4, <1>5 DEF Fitting

\* Between compatible peers no session is deleted but by its timer, and a contact is
\* known as capable from the first information on.
NoDangling ==
    Able => /\ ~fault
            /\ \A p \in Peer :
                  /\ session[p].state # "dangling" /\ capable[p] # "no"
                  /\ capable[p] = "yes" <=> requested[p]
                  /\ capable[p] = "unknown" /\ Live(p) => session[p].salt = OwnSalt(p)

\* Compatible peers delete a session by its timer only.
LEMMA NoDanglingStep ==
    ASSUME TypeOK, NoDangling, NEW p \in Peer, Does(p) PROVE NoDangling'
<1>1. /\ Other(p) \in Peer /\ Other(p) # p /\ Other(Other(p)) = p
      /\ \A q \in Peer : q = p \/ q = Other(p)
      /\ session \in [Peer -> Sessions] /\ capable \in [Peer -> {"unknown", "yes", "no"}]
      /\ requested \in [Peer -> BOOLEAN] /\ login \in [Peer -> Login]
  BY TwoPeers DEF TypeOK
<1>2. /\ session'[Other(p)] = session[Other(p)] /\ login'[Other(p)] = login[Other(p)]
      /\ capable'[Other(p)] = capable[Other(p)] /\ requested'[Other(p)] = requested[Other(p)]
      /\ Able' <=> Able
  BY DoesAtOne DEF Able, Open, Enabled
<1> SUFFICES ASSUME Able
             PROVE  /\ ~fault'
                    /\ \A q \in Peer :
                          /\ session'[q].state # "dangling" /\ capable'[q] # "no"
                          /\ capable'[q] = "yes" <=> requested'[q]
                          /\ capable'[q] = "unknown" /\ session'[q].state = "live"
                             => session'[q].salt = <<q, login'[q]>>
  BY <1>2 DEF NoDangling, Live, OwnSalt
<1>3. /\ ~fault
      /\ \A q \in Peer : /\ session[q].state # "dangling" /\ capable[q] # "no"
                         /\ capable[q] = "yes" <=> requested[q]
                         /\ capable[q] = "unknown" /\ session[q].state = "live"
                            => session[q].salt = <<q, login[q]>>
  BY DEF NoDangling, Live, OwnSalt
<1>4. ~fault'
  BY <1>3 DEF Does, Idle, Asks, Refuses, Goes, Moves, Removes, Leaves, ComesBack
<1>5. /\ session'[p].state # "dangling" /\ capable'[p] # "no"
      /\ capable'[p] = "yes" <=> requested'[p]
      /\ capable'[p] = "unknown" /\ session'[p].state = "live"
         => session'[p].salt = <<p, login'[p]>>
  <2>1. ~Refuses(p)
    BY <1>3 DEF Refuses, Able
  <2>2. CASE Idle(p) \/ Leaves(p)
    BY <2>2, <1>3 DEF Idle, Leaves
  <2>3. CASE Asks(p)
    BY <2>3, <1>3 DEF Asks, LiveSessions, OwnSalt
  <2>4. CASE Goes(p)
    BY <2>4, <1>1 DEF Goes, LiveSessions
  <2>5. CASE Moves(p)
    BY <2>5, <1>3 DEF Moves, Live, LiveSessions
  <2>6. CASE Removes(p)
    BY <2>6, <1>1, <1>3 DEF Removes, NoSession
  <2>7. CASE ComesBack(p)
    BY <2>7, <1>1 DEF ComesBack, NoSession
  <2> QED BY <2>1, <2>2, <2>3, <2>4, <2>5, <2>6, <2>7 DEF Does
<1> QED BY <1>1, <1>2, <1>3, <1>4, <1>5

--------------------------------------------------------------------------------
(* A salt that was not drawn yet is nowhere. *)

\* p heard nothing of the other side's peer to peer abilities and did not ask.
Silent(p) == capable[p] = "unknown" /\ session[p].state = "none"

Nowhere(s) ==
    /\ \A p \in Peer : /\ Live(p) => session[p].salt # s
                       /\ \A m \in Infos(p) : m.salt # s
    /\ \A d \in net : d.salt # s

Fresh == \A p \in Peer : Silent(p) => Nowhere(OwnSalt(p))

\* A salt that is nowhere stays so until it is drawn.
LEMMA NowhereStep ==
    ASSUME TypeOK, News, NEW p \in Peer, Does(p), ~ComesBack(p),
           NEW s, Nowhere(s), Asks(p) => s # OwnSalt(p)
    PROVE  Nowhere(s)'
<1>1. /\ Other(p) \in Peer /\ \A q \in Peer : q = p \/ q = Other(p)
  BY TwoPeers
<1>2. Live(p)' => session'[p].salt # s
  <2>1. SUFFICES ASSUME Live(p)' PROVE session'[p].salt # s
    OBVIOUS
  <2>2. ~Removes(p)
    BY <2>1 DEF Live, Removes, NoSession, TypeOK
  <2>3. CASE Goes(p)
    <3>1. Head(info[p]) \in Infos(p)
      BY <2>3, InfosDo
    <3> QED BY <2>3, <3>1 DEF Goes, Nowhere
  <2>4. CASE Asks(p)
    BY <2>4 DEF Asks
  <2>5. CASE Moves(p)
    BY <2>5 DEF Moves, Nowhere
  <2>6. CASE Refuses(p)
    BY <2>6, <2>1 DEF Refuses, Nowhere, Live, Dangling, TypeOK
  <2>7. CASE Idle(p) \/ Leaves(p)
    BY <2>7, <2>1 DEF Idle, Leaves, Nowhere, Live
  <2> QED BY <2>2, <2>3, <2>4, <2>5, <2>6, <2>7 DEF Does
<1>3. Live(Other(p))' => session'[Other(p)].salt # s
  BY <1>1, DoesAtOne DEF Nowhere, Live
<1>4. \A m \in Infos(p)' : m.salt # s
  BY InfosDo DEF Nowhere
<1>5. ASSUME NEW m \in Infos(Other(p))' PROVE m.salt # s
  <2>1. CASE m \in Infos(Other(p))
    BY <2>1, <1>1 DEF Nowhere
  <2>2. CASE m \notin Infos(Other(p))
    <3>1. CASE Asks(p)
      BY <2>2, <3>1, <1>5, InfosDo DEF Info
    <3>2. CASE Refuses(p) \/ Goes(p)
      <4>1. Head(info[p]) \in Infos(p)
        BY <3>2, InfosDo
      <4>2. \E real : m = Info(p, Head(info[p]).salt, real)
        BY <2>2, <3>2, <1>5, InfosDo
      <4> QED BY <4>1, <4>2 DEF Info, Nowhere
    <3> QED BY <2>2, <3>1, <3>2, <1>5, InfosDo DEF Does
  <2> QED BY <2>1, <2>2
<1>6. ASSUME NEW d \in net' PROVE d.salt # s
  <2>1. CASE d \in net
    BY <2>1 DEF Nowhere
  <2>2. CASE d \notin net
    <3>1. session'[p] \in LiveSessions /\ d.salt = session'[p].salt
      BY <2>2, NetDo DEF Sent
    <3> QED BY <3>1, <1>2 DEF Live, LiveSessions
  <2> QED BY <2>1, <2>2
<1> QED BY <1>1, <1>2, <1>3, <1>4, <1>5, <1>6 DEF Nowhere

\* The program that comes back draws a salt of its new login.
LEMMA NowhereNew ==
    ASSUME TypeOK, News, SaltsKnown, NetKnown, NEW p \in Peer, Does(p), ComesBack(p),
           NEW s, s = OwnSalt(p)'
    PROVE  Nowhere(s)'
<1>1. /\ Other(p) \in Peer /\ Other(p) # p /\ \A q \in Peer : q = p \/ q = Other(p)
      /\ Other(Other(p)) = p /\ login \in [Peer -> Login] /\ session \in [Peer -> Sessions]
  BY TwoPeers DEF TypeOK
<1>2. login[p] = 1 /\ s = <<p, 2>> /\ session'[p].state = "none"
      /\ session'[Other(p)] = session[Other(p)]
  BY <1>1, DoesAtOne DEF ComesBack, OwnSalt, NoSession
<1>3. ASSUME Live(Other(p)) PROVE session[Other(p)].salt # s
  <2>1. /\ session[Other(p)].salt \in {<<Other(p), login[Other(p)]>>, <<p, session[Other(p)].peer>>}
        /\ session[Other(p)].peer <= 1
    BY <1>1, <1>2, <1>3 DEF SaltsKnown, OwnSalt
  <2> QED BY <1>1, <1>2, <2>1
<1>4. ASSUME NEW m \in Infos(Other(p)) PROVE m.salt # s
  <2>1. m.salt \in {<<Other(p), login[Other(p)]>>, <<p, m.login>>}
    BY <1>1, <1>4 DEF SaltsKnown, OwnSalt
  <2>2. m.login <= 1
    BY <1>1, <1>2, <1>4, InfosAre
  <2> QED BY <1>1, <1>2, <2>1, <2>2
<1>5. ASSUME NEW d \in net PROVE d.salt # s
  BY <1>2, <1>5 DEF NetKnown
<1>6. Infos(p)' = {} /\ Infos(Other(p))' \subseteq Infos(Other(p)) /\ net' = net
  <2>1. Infos(p)' = {}
    BY EmptySeq, LenProperties DEF ComesBack, Infos, InfosOf
  <2> QED BY <2>1, InfosDo DEF ComesBack
<1> QED BY <1>1, <1>2, <1>3, <1>4, <1>5, <1>6 DEF Nowhere, Live

\* The salt of a peer who neither asked nor heard is nowhere.
LEMMA FreshStep ==
    ASSUME TypeOK, News, SaltsKnown, NetKnown, Fitting, Fresh, NEW p \in Peer, Does(p)
    PROVE  Fresh'
<1>1. /\ Other(p) \in Peer /\ Other(p) # p /\ \A q \in Peer : q = p \/ q = Other(p)
      /\ session \in [Peer -> Sessions] /\ capable \in [Peer -> {"unknown", "yes", "no"}]
  BY TwoPeers DEF TypeOK
<1>2. /\ session'[Other(p)] = session[Other(p)] /\ login'[Other(p)] = login[Other(p)]
      /\ capable'[Other(p)] = capable[Other(p)] /\ (~ComesBack(p) => login'[p] = login[p])
  BY DoesAtOne
<1>3. ASSUME NEW q \in Peer, NEW s, s = OwnSalt(q)', Silent(q)' PROVE Nowhere(s)'
  <2>1. CASE q = p /\ ComesBack(p)
    BY <1>3, <2>1, NowhereNew
  <2>2. CASE q = p /\ ~ComesBack(p)
    <3>1. s = OwnSalt(p)
      BY <1>2, <1>3, <2>2 DEF OwnSalt
    <3>2. Silent(p) /\ ~Asks(p)
      <4>1. ~Asks(p) /\ ~Goes(p) /\ ~Moves(p)
        BY <1>3, <2>2 DEF Silent, Asks, Goes, Moves, LiveSessions
      <4>2. ~Removes(p)
        BY <1>3, <2>2 DEF Silent, Removes, Fitting
      <4>3. Refuses(p) => Silent(p)
        BY <1>1, <1>3, <2>2 DEF Silent, Refuses
      <4> QED BY <1>3, <2>2, <4>1, <4>2, <4>3 DEF Does, Idle, Leaves, Silent
    <3> QED BY <2>2, <3>1, <3>2, NowhereStep DEF Fresh
  <2>3. CASE q = Other(p)
    <3>1. s = OwnSalt(q) /\ Silent(q) /\ s # OwnSalt(p)
      BY <1>1, <1>2, <1>3, <2>3 DEF OwnSalt, Silent
    <3>2. s # OwnSalt(p)'
      BY <1>1, <1>3, <2>3 DEF OwnSalt
    <3>3. CASE ComesBack(p)
      <4>1. Infos(p)' \subseteq Infos(p) /\ Infos(q)' \subseteq Infos(q) /\ net' = net
        BY <2>3, <3>3, InfosDo DEF ComesBack
      <4>2. ~Live(p)' /\ session'[q] = session[q]
        BY <1>1, <1>2, <2>3, <3>3 DEF ComesBack, Live, NoSession
      <4>3. Nowhere(s)
        BY <3>1 DEF Fresh
      <4> QED BY <1>1, <2>3, <4>1, <4>2, <4>3 DEF Nowhere, Live
    <3>4. CASE ~ComesBack(p)
      BY <3>1, <3>4, NowhereStep DEF Fresh
    <3> QED BY <3>3, <3>4
  <2> QED BY <1>1, <2>1, <2>2, <2>3
<1>4. \A q \in Peer : Silent(q)' => Nowhere(OwnSalt(q))'
  <2>1. TAKE q \in Peer
  <2>2. PICK s : s = OwnSalt(q)'
    OBVIOUS
  <2>3. Silent(q)' => Nowhere(s)'
    BY <1>3, <2>2
  <2> QED BY <2>2, <2>3 DEF Nowhere
<1> QED BY <1>4 DEF Fresh

--------------------------------------------------------------------------------
(* The order of information on its way. *)

\* The information of login l in a queue: the first has salt t, the others one of S.
Places(queue, l) == {i \in DOMAIN queue : queue[i].type = "info" /\ queue[i].login = l}
Leads(queue, l, t, S) ==
    \E i \in Places(queue, l) :
        /\ queue[i].salt = t
        /\ \A j \in Places(queue, l) : j = i \/ (i < j /\ queue[j].salt \in S)

\* The first information leads, also when more is appended,
LEMMA LeadsAppend ==
    ASSUME NEW queue \in Seq(Packets), NEW m \in Packets, NEW l, NEW t, NEW S,
           Leads(queue, l, t, S), m.type = "info" /\ m.login = l => m.salt \in S
    PROVE  Leads(Append(queue, m), l, t, S)
<1> DEFINE n == Len(queue)
           u == Append(queue, m)
<1>1. /\ n \in Nat /\ DOMAIN queue = 1..n /\ DOMAIN u = 1..(n + 1)
      /\ \A i \in 1..n : u[i] = queue[i]
      /\ u[n + 1] = m
  BY Appending
<1>2. PICK i \in Places(queue, l) :
          /\ queue[i].salt = t
          /\ \A j \in Places(queue, l) : j = i \/ (i < j /\ queue[j].salt \in S)
  BY DEF Leads
<1>3. i \in 1..n /\ i < n + 1
  BY <1>1, <1>2 DEF Places
<1>4. i \in Places(u, l) /\ u[i].salt = t
  BY <1>1, <1>2, <1>3 DEF Places
<1>5. \A j \in Places(u, l) : (j \in Places(queue, l) /\ u[j] = queue[j])
                              \/ (j = n + 1 /\ m.type = "info" /\ m.login = l)
  <2>1. TAKE j \in Places(u, l)
  <2>2. j \in 1..n \/ j = n + 1
    BY <1>1 DEF Places
  <2> QED BY <2>2, <1>1 DEF Places
<1>6. \A j \in Places(u, l) : j = i \/ (i < j /\ u[j].salt \in S)
  BY <1>1, <1>2, <1>3, <1>5
<1> HIDE DEF u
<1>7. Leads(u, l, t, S)
  BY <1>4, <1>6 DEF Leads
<1> QED BY <1>7 DEF u

\* when it is the first itself,
LEMMA LeadsFirst ==
    ASSUME NEW queue \in Seq(Packets), NEW m \in Packets, NEW l, NEW S,
           \A x \in InfosOf(queue) : x.login # l, m.type = "info", m.login = l
    PROVE  Leads(Append(queue, m), l, m.salt, S)
<1> DEFINE n == Len(queue)
           u == Append(queue, m)
<1>1. /\ n \in Nat /\ DOMAIN queue = 1..n /\ DOMAIN u = 1..(n + 1)
      /\ \A i \in 1..n : u[i] = queue[i]
      /\ u[n + 1] = m
  BY Appending
<1>2. n + 1 \in Places(u, l)
  BY <1>1 DEF Places
<1>3. \A j \in Places(u, l) : j = n + 1
  <2>1. TAKE j \in Places(u, l)
  <2>2. j \in 1..n \/ j = n + 1
    BY <1>1 DEF Places
  <2>3. j \notin 1..n
    BY <1>1, <2>1 DEF Places, InfosOf
  <2> QED BY <2>2, <2>3
<1> HIDE DEF u
<1>4. Leads(u, l, m.salt, S)
  BY <1>1, <1>2, <1>3 DEF Leads
<1> QED BY <1>4 DEF u

\* when it is taken, or something before it,
LEMMA LeadsTail ==
    ASSUME NEW queue \in Seq(Packets), queue # <<>>, NEW l, NEW t, NEW S, Leads(queue, l, t, S)
    PROVE  LET m == Head(queue)
           IN  IF m.type = "info" /\ m.login = l
               THEN m.salt = t /\ \A x \in InfosOf(Tail(queue)) : x.login = l => x.salt \in S
               ELSE Leads(Tail(queue), l, t, S)
<1> DEFINE n == Len(queue)
           u == Tail(queue)
           m == Head(queue)
<1>1. /\ n \in Nat /\ n >= 1 /\ DOMAIN queue = 1..n /\ m = queue[1]
      /\ DOMAIN u = 1..(n - 1) /\ \A i \in 1..(n - 1) : u[i] = queue[i + 1]
  BY Dropping
<1>2. PICK i \in Places(queue, l) :
          /\ queue[i].salt = t
          /\ \A j \in Places(queue, l) : j = i \/ (i < j /\ queue[j].salt \in S)
  BY DEF Leads
<1>3. i \in 1..n
  BY <1>1 DEF Places
<1>4. \A j \in Places(u, l) : j \in 1..(n - 1) /\ j + 1 \in Places(queue, l) /\ u[j] = queue[j + 1]
  <2>1. TAKE j \in Places(u, l)
  <2>2. j \in 1..(n - 1)
    BY <1>1 DEF Places
  <2>3. j + 1 \in 1..n /\ u[j] = queue[j + 1]
    BY <2>2, <1>1
  <2> QED BY <2>1, <2>2, <2>3, <1>1 DEF Places
<1>5. CASE m.type = "info" /\ m.login = l
  <2>1. 1 \in Places(queue, l)
    BY <1>1, <1>5 DEF Places
  <2>2. i = 1
    BY <1>2, <1>3, <2>1
  <2>3. m.salt = t
    BY <1>1, <1>2, <2>2
  <2>4. ASSUME NEW x \in InfosOf(u), x.login = l PROVE x.salt \in S
    <3>1. PICK j \in DOMAIN u : u[j].type = "info" /\ x = u[j]
      BY <2>4 DEF InfosOf
    <3>2. j \in Places(u, l)
      BY <2>4, <3>1 DEF Places
    <3>3. j + 1 \in Places(queue, l) /\ j + 1 # i /\ x = queue[j + 1]
      BY <1>4, <2>2, <3>1, <3>2
    <3> QED BY <3>3, <1>2
  <2> QED BY <1>5, <2>3, <2>4
<1>6. CASE ~(m.type = "info" /\ m.login = l)
  <2>1. i # 1
    BY <1>1, <1>2, <1>6 DEF Places
  <2>2. i - 1 \in 1..(n - 1) /\ (i - 1) + 1 = i
    BY <1>1, <1>3, <2>1
  <2>3. i - 1 \in Places(u, l) /\ u[i - 1].salt = t
    BY <1>1, <1>2, <2>2 DEF Places
  <2>4. \A j \in Places(u, l) : j = i - 1 \/ (i - 1 < j /\ u[j].salt \in S)
    <3>1. TAKE j \in Places(u, l)
    <3>2. j \in 1..(n - 1) /\ (j + 1 = i \/ (i < j + 1 /\ u[j].salt \in S))
      BY <1>2, <1>4
    <3> QED BY <3>2, <1>1, <1>3
  <2> HIDE DEF u
  <2>5. Leads(u, l, t, S)
    BY <2>3, <2>4 DEF Leads
  <2> QED BY <1>6, <2>5 DEF u
<1> QED BY <1>5, <1>6

\* and whatever more may follow it.
LEMMA LeadsMore ==
    ASSUME NEW queue, NEW l, NEW t, NEW S, NEW T, Leads(queue, l, t, S), S \subseteq T
    PROVE  Leads(queue, l, t, T)
  BY DEF Leads

\* What p does to the other side's queue, and to its own.
LEMMA LeadsOther ==
    ASSUME TypeOK, News, NEW p \in Peer, Does(p), NEW l, NEW t, NEW S,
           Leads(info[Other(p)], l, t, S),
           Asks(p) /\ Reaches(p) /\ login[p] = l => OwnSalt(p) \in S,
           /\ Refuses(p) \/ Goes(p)
           /\ Reaches(p) /\ login[p] = l /\ info'[Other(p)] # info[Other(p)]
           => Head(info[p]).salt \in S
    PROVE  Leads(info'[Other(p)], l, t, S)
<1>1. Other(p) \in Peer /\ info[Other(p)] \in Seq(Packets)
  BY TwoPeers DEF TypeOK
<1>2. CASE info'[Other(p)] = info[Other(p)]
  BY <1>2
<1>3. ASSUME NEW m \in Packets, info'[Other(p)] = Append(info[Other(p)], m),
             m.type = "info" /\ m.login = l => m.salt \in S
      PROVE  Leads(info'[Other(p)], l, t, S)
  <2>1. Leads(Append(info[Other(p)], m), l, t, S)
    BY <1>1, <1>3, LeadsAppend
  <2> QED BY <2>1, <1>3
<1>4. CASE Idle(p) \/ Leaves(p) \/ ComesBack(p)
  <2>1. \A n \in {0, 2} : SessionIs(n) \in Packets /\ SessionIs(n).type # "info"
    BY PacketsAre DEF SessionIs, Login
  <2> QED BY <2>1, <1>2, <1>3, <1>4 DEF Idle, Leaves, ComesBack, Gave
<1>5. CASE Asks(p)
  <2> DEFINE ask == Info(p, OwnSalt(p), TRUE)
             queue == Append(info[Other(p)], ask)
  <2>1. ask \in Packets /\ ask.salt = OwnSalt(p) /\ ask.login = login[p]
    BY PacketsAre, LiveTyped DEF Info
  <2> HIDE DEF ask
  <2>2. ASSUME Reaches(p), NEW m \in Packets, m.type # "info", info'[Other(p)] = Append(queue, m)
        PROVE  Leads(info'[Other(p)], l, t, S)
    <3>1. queue \in Seq(Packets) /\ Leads(queue, l, t, S)
      BY <1>1, <1>5, <2>1, <2>2, LeadsAppend, AppendProperties
    <3> HIDE DEF queue
    <3>2. Leads(Append(queue, m), l, t, S)
      BY <2>2, <3>1, LeadsAppend
    <3> QED BY <2>2, <3>2
  <2> QED BY <1>2, <1>5, <2>2 DEF Asks, ask
<1>6. CASE Refuses(p) \/ Goes(p)
  <2> DEFINE h == Head(info[p])
  <2>1. h \in Infos(p)
    BY <1>6, InfosDo
  <2>2. \A real \in BOOLEAN : /\ Info(p, h.salt, real) \in Packets
                              /\ Info(p, h.salt, real).salt = h.salt
                              /\ Info(p, h.salt, real).login = login[p]
    BY <2>1, InfosAre, PacketsAre DEF Info
  <2>3. \/ info'[Other(p)] = info[Other(p)]
        \/ \E real \in BOOLEAN : Gave(p, Info(p, h.salt, real))
    BY <1>6 DEF Refuses, Goes
  <2> HIDE DEF h
  <2> QED BY <1>2, <1>3, <1>6, <2>2, <2>3 DEF Gave, h
<1>7. CASE Moves(p) \/ Removes(p)
  BY <1>2, <1>7 DEF Moves, Removes
<1> QED BY <1>4, <1>5, <1>6, <1>7 DEF Does

\* A request leads if the other side heard nothing before.
LEMMA AskLeads ==
    ASSUME TypeOK, NEW p \in Peer, Asks(p), Reaches(p), NEW S,
           \A x \in Infos(Other(p)) : x.login # login[p]
    PROVE  Leads(info'[Other(p)], login[p], OwnSalt(p), S)
<1> DEFINE q == Other(p)
           ask == Info(p, OwnSalt(p), TRUE)
           queue == Append(info[q], ask)
<1>1. /\ ask \in Packets /\ ask.salt = OwnSalt(p) /\ ask.login = login[p] /\ ask.type = "info"
      /\ info[q] \in Seq(Packets) /\ \A x \in InfosOf(info[q]) : x.login # login[p]
  BY TwoPeers, PacketsAre, LiveTyped DEF Info, TypeOK, Infos
<1>2. PICK m \in Packets : m.type # "info" /\ info'[q] = Append(queue, m)
  BY DEF Asks
<1> HIDE DEF ask
<1>3. queue \in Seq(Packets) /\ Leads(queue, login[p], OwnSalt(p), S)
  <2>1. queue \in Seq(Packets)
    BY <1>1, Appending
  <2>2. Leads(queue, login[p], ask.salt, S)
    BY <1>1, LeadsFirst
  <2> QED BY <2>1, <2>2, <1>1
<1> HIDE DEF queue
<1>4. Leads(Append(queue, m), login[p], OwnSalt(p), S)
  BY <1>2, <1>3, LeadsAppend
<1> QED BY <1>2, <1>4

\* What a step does to the queue of who acts.
LEMMA LeadsOwn ==
    ASSUME TypeOK, News, NEW p \in Peer, Does(p), ~Leaves(p), ~ComesBack(p),
           NEW l, NEW t, NEW S, Leads(info[p], l, t, S)
    PROVE  \/ Leads(info'[p], l, t, S)
           \/ /\ Refuses(p) \/ Goes(p)
              /\ Head(info[p]).login = l /\ Head(info[p]).salt = t
              /\ \A m \in Infos(p)' : m.login = l => m.salt \in S
<1>1. info[p] \in Seq(Packets)
  BY DEF TypeOK
<1>2. CASE info'[p] = info[p]
  BY <1>2
<1>3. CASE Idle(p) /\ info'[p] # info[p]
  <2>1. info[p] # <<>> /\ info'[p] = Tail(info[p]) /\ Head(info[p]).type # "info"
    BY <1>3 DEF Idle, Took
  <2>2. Leads(Tail(info[p]), l, t, S)
    BY <1>1, <2>1, LeadsTail
  <2> QED BY <2>1, <2>2
<1>4. CASE Refuses(p) \/ Goes(p)
  <2>1. info[p] # <<>> /\ info'[p] = Tail(info[p])
    BY <1>4 DEF Refuses, Goes, Took
  <2>2. \/ Leads(Tail(info[p]), l, t, S)
        \/ /\ Head(info[p]).login = l /\ Head(info[p]).salt = t
           /\ \A m \in InfosOf(Tail(info[p])) : m.login = l => m.salt \in S
    BY <1>1, <2>1, LeadsTail
  <2>3. Infos(p)' = InfosOf(Tail(info[p]))
    BY <2>1 DEF Infos, InfosOf
  <2> QED BY <1>4, <2>1, <2>2, <2>3
<1> QED BY <1>2, <1>3, <1>4 DEF Does, Asks, Moves, Removes

--------------------------------------------------------------------------------
(* Two compatible peers. *)

\* How a session begins, goes on and ends, if both are compatible.
LEMMA AbleDo ==
    ASSUME TypeOK, News, Fitting, NoDangling, Able, NEW p \in Peer, Does(p)
    PROVE  /\ ~Refuses(p)
           /\ Asks(p) => /\ Silent(p) /\ Live(p)' /\ sid[p] = session'[p].peer
                         /\ session'[p].salt = OwnSalt(p) /\ capable'[p] = "unknown"
                         /\ gone' = gone
           /\ Goes(p) => /\ Live(p)' /\ capable'[p] = "yes" /\ gone' = gone
                         /\ Head(info[p]) \in Infos(p) /\ Head(info[p]).login = sid[p]
           /\ Live(p) /\ Live(p)' => /\ session'[p].peer = session[p].peer
                                     /\ session'[p].salt = session[p].salt /\ ~Asks(p)
           /\ Live(p) /\ ~Live(p)' => (Removes(p) /\ capable[p] = "yes") \/ ComesBack(p)
           /\ ~Live(p) /\ Live(p)' => /\ session'[p].peer = sid[p]
                                      /\ Asks(p) \/ (Goes(p) /\ session'[p].salt = Head(info[p]).salt)
           /\ ~ComesBack(p) => capable'[p] = capable[p] \/ (Goes(p) /\ capable'[p] = "yes")
           /\ Removes(p) => Live(p)
<1>1. session \in [Peer -> Sessions] /\ capable \in [Peer -> {"unknown", "yes", "no"}]
  BY DEF TypeOK
<1>2. ~Refuses(p)
  BY DEF NoDangling, Refuses, Able
<1>3. Asks(p) => /\ Silent(p) /\ Live(p)' /\ sid[p] = session'[p].peer
                 /\ session'[p].salt = OwnSalt(p) /\ capable'[p] = "unknown" /\ gone' = gone
  BY DEF Asks, Silent, Live, LiveSessions
<1>4. Goes(p) => /\ Live(p)' /\ capable'[p] = "yes" /\ gone' = gone
                 /\ Head(info[p]) \in Infos(p) /\ Head(info[p]).login = sid[p]
  BY <1>1, InfosDo DEF Goes, Live, LiveSessions
<1>5. Removes(p) => Live(p) /\ capable[p] = "yes" /\ ~Live(p)'
  BY <1>1 DEF Removes, Fitting, Live, NoSession
<1>6. ComesBack(p) => ~Live(p)'
  BY <1>1 DEF ComesBack, Live, NoSession
<1>7. Idle(p) \/ Leaves(p) => session'[p] = session[p] /\ capable'[p] = capable[p]
  BY DEF Idle, Leaves
<1>8. Moves(p) => /\ Live(p) /\ Live(p)' /\ session'[p].peer = session[p].peer
                  /\ session'[p].salt = session[p].salt /\ capable'[p] = capable[p]
  BY DEF Moves, Live, LiveSessions
<1>9. Live(p) /\ Live(p)' => /\ session'[p].peer = session[p].peer
                             /\ session'[p].salt = session[p].salt /\ ~Asks(p)
  <2>1. ~(Asks(p) /\ Live(p))
    BY DEF Asks, Live
  <2>2. Goes(p) /\ Live(p) => /\ session'[p].peer = session[p].peer
                              /\ session'[p].salt = session[p].salt
    BY DEF Goes
  <2> QED BY <1>2, <1>5, <1>6, <1>7, <1>8, <2>1, <2>2 DEF Does
<1>10. Live(p) /\ ~Live(p)' => (Removes(p) /\ capable[p] = "yes") \/ ComesBack(p)
  BY <1>2, <1>3, <1>4, <1>5, <1>7, <1>8 DEF Does, Live
<1>11. ~Live(p) /\ Live(p)' => /\ session'[p].peer = sid[p]
                               /\ Asks(p) \/ (Goes(p) /\ session'[p].salt = Head(info[p]).salt)
  <2>1. Goes(p) /\ ~Live(p) => /\ session'[p].peer = sid[p]
                               /\ session'[p].salt = Head(info[p]).salt
    BY DEF Goes
  <2> QED BY <1>2, <1>3, <1>5, <1>6, <1>7, <1>8, <2>1 DEF Does, Live
<1>12. ~ComesBack(p) => capable'[p] = capable[p] \/ (Goes(p) /\ capable'[p] = "yes")
  <2>1. Asks(p) \/ Removes(p) => capable'[p] = capable[p]
    BY DEF Asks, Removes
  <2> QED BY <1>2, <1>4, <1>7, <1>8, <2>1 DEF Does
<1> QED BY <1>2, <1>3, <1>4, <1>5, <1>9, <1>10, <1>11, <1>12

\* A datagram of the present login is of one who knows the other to be capable.
Pinged == Able => \A d \in net : d.login = login[d.from] => capable[d.from] = "yes"

\* Who pings between compatible peers was told.
LEMMA PingedStep ==
    ASSUME TypeOK, TypeOK', News, NetKnown, Fitting, Fitting', NoDangling, Pinged,
           NEW p \in Peer, Does(p)
    PROVE  Pinged'
<1>1. /\ Other(p) \in Peer /\ Other(p) # p /\ \A q \in Peer : q = p \/ q = Other(p)
      /\ login \in [Peer -> Login]
  BY TwoPeers DEF TypeOK
<1>2. /\ login'[Other(p)] = login[Other(p)] /\ capable'[Other(p)] = capable[Other(p)]
      /\ ~ComesBack(p) => login'[p] = login[p]
      /\ Able' <=> Able
  BY DoesAtOne DEF Able, Open, Enabled
<1> SUFFICES ASSUME Able, NEW d \in net', d.login = login'[d.from]
             PROVE  capable'[d.from] = "yes"
  BY <1>2 DEF Pinged
<1>3. CASE d \notin net
  <2>1. /\ d.from = p /\ session'[p] \in LiveSessions
        /\ session'[p].reach = login[Other(p)]
    BY <1>3, NetDo DEF Sent
  <2>2. Live(p)' /\ session'[p].reach # 0
    BY <1>1, <2>1 DEF Live, LiveSessions, Login
  <2> QED BY <2>1, <2>2 DEF Fitting
<1>4. CASE d \in net /\ d.from = Other(p)
  BY <1>2, <1>4 DEF Pinged
<1>5. CASE d \in net /\ d.from = p
  <2>1. ~ComesBack(p)
    <3>1. SUFFICES ASSUME ComesBack(p) PROVE FALSE
      OBVIOUS
    <3>2. login[p] = 1 /\ login'[p] = 2 /\ d.login <= login[p]
      BY <1>1, <1>5, <3>1 DEF ComesBack, NetKnown
    <3> QED BY <1>5, <3>2
  <2>2. capable[p] = "yes"
    BY <1>2, <1>5, <2>1 DEF Pinged
  <2> QED BY <1>5, <2>1, <2>2, AbleDo
<1>6. d \in net => d.from \in Peer
  BY DEF TypeOK
<1> QED BY <1>1, <1>3, <1>4, <1>5, <1>6

\* Information of the other side's present login on its way to p.
PresentInfos(p) == {m \in Infos(p) : m.login = login[Other(p)]}

\* Nobody heard of the present login of a silent peer; what he will hear, if he is
\* there, is the one request that the other side's session began with.
Unheard ==
    Able => \A p \in Peer :
        Silent(p) =>
            LET q == Other(p)
            IN  /\ PresentInfos(q) = {}
                /\ Current(q) => capable[q] = "unknown"
                /\ Current(q) /\ p \notin gone => Leads(info[p], login[q], OwnSalt(q), {})
                /\ PresentInfos(p) # {} => Current(q)

\* The actor is the silent one.
LEMMA UnheardSelf ==
    ASSUME TypeOK, News, SaltsKnown, Fitting, NoDangling, Unheard, Able,
           NEW p \in Peer, Does(p), Silent(p)', NEW q, q = Other(p)
    PROVE  /\ PresentInfos(q)' = {}
           /\ Current(q)' => capable'[q] = "unknown"
           /\ Current(q)' /\ p \notin gone' => Leads(info'[p], login'[q], OwnSalt(q)', {})
           /\ PresentInfos(p)' # {} => Current(q)'
<1>1. /\ q \in Peer /\ q # p /\ Other(q) = p
      /\ login \in [Peer -> Login] /\ session \in [Peer -> Sessions]
  BY TwoPeers DEF TypeOK
<1>2. /\ session'[q] = session[q] /\ login'[q] = login[q] /\ capable'[q] = capable[q]
      /\ ~ComesBack(p) => login'[p] = login[p]
  BY DoesAtOne
<1>3. ~Asks(p) /\ ~Goes(p) /\ ~Moves(p) /\ ~Refuses(p)
  BY AbleDo DEF Silent, Asks, Goes, Moves, LiveSessions
<1>4. ~Removes(p)
  BY DEF Removes, Silent, Fitting
<1>5. CASE ComesBack(p)
  <2>1. login[p] = 1 /\ login'[p] = 2 /\ Infos(p)' = {}
    BY <1>1, <1>5, EmptySeq, LenProperties DEF ComesBack, Infos, InfosOf
  <2>2. PresentInfos(q)' = {}
    <3>1. \A m \in Infos(q)' : m.login <= 1
      BY <1>1, <1>5, <2>1, InfosDo, InfosAre
    <3> QED BY <1>1, <2>1, <3>1 DEF PresentInfos
  <2>3. ~Current(q)'
    <3>1. Live(q) => session[q].peer <= 1
      BY <1>1, <2>1 DEF SaltsKnown
    <3> QED BY <1>1, <1>2, <2>1, <3>1 DEF Current, Live
  <2> QED BY <2>1, <2>2, <2>3 DEF PresentInfos
<1>6. CASE Idle(p) \/ Leaves(p)
  <2>1. /\ UNCHANGED <<login, session, capable>> /\ Silent(p)
        /\ Infos(p)' \subseteq Infos(p) /\ Infos(q)' \subseteq Infos(q)
    BY <1>6, InfosDo DEF Idle, Leaves, Silent
  <2>2. /\ PresentInfos(q) = {} /\ (Current(q) => capable[q] = "unknown")
        /\ Current(q) /\ p \notin gone => Leads(info[p], login[q], OwnSalt(q), {})
        /\ PresentInfos(p) # {} => Current(q)
    BY <2>1 DEF Unheard
  <2>3. (Current(q)' <=> Current(q)) /\ OwnSalt(q)' = OwnSalt(q)
    BY <2>1 DEF Current, Live, OwnSalt
  <2>4. /\ PresentInfos(q)' \subseteq PresentInfos(q)
        /\ PresentInfos(p)' \subseteq PresentInfos(p)
    BY <2>1 DEF PresentInfos
  <2>5. ASSUME Current(q)', p \notin gone' PROVE Leads(info'[p], login[q], OwnSalt(q), {})
    <3>1. ~Leaves(p) /\ p \notin gone /\ ~ComesBack(p)
      <4>1. ~Leaves(p)
        BY <2>5 DEF Leaves
      <4>2. ~ComesBack(p)
        BY <1>1, <2>1 DEF ComesBack
      <4> QED BY <4>1, <4>2, <1>6, <2>5 DEF Idle
    <3>2. Leads(info[p], login[q], OwnSalt(q), {})
      BY <2>2, <2>3, <2>5, <3>1
    <3> QED BY <1>3, <3>1, <3>2, LeadsOwn
  <2> QED BY <2>1, <2>2, <2>3, <2>4, <2>5
<1> QED BY <1>3, <1>4, <1>5, <1>6 DEF Does

\* The actor is the other one.
LEMMA UnheardOther ==
    ASSUME TypeOK, News, SaltsKnown, UpToDate, Fitting, NoDangling, Unheard, Able,
           NEW p \in Peer, Does(p), NEW r, r = Other(p), Silent(r)'
    PROVE  /\ PresentInfos(p)' = {}
           /\ Current(p)' => capable'[p] = "unknown"
           /\ Current(p)' /\ r \notin gone' => Leads(info'[r], login'[p], OwnSalt(p)', {})
           /\ PresentInfos(r)' # {} => Current(p)'
<1>1. /\ r \in Peer /\ r # p /\ Other(r) = p /\ p \in Peer
      /\ login \in [Peer -> Login] /\ session \in [Peer -> Sessions]
      /\ info[r] \in Seq(Packets)
  BY TwoPeers DEF TypeOK
<1>2. /\ session'[r] = session[r] /\ login'[r] = login[r] /\ capable'[r] = capable[r]
      /\ ~ComesBack(p) => login'[p] = login[p]
  BY DoesAtOne
<1>3. Silent(r)
  BY <1>2 DEF Silent
<1>4. /\ PresentInfos(p) = {}
      /\ Current(p) => capable[p] = "unknown"
      /\ Current(p) /\ r \notin gone => Leads(info[r], login[p], OwnSalt(p), {})
      /\ PresentInfos(r) # {} => Current(p)
  BY <1>1, <1>3 DEF Unheard
<1>5. PresentInfos(p)' = {}
  <2>1. Infos(p)' \subseteq Infos(p)
    BY InfosDo
  <2> QED BY <2>1, <1>2, <1>4 DEF PresentInfos
\* What p goes on with is not of a present login.
<1>6. Goes(p) => sid[p] # login[r]
  BY <1>4, AbleDo DEF PresentInfos
<1>7. Goes(p) => ~Current(p)'
  <2>1. SUFFICES ASSUME Goes(p), Current(p)' PROVE FALSE
    OBVIOUS
  <2>2. Live(p)' /\ session'[p].peer = login[r]
    BY <1>2, <2>1 DEF Current
  <2>3. Live(p) /\ session[p].peer = login[r]
    BY <2>1, <2>2, <1>6, AbleDo
  <2>4. Current(p) /\ Head(info[p]) \in Infos(p) /\ Head(info[p]).login = sid[p]
    BY <2>1, <2>3, AbleDo DEF Current
  <2> QED BY <2>1, <2>4, <1>6 DEF UpToDate
<1>8. Current(p)' => capable'[p] = "unknown"
  <2>1. SUFFICES ASSUME Current(p)' PROVE capable'[p] = "unknown"
    OBVIOUS
  <2>2. Live(p)' /\ session'[p].peer = login[r] /\ ~ComesBack(p) /\ ~Goes(p)
    <3>1. Live(p)' /\ session'[p].peer = login[r]
      BY <2>1, <1>2 DEF Current
    <3>2. ~ComesBack(p)
      BY <1>1, <3>1 DEF ComesBack, Live, NoSession
    <3> QED BY <2>1, <3>1, <3>2, <1>7
  <2>3. CASE Live(p)
    <3>1. Current(p)
      BY <2>2, <2>3, AbleDo DEF Current
    <3> QED BY <3>1, <2>2, <1>4, AbleDo
  <2>4. CASE ~Live(p)
    BY <2>2, <2>4, AbleDo
  <2> QED BY <2>3, <2>4
<1>9. Current(p)' /\ r \notin gone' => Leads(info'[r], login'[p], OwnSalt(p)', {})
  <2>1. SUFFICES ASSUME Current(p)', r \notin gone'
                 PROVE  Leads(info'[r], login'[p], OwnSalt(p)', {})
    OBVIOUS
  <2>2. Live(p)' /\ session'[p].peer = login[r] /\ ~ComesBack(p) /\ ~Goes(p) /\ ~Refuses(p)
    <3>1. Live(p)' /\ session'[p].peer = login[r]
      BY <2>1, <1>2 DEF Current
    <3>2. ~ComesBack(p)
      BY <1>1, <3>1 DEF ComesBack, Live, NoSession
    <3> QED BY <2>1, <3>1, <3>2, <1>7, AbleDo
  <2>3. login'[p] = login[p] /\ OwnSalt(p)' = OwnSalt(p)
    BY <1>2, <2>2 DEF OwnSalt
  <2>4. CASE Asks(p)
    <3>1. sid[p] = login[r] /\ r \notin gone /\ ~Live(p)
      BY <2>1, <2>2, <2>4, AbleDo DEF Silent, Live
    <3>2. Reaches(p) /\ ~Current(p)
      BY <3>1 DEF Reaches, Current
    <3>3. \A x \in Infos(r) : x.login # login[p]
      BY <1>1, <1>4, <3>2 DEF PresentInfos
    <3>4. Leads(info'[r], login[p], OwnSalt(p), {})
      BY <2>4, <3>2, <3>3, AskLeads
    <3> QED BY <2>3, <3>4
  <2>5. CASE ~Asks(p)
    <3>1. Live(p) /\ Current(p)
      BY <2>2, <2>5, AbleDo DEF Current
    <3>2. r \notin gone
      BY <2>1, <2>2 DEF Does, Idle, Asks, Moves, Removes, Leaves
    <3>3. Leads(info[r], login[p], OwnSalt(p), {})
      BY <1>4, <3>1, <3>2
    <3>4. Leads(info'[r], login[p], OwnSalt(p), {})
      BY <2>2, <2>5, <3>3, LeadsOther
    <3> QED BY <2>3, <3>4
  <2> QED BY <2>4, <2>5
<1>10. PresentInfos(r)' # {} => Current(p)'
  <2>1. SUFFICES ASSUME NEW m \in Infos(r)', m.login = login'[p] PROVE Current(p)'
    BY <1>1 DEF PresentInfos
  <2>2. CASE m \in Infos(r)
    <3>1. m.login \in Login /\ m.login <= login[p]
      BY <1>1, <2>2, InfosAre
    <3>2. ~ComesBack(p)
      BY <1>1, <2>1, <3>1 DEF ComesBack
    <3>3. Current(p) /\ capable[p] = "unknown"
      BY <1>1, <1>2, <1>4, <2>1, <2>2, <3>2 DEF PresentInfos
    <3>4. Live(p)'
      BY <3>2, <3>3, AbleDo DEF Current
    <3> QED BY <1>2, <3>3, <3>4, AbleDo DEF Current
  <2>3. CASE m \notin Infos(r)
    <3>1. (Asks(p) \/ Goes(p)) /\ Reaches(p)
      BY <2>1, <2>3, InfosDo, AbleDo DEF Does
    <3>2. Asks(p) /\ sid[p] = login[r]
      BY <3>1, <1>6 DEF Reaches
    <3> QED BY <3>2, <1>2, AbleDo DEF Current
  <2> QED BY <2>2, <2>3
<1> QED BY <1>5, <1>8, <1>9, <1>10

\* A step of the other side is the request, or says nothing.
LEMMA UnheardStep ==
    ASSUME TypeOK, News, SaltsKnown, UpToDate, Fitting, NoDangling, Unheard,
           NEW p \in Peer, Does(p)
    PROVE  Unheard'
<1>1. Other(p) \in Peer /\ Other(Other(p)) = p /\ \A q \in Peer : q = p \/ q = Other(p)
  BY TwoPeers
<1>2. Able' <=> Able
  BY DoesAtOne DEF Able, Open, Enabled
<1>3. ASSUME Able, Silent(p)'
      PROVE  /\ PresentInfos(Other(p))' = {}
             /\ Current(Other(p))' => capable'[Other(p)] = "unknown"
             /\ Current(Other(p))' /\ p \notin gone'
                => Leads(info'[p], login'[Other(p)], OwnSalt(Other(p))', {})
             /\ PresentInfos(p)' # {} => Current(Other(p))'
  BY <1>3, UnheardSelf
<1>4. ASSUME Able, Silent(Other(p))'
      PROVE  /\ PresentInfos(p)' = {}
             /\ Current(p)' => capable'[p] = "unknown"
             /\ Current(p)' /\ Other(p) \notin gone'
                => Leads(info'[Other(p)], login'[p], OwnSalt(p)', {})
             /\ PresentInfos(Other(p))' # {} => Current(p)'
  BY <1>4, UnheardOther
<1> QED BY <1>1, <1>2, <1>3, <1>4 DEF Unheard

--------------------------------------------------------------------------------
(* Two requests that cross. *)

\* A salt is in use by a session or information between the present logins.
InUse(s) ==
    \E p \in Peer : \/ Current(p) /\ session[p].salt = s
                    \/ \E m \in PresentInfos(p) : m.salt = s

\* If both asked, each has a session with a salt of its own and the other's request
\* is the first thing it hears, or was; all that follows answers its own.  So no
\* ping of one is for the session of the other.
Crossed(p) ==
    LET q == Other(p)
    IN  /\ Current(p) => session[p].salt = OwnSalt(p)
        /\ capable[p] = "unknown" =>
              /\ Current(p)
              /\ p \notin gone => Leads(info[p], login[q], OwnSalt(q), {OwnSalt(p)})
        /\ capable[p] # "unknown" => \A m \in PresentInfos(p) : m.salt = OwnSalt(p)
        /\ \A d \in net : d.from = p /\ d.login = login[p] => d.salt # OwnSalt(q)

Crossing == Able /\ (\A p \in Peer : InUse(OwnSalt(p))) => \A p \in Peer : Crossed(p)

\* A salt comes into use by a request.
LEMMA UsedBefore ==
    ASSUME TypeOK, News, Fitting, NoDangling, Able, NEW p \in Peer, Does(p),
           ~ComesBack(p), ~Asks(p), NEW s, InUse(s)'
    PROVE  InUse(s)
<1>1. /\ Other(p) \in Peer /\ Other(p) # p /\ Other(Other(p)) = p
      /\ \A q \in Peer : q = p \/ q = Other(p)
  BY TwoPeers
<1>2. /\ session'[Other(p)] = session[Other(p)] /\ login'[Other(p)] = login[Other(p)]
      /\ login'[p] = login[p]
  BY DoesAtOne
<1>3. /\ Infos(p)' \subseteq Infos(p)
      /\ \A m \in Infos(Other(p))' : m \in Infos(Other(p))
            \/ (Goes(p) /\ sid[p] = login[Other(p)] /\ m.salt = Head(info[p]).salt)
  <2>1. Infos(p)' \subseteq Infos(p)
    BY InfosDo
  <2>2. ASSUME NEW m \in Infos(Other(p))', m \notin Infos(Other(p))
        PROVE  Goes(p) /\ sid[p] = login[Other(p)] /\ m.salt = Head(info[p]).salt
    <3>1. Goes(p) /\ Reaches(p) /\ \E real : m = Info(p, Head(info[p]).salt, real)
      BY <2>2, InfosDo, AbleDo DEF Does
    <3> QED BY <3>1 DEF Reaches, Info
  <2> QED BY <2>1, <2>2
<1>4. Goes(p) /\ sid[p] = login[Other(p)] => InUse(Head(info[p]).salt)
  BY AbleDo DEF InUse, PresentInfos
<1>5. Current(p)' => InUse(session'[p].salt)
  <2>1. SUFFICES ASSUME Current(p)' PROVE InUse(session'[p].salt)
    OBVIOUS
  <2>2. Live(p)' /\ session'[p].peer = login[Other(p)]
    BY <2>1, <1>2 DEF Current
  <2>3. CASE Live(p)
    <3>1. Current(p) /\ session'[p].salt = session[p].salt
      BY <2>2, <2>3, AbleDo DEF Current
    <3> QED BY <3>1 DEF InUse
  <2>4. CASE ~Live(p)
    <3>1. Goes(p) /\ sid[p] = login[Other(p)] /\ session'[p].salt = Head(info[p]).salt
      BY <2>2, <2>4, AbleDo
    <3> QED BY <3>1, <1>4
  <2> QED BY <2>3, <2>4
<1>6. CASE Current(p)' /\ session'[p].salt = s
  BY <1>5, <1>6
<1>7. CASE Current(Other(p))' /\ session'[Other(p)].salt = s
  BY <1>1, <1>2, <1>7 DEF Current, Live, InUse
<1>8. CASE \E m \in PresentInfos(p)' : m.salt = s
  BY <1>2, <1>3, <1>8 DEF PresentInfos, InUse
<1>9. CASE \E m \in PresentInfos(Other(p))' : m.salt = s
  <2>1. PICK m \in Infos(Other(p))' : m.login = login[p] /\ m.salt = s
    BY <1>1, <1>2, <1>9 DEF PresentInfos
  <2>2. CASE m \in Infos(Other(p))
    BY <1>1, <2>1, <2>2 DEF PresentInfos, InUse
  <2> QED BY <1>3, <1>4, <2>1, <2>2
<1> QED BY <1>1, <1>6, <1>7, <1>8, <1>9 DEF InUse

\* A request crosses one of the other side that is not handled yet.
LEMMA CrossedAsk ==
    ASSUME TypeOK, News, NetKnown, Fitting, NoDangling, Fresh, Pinged, Unheard, Able,
           NEW p \in Peer, Does(p), Asks(p),
           InUse(OwnSalt(p))', InUse(OwnSalt(Other(p)))'
    PROVE  Crossed(p)' /\ Crossed(Other(p))'
<1> DEFINE q == Other(p)
<1>1. q \in Peer /\ q # p /\ Other(q) = p /\ \A r \in Peer : r = p \/ r = q
  BY TwoPeers
<1>2. /\ session'[q] = session[q] /\ login' = login /\ net' = net /\ gone' = gone
      /\ capable'[q] = capable[q] /\ info'[p] = info[p]
  BY DoesAtOne DEF Asks
<1>3. /\ Silent(p) /\ Live(p)' /\ session'[p].peer = sid[p] /\ session'[p].salt = OwnSalt(p)
      /\ capable'[p] = "unknown"
  BY AbleDo
<1> DEFINE a == OwnSalt(p)
           b == OwnSalt(q)
<1>4. a # b /\ OwnSalt(p)' = a /\ OwnSalt(q)' = b
  BY <1>1, <1>2 DEF OwnSalt
<1>5. Nowhere(a)
  BY <1>3 DEF Fresh
<1>6. /\ PresentInfos(q) = {} /\ (Current(q) => capable[q] = "unknown")
      /\ Current(q) /\ p \notin gone => Leads(info[p], login[q], b, {})
      /\ PresentInfos(p) # {} => Current(q)
  BY <1>3 DEF Unheard
<1>7. Infos(p)' \subseteq Infos(p)
  BY InfosDo
<1>8. \A m \in Infos(q)' : m \in Infos(q) \/ (Reaches(p) /\ m.salt = a)
  BY InfosDo DEF Info
<1>9. Current(q)' <=> Current(q)
  BY <1>1, <1>2 DEF Current, Live
<1>10. PresentInfos(p)' \subseteq PresentInfos(p)
  BY <1>2, <1>7 DEF PresentInfos
<1>11. \A m \in PresentInfos(q)' : Reaches(p) /\ m.salt = a
  BY <1>2, <1>6, <1>8 DEF PresentInfos
<1> HIDE DEF a, b, q
<1>12. sid[p] = login[q]
  <2>1. PICK x \in Peer : \/ Current(x)' /\ session'[x].salt = a
                          \/ \E m \in PresentInfos(x)' : m.salt = a
    BY <1>4 DEF InUse, a
  <2>2. CASE x = p
    <3>1. \A m \in PresentInfos(p) : m.salt # a
      BY <1>5 DEF Nowhere, PresentInfos
    <3>2. Current(p)'
      BY <2>1, <2>2, <3>1, <1>10
    <3> QED BY <3>2, <1>2, <1>3 DEF Current, q
  <2>3. CASE x = q
    <3>1. Current(q)' => session'[q].salt # a
      BY <1>1, <1>2, <1>5, <1>9 DEF Nowhere, Current
    <3>2. Reaches(p)
      BY <2>1, <2>3, <3>1, <1>11
    <3> QED BY <3>2 DEF Reaches, q
  <2> QED BY <1>1, <2>1, <2>2, <2>3
<1>13. Current(p)'
  BY <1>2, <1>3, <1>12 DEF Current, q
<1>14. Current(q)
  <2>1. PICK x \in Peer : \/ Current(x)' /\ session'[x].salt = b
                          \/ \E m \in PresentInfos(x)' : m.salt = b
    BY <1>4 DEF InUse, b, q
  <2>2. CASE x = p
    BY <2>1, <2>2, <1>3, <1>4, <1>6, <1>10 DEF a
  <2>3. CASE x = q
    BY <2>1, <2>3, <1>4, <1>9, <1>11
  <2> QED BY <1>1, <2>1, <2>2, <2>3
<1>15. capable[q] = "unknown" /\ session[q].salt = b
  BY <1>1, <1>6, <1>14 DEF NoDangling, Current, b
<1>16. Crossed(p)'
  <2>1. p \notin gone => Leads(info'[p], login[q], b, {a})
    BY <1>2, <1>6, <1>14, LeadsMore
  <2>2. \A d \in net : ~(d.from = p /\ d.login = login[p])
    BY <1>3 DEF Pinged, Silent
  <2>3. session'[p].salt = a
    BY <1>3 DEF a
  <2> QED BY <1>1, <1>2, <1>3, <1>4, <1>13, <2>1, <2>2, <2>3 DEF Crossed, q
<1>17. Crossed(q)'
  <2>1. q \notin gone => Leads(info'[q], login[p], a, {b})
    <3>1. q \notin gone => Reaches(p)
      BY <1>12 DEF Reaches, q
    <3>2. \A x \in Infos(q) : x.login # login[p]
      BY <1>1, <1>6 DEF PresentInfos
    <3> QED BY <3>1, <3>2, AskLeads DEF a, q
  <2>2. \A d \in net : d.salt # a
    BY <1>5 DEF Nowhere
  <2> QED BY <1>1, <1>2, <1>4, <1>9, <1>14, <1>15, <2>1, <2>2 DEF Crossed
<1> QED BY <1>16, <1>17 DEF q

\* Otherwise both were in use before: what the actor does with its own,
LEMMA CrossedOwn ==
    ASSUME TypeOK, TypeOK', News, SaltsKnown', UpToDate, Fitting, NoDangling, Able,
           NEW p \in Peer, Does(p), ~ComesBack(p), ~Asks(p), Crossed(p)
    PROVE  Crossed(p)'
<1> DEFINE q == Other(p)
           a == OwnSalt(p)
           b == OwnSalt(q)
<1>1. q \in Peer /\ q # p /\ Other(q) = p /\ \A r \in Peer : r = p \/ r = q
  BY TwoPeers
<1>2. login'[p] = login[p] /\ login'[q] = login[q] /\ Infos(p)' \subseteq Infos(p)
  BY DoesAtOne, InfosDo
<1>3. a # b /\ OwnSalt(p)' = a /\ OwnSalt(q)' = b
  BY <1>1, <1>2 DEF OwnSalt
<1>4. /\ Current(p) => session[p].salt = a
      /\ capable[p] = "unknown" =>
            Current(p) /\ (p \notin gone => Leads(info[p], login[q], b, {a}))
      /\ capable[p] # "unknown" => \A m \in PresentInfos(p) : m.salt = a
  BY DEF Crossed
<1> HIDE DEF a, b, q
<1>5. Current(p)' => session'[p].salt = a
  <2>1. SUFFICES ASSUME Current(p)' PROVE session'[p].salt = a
    OBVIOUS
  <2>2. Live(p)' /\ session'[p].peer = login[q]
    BY <2>1, <1>2 DEF Current, q
  <2>3. CASE Live(p)
    <3>1. Current(p) /\ session'[p].salt = session[p].salt
      BY <2>2, <2>3, AbleDo DEF Current, q
    <3> QED BY <3>1, <1>4
  <2>4. CASE ~Live(p)
    <3>1. Goes(p) /\ sid[p] = login[q] /\ session'[p].salt = Head(info[p]).salt
      BY <2>2, <2>4, AbleDo
    <3>2. Head(info[p]) \in PresentInfos(p)
      BY <3>1, AbleDo DEF PresentInfos, q
    <3>3. ~Current(p)
      BY <2>4 DEF Current
    <3> QED BY <3>1, <3>2, <3>3, <1>4
  <2> QED BY <2>3, <2>4
<1>6. capable'[p] = "unknown" =>
          Current(p)' /\ (p \notin gone' => Leads(info'[p], login[q], b, {a}))
  <2>1. SUFFICES ASSUME capable'[p] = "unknown"
                 PROVE  Current(p)' /\ (p \notin gone' => Leads(info'[p], login[q], b, {a}))
    OBVIOUS
  <2>2. capable[p] = "unknown" /\ ~Goes(p) /\ ~Refuses(p)
    BY <2>1, AbleDo
  <2>3. Current(p) /\ Live(p)'
    BY <2>2, <1>4, AbleDo DEF Current
  <2>4. Current(p)'
    BY <2>3, <1>2, AbleDo DEF Current, q
  <2>5. ASSUME p \notin gone' PROVE Leads(info'[p], login[q], b, {a})
    <3>1. p \notin gone /\ ~Leaves(p)
      BY <2>5 DEF Does, Idle, Asks, Refuses, Goes, Moves, Removes, Leaves
    <3>2. Leads(info[p], login[q], b, {a})
      BY <3>1, <2>2, <1>4
    <3> QED BY <2>2, <3>1, <3>2, LeadsOwn
  <2> QED BY <2>4, <2>5
<1>7. capable'[p] # "unknown" => \A m \in PresentInfos(p)' : m.salt = a
  <2>1. CASE capable[p] # "unknown"
    BY <2>1, <1>2, <1>4 DEF PresentInfos, q
  <2>2. CASE capable[p] = "unknown" /\ capable'[p] # "unknown"
    <3>1. Goes(p)
      BY <2>2, AbleDo
    <3>2. /\ info[p] # <<>> /\ info[p] \in Seq(Packets) /\ Head(info[p]).type = "info"
          /\ info'[p] = Tail(info[p])
      BY <3>1 DEF Goes, Took, TypeOK
    <3>3. Head(info[p]).login = login[q] /\ p \notin gone
      BY <2>2, <3>1, <3>2, <1>4, AbleDo DEF UpToDate, News, q
    <3>4. Leads(info[p], login[q], b, {a})
      BY <2>2, <3>3, <1>4
    <3>5. \A x \in InfosOf(Tail(info[p])) : x.login = login[q] => x.salt = a
      BY <3>2, <3>3, <3>4, LeadsTail
    <3> QED BY <1>2, <3>2, <3>5 DEF PresentInfos, Infos, q
  <2> QED BY <2>1, <2>2
<1>8. \A d \in net' : d.from = p /\ d.login = login[p] => d.salt # b
  <2>1. SUFFICES ASSUME NEW d \in net', d.from = p, d.login = login[p] PROVE d.salt # b
    OBVIOUS
  <2>2. CASE d \in net
    BY <2>1, <2>2 DEF Crossed, b, q
  <2>3. CASE d \notin net
    <3>1. session'[p] \in LiveSessions /\ d.salt = session'[p].salt
      BY <2>3, NetDo DEF Sent
    <3>2. Live(p)'
      BY <3>1 DEF Live, LiveSessions
    <3>3. CASE Current(p)'
      BY <3>1, <3>3, <1>3, <1>5
    <3>4. CASE ~Current(p)'
      <4>1. session'[p].peer # login[q]
        BY <3>2, <3>4, <1>2 DEF Current, q
      <4>2. session'[p].salt \in {<<p, login[p]>>, <<q, session'[p].peer>>}
        BY <3>2, <1>2 DEF SaltsKnown, OwnSalt, q
      <4> QED BY <3>1, <4>1, <4>2, <1>1 DEF b, OwnSalt
    <3> QED BY <3>3, <3>4
  <2> QED BY <2>2, <2>3
<1> QED BY <1>2, <1>3, <1>5, <1>6, <1>7, <1>8 DEF Crossed, q

\* and what becomes of the other side.
LEMMA CrossedOther ==
    ASSUME TypeOK, News, UpToDate, Fitting, NoDangling, Able,
           NEW p \in Peer, Does(p), ~ComesBack(p), ~Asks(p), Crossed(p), Crossed(Other(p))
    PROVE  Crossed(Other(p))'
<1> DEFINE q == Other(p)
           a == OwnSalt(p)
           b == OwnSalt(q)
<1>1. q \in Peer /\ q # p /\ Other(q) = p /\ \A r \in Peer : r = p \/ r = q
  BY TwoPeers
<1>2. /\ login'[p] = login[p] /\ login'[q] = login[q] /\ session'[q] = session[q]
      /\ capable'[q] = capable[q]
  BY DoesAtOne
<1>3. OwnSalt(p)' = a /\ OwnSalt(q)' = b /\ (Current(q)' <=> Current(q))
  BY <1>1, <1>2 DEF OwnSalt, Current, Live
<1>4. /\ Current(q) => session[q].salt = b
      /\ capable[q] = "unknown" =>
            Current(q) /\ (q \notin gone => Leads(info[q], login[p], a, {b}))
      /\ capable[q] # "unknown" => \A m \in PresentInfos(q) : m.salt = b
  BY <1>1 DEF Crossed
<1> HIDE DEF a, b, q
\* Only the first information is answered, and it has the other side's salt.
<1>5. ASSUME Goes(p), Reaches(p), info'[q] # info[q]
      PROVE  Head(info[p]).salt = b
  <2>1. ~requested[p]
    BY <1>5 DEF Goes, q
  <2>2. capable[p] = "unknown"
    BY <2>1 DEF NoDangling, TypeOK
  <2>3. Current(p) /\ (p \notin gone => Leads(info[p], login[q], b, {a}))
    BY <2>2 DEF Crossed, a, b, q
  <2>4. /\ info[p] # <<>> /\ info[p] \in Seq(Packets) /\ Head(info[p]).type = "info"
        /\ Head(info[p]).login = sid[p]
    BY <1>5, AbleDo DEF Goes, Took, TypeOK
  <2>5. p \notin gone /\ sid[p] = login[q]
    BY <1>5, <2>4 DEF News, Reaches, q
  <2> QED BY <2>3, <2>4, <2>5, LeadsTail
<1>6. \A m \in Infos(q)' : m \in Infos(q) \/ m.salt = b
  <2>1. SUFFICES ASSUME NEW m \in Infos(q)', m \notin Infos(q) PROVE m.salt = b
    OBVIOUS
  <2>2. Goes(p) /\ Reaches(p) /\ \E real : m = Info(p, Head(info[p]).salt, real)
    BY <2>1, InfosDo, AbleDo DEF Does, q
  <2>3. info'[q] # info[q]
    BY <2>1 DEF Infos, InfosOf
  <2> QED BY <2>2, <2>3, <1>5 DEF Info
<1>7. q \notin gone' => q \notin gone
  BY DEF Does, Idle, Asks, Refuses, Goes, Moves, Removes, Leaves
<1>8. ASSUME Leads(info[q], login[p], a, {b}) PROVE Leads(info'[q], login[p], a, {b})
  BY <1>5, <1>8, LeadsOther, AbleDo DEF q
<1>9. \A d \in net' : d.from = q => d \in net
  BY <1>1, NetDo DEF Sent
<1>10. \A d \in net : d.from = q /\ d.login = login[q] => d.salt # a
  BY <1>1 DEF Crossed, a, q
<1>11. capable[q] # "unknown" => \A m \in PresentInfos(q)' : m.salt = b
  BY <1>1, <1>2, <1>4, <1>6 DEF PresentInfos
<1>12. Crossed(q)'
  BY <1>1, <1>2, <1>3, <1>4, <1>7, <1>8, <1>9, <1>10, <1>11 DEF Crossed
<1> QED BY <1>12 DEF q

\* Each side answers its own request once both were sent.
LEMMA CrossingStep ==
    ASSUME TypeOK, TypeOK', News, SaltsKnown', NetKnown, UpToDate, Fitting, NoDangling,
           Fresh, Fresh', Pinged, Unheard, Crossing, NEW p \in Peer, Does(p)
    PROVE  Crossing'
<1>1. /\ Other(p) \in Peer /\ Other(p) # p /\ Other(Other(p)) = p
      /\ \A q \in Peer : q = p \/ q = Other(p)
  BY TwoPeers
<1>2. Able' <=> Able
  BY DoesAtOne DEF Able, Open, Enabled
<1> SUFFICES ASSUME Able, InUse(OwnSalt(p))', InUse(OwnSalt(Other(p)))'
             PROVE  Crossed(p)' /\ Crossed(Other(p))'
  BY <1>1, <1>2 DEF Crossing
<1>3. ~ComesBack(p)
  <2>1. SUFFICES ASSUME ComesBack(p) PROVE FALSE
    OBVIOUS
  <2>2. Silent(p)'
    BY <2>1 DEF ComesBack, Silent, NoSession, TypeOK
  <2>3. Nowhere(OwnSalt(p))'
    BY <2>2 DEF Fresh
  <2> QED BY <2>3 DEF Nowhere, InUse, PresentInfos, Current
<1>4. CASE Asks(p)
  BY <1>4, CrossedAsk
<1>5. CASE ~Asks(p)
  <2>1. OwnSalt(p)' = OwnSalt(p) /\ OwnSalt(Other(p))' = OwnSalt(Other(p))
    BY <1>3, DoesAtOne DEF OwnSalt
  <2>2. ASSUME NEW s, InUse(s)' PROVE InUse(s)
    BY <1>3, <1>5, <2>2, UsedBefore
  <2>3. InUse(OwnSalt(p)) /\ InUse(OwnSalt(Other(p)))
    <3>1. PICK a, b : a = OwnSalt(p) /\ b = OwnSalt(Other(p))
      OBVIOUS
    <3>2. InUse(a)' /\ InUse(b)'
      BY <2>1, <3>1 DEF InUse
    <3> QED BY <3>1, <3>2, <2>2
  <2>4. Crossed(p) /\ Crossed(Other(p))
    BY <1>1, <2>3 DEF Crossing
  <2> QED BY <1>3, <1>5, <2>4, CrossedOwn, CrossedOther
<1> QED BY <1>4, <1>5

--------------------------------------------------------------------------------
(* One session. *)

\* Nothing between the present logins has another salt, and never will.
AgreedOn(s) ==
    \A p \in Peer : /\ capable[p] = "yes"
                    /\ Current(p) => session[p].salt = s
                    /\ \A m \in PresentInfos(p) : m.salt = s

\* So it is once a pong is on its way, and when it has come.
Agreed ==
    Able => /\ \A p \in Peer : Current(p) /\ session[p].handshake => AgreedOn(session[p].salt)
            /\ \A d \in net : d.type = "pong" /\ d.login = login[d.from] => AgreedOn(d.salt)

\* The salt agreed on stays the only one, until a login.
LEMMA AgreedStays ==
    ASSUME TypeOK, News, Fitting, NoDangling, Able, NEW p \in Peer, Does(p), ~ComesBack(p),
           NEW s, AgreedOn(s)
    PROVE  AgreedOn(s)'
<1>1. /\ Other(p) \in Peer /\ Other(p) # p /\ Other(Other(p)) = p
      /\ \A q \in Peer : q = p \/ q = Other(p)
  BY TwoPeers
<1>2. /\ session'[Other(p)] = session[Other(p)] /\ login'[Other(p)] = login[Other(p)]
      /\ login'[p] = login[p] /\ capable'[Other(p)] = capable[Other(p)]
      /\ Infos(p)' \subseteq Infos(p)
  BY DoesAtOne, InfosDo
<1>3. /\ capable[p] = "yes" /\ capable[Other(p)] = "yes"
      /\ Current(p) => session[p].salt = s
      /\ Current(Other(p)) => session[Other(p)].salt = s
      /\ \A m \in PresentInfos(p) : m.salt = s
      /\ \A m \in PresentInfos(Other(p)) : m.salt = s
  BY <1>1 DEF AgreedOn
<1>4. capable'[p] = "yes" /\ ~Asks(p)
  BY <1>3, AbleDo DEF Silent
<1>5. Goes(p) /\ sid[p] = login[Other(p)] => Head(info[p]).salt = s
  BY <1>3, AbleDo DEF PresentInfos
<1>6. Current(p)' => session'[p].salt = s
  <2>1. SUFFICES ASSUME Current(p)' PROVE session'[p].salt = s
    OBVIOUS
  <2>2. Live(p)' /\ session'[p].peer = login[Other(p)]
    BY <2>1, <1>2 DEF Current
  <2>3. CASE Live(p)
    <3>1. Current(p) /\ session'[p].salt = session[p].salt
      BY <2>2, <2>3, AbleDo DEF Current
    <3> QED BY <3>1, <1>3
  <2>4. CASE ~Live(p)
    BY <2>2, <2>4, <1>4, <1>5, AbleDo
  <2> QED BY <2>3, <2>4
<1>7. Current(Other(p))' => session'[Other(p)].salt = s
  BY <1>1, <1>2, <1>3 DEF Current, Live
<1>8. \A m \in PresentInfos(p)' : m.salt = s
  BY <1>2, <1>3 DEF PresentInfos
<1>9. \A m \in PresentInfos(Other(p))' : m.salt = s
  <2>1. SUFFICES ASSUME NEW m \in Infos(Other(p))', m.login = login[p] PROVE m.salt = s
    BY <1>1, <1>2 DEF PresentInfos
  <2>2. CASE m \in Infos(Other(p))
    BY <1>1, <1>3, <2>1, <2>2 DEF PresentInfos
  <2>3. CASE m \notin Infos(Other(p))
    <3>1. Goes(p) /\ Reaches(p) /\ \E real : m = Info(p, Head(info[p]).salt, real)
      BY <2>1, <2>3, <1>4, InfosDo, AbleDo DEF Does
    <3> QED BY <3>1, <1>5 DEF Info, Reaches
  <2> QED BY <2>2, <2>3
<1> QED BY <1>1, <1>2, <1>3, <1>4, <1>6, <1>7, <1>8, <1>9 DEF AgreedOn

\* A ping of the other side's present login, for a session of p with it, and a p that
\* knows its address.
LEMMA AgreedByPing ==
    ASSUME TypeOK, News, SaltsKnown, NetKnown, Pinged, Crossing, Able,
           NEW p \in Peer, NEW e \in net, e.type = "ping", Known(p, e),
           capable[p] = "yes", e.login = login[Other(p)]
    PROVE  AgreedOn(session[p].salt)
<1> DEFINE q == Other(p)
           a == OwnSalt(p)
           b == OwnSalt(q)
           s == session[p].salt
<1>1. q \in Peer /\ q # p /\ Other(q) = p /\ \A r \in Peer : r = p \/ r = q
  BY TwoPeers
<1>2. e.from = q /\ e.login = session[p].peer /\ e.salt = s /\ Current(p)
  BY DEF Known, Current
<1>3. capable[q] = "yes"
  BY <1>2 DEF Pinged
<1>4. /\ Current(p) => session[p].salt \in {a, b}
      /\ Current(q) => session[q].salt \in {a, b}
      /\ \A m \in PresentInfos(p) : m.salt \in {a, b}
      /\ \A m \in PresentInfos(q) : m.salt \in {a, b}
  BY <1>1 DEF SaltsKnown, Current, PresentInfos, OwnSalt
<1> HIDE DEF a, b, s, q
<1>5. s \in {a, b} /\ InUse(s) /\ (InUse(a) /\ InUse(b) => Crossed(p))
  BY <1>1, <1>2, <1>4 DEF InUse, Crossing, a, b, q, s
<1>6. InUse(a) /\ InUse(b) => Crossed(p) /\ Crossed(q)
  BY <1>1 DEF Crossing, a, b, q
<1>7. ~(InUse(a) /\ InUse(b)) \/ a = b
  <2>1. SUFFICES ASSUME Crossed(p), Crossed(q) PROVE FALSE
    BY <1>6
  <2>2. s = a
    BY <1>2, <2>1 DEF Crossed, a, s
  <2>3. e.salt # a
    BY <1>1, <1>2, <2>1 DEF Crossed, a, q
  <2> QED BY <1>2, <2>2, <2>3
<1>8. \A t \in {a, b} : InUse(t) => t = s
  BY <1>5, <1>7
<1>9. \A x \in Peer : /\ Current(x) => session[x].salt = s
                      /\ \A m \in PresentInfos(x) : m.salt = s
  <2>1. TAKE x \in Peer
  <2>2. /\ Current(x) => session[x].salt \in {a, b} /\ InUse(session[x].salt)
        /\ \A m \in PresentInfos(x) : m.salt \in {a, b} /\ InUse(m.salt)
    BY <1>1, <1>4 DEF InUse
  <2> QED BY <2>2, <1>8
<1>10. AgreedOn(s)
  BY <1>1, <1>3, <1>9 DEF AgreedOn
<1> QED BY <1>10 DEF s

\* A pong answers a ping, and both are of the one salt in use.
LEMMA AgreedStep ==
    ASSUME TypeOK, TypeOK', News, SaltsKnown, NetKnown, Fitting, Fitting', NoDangling,
           Pinged, Crossing, Agreed, NEW p \in Peer, Does(p)
    PROVE  Agreed'
<1>1. /\ Other(p) \in Peer /\ Other(p) # p /\ Other(Other(p)) = p
      /\ \A q \in Peer : q = p \/ q = Other(p)
      /\ login \in [Peer -> Login] /\ session \in [Peer -> Sessions]
  BY TwoPeers DEF TypeOK
<1>2. /\ session'[Other(p)] = session[Other(p)] /\ login'[Other(p)] = login[Other(p)]
      /\ Able' <=> Able
      /\ ~ComesBack(p) => login'[p] = login[p]
  BY DoesAtOne DEF Able, Open, Enabled
<1> SUFFICES ASSUME Able
             PROVE  /\ \A q \in Peer : Current(q)' /\ session'[q].handshake
                                       => AgreedOn(session[q].salt)'
                    /\ \A d \in net' : d.type = "pong" /\ d.login = login'[d.from]
                                       => AgreedOn(d.salt)'
  BY <1>2 DEF Agreed
<1>3. CASE ComesBack(p)
  <2>1. login[p] = 1 /\ login'[p] = 2 /\ net' = net /\ p \in gone /\ session'[p].state = "none"
    BY <1>1, <1>3 DEF ComesBack, NoSession
  <2>2. ~Current(p)'
    BY <2>1 DEF Current, Live
  <2>3. ~Current(Other(p))'
    <3>1. Live(Other(p)) => session[Other(p)].peer <= 1
      BY <1>1, <2>1 DEF SaltsKnown
    <3> QED BY <1>1, <1>2, <2>1, <3>1 DEF Current, Live
  <2>4. ASSUME NEW d \in net' PROVE d.login # login'[d.from]
    <3>1. d.from \in Peer /\ d.to \in Peer /\ d.from = Other(d.to) /\ d.to # p /\ d.login <= login[d.from]
      BY <2>1 DEF NetKnown, TypeOK
    <3>2. d.from = p
      BY <1>1, <3>1
    <3> QED BY <2>1, <3>1, <3>2
  <2> QED BY <1>1, <2>2, <2>3, <2>4
<1>4. CASE ~ComesBack(p)
  <2>1. ASSUME NEW s, AgreedOn(s) PROVE AgreedOn(s)'
    BY <1>4, <2>1, AgreedStays
  <2>2. login'[p] = login[p]
    BY <1>2, <1>4
  <2>3. Current(p)' /\ session'[p].handshake => AgreedOn(session'[p].salt)
    <3>1. SUFFICES ASSUME Current(p)', session'[p].handshake PROVE AgreedOn(session'[p].salt)
      OBVIOUS
    <3>2. Live(p)' /\ session'[p].peer = login[Other(p)]
      BY <1>2, <3>1 DEF Current
    <3>3. Live(p)
      BY <3>1, <3>2, AbleDo DEF Asks, Goes
    <3>4. Current(p) /\ session'[p].salt = session[p].salt
      BY <3>2, <3>3, AbleDo DEF Current
    <3>5. CASE session[p].handshake
      BY <3>4, <3>5 DEF Agreed
    <3>6. CASE ~session[p].handshake
      <4>1. PICK d \in net : d.type = "pong" /\ Known(p, d)
        <5>1. session'[p].handshake # session[p].handshake
          BY <3>1, <3>6
        <5>2. ~Idle(p) /\ ~Leaves(p) /\ ~Goes(p)
          BY <3>3, <5>1 DEF Idle, Leaves, Goes
        <5>3. ~Removes(p)
          BY <1>1, <3>2 DEF Removes, Live, NoSession
        <5>4. Moves(p)
          BY <1>4, <3>3, <5>2, <5>3, AbleDo DEF Does, Silent, Live
        <5> QED BY <5>1, <5>4 DEF Moves
      <4>2. d.from = Other(p) /\ d.login = login[Other(p)] /\ d.salt = session[p].salt
        BY <3>4, <4>1 DEF Known, Current
      <4> QED BY <3>4, <4>1, <4>2 DEF Agreed
    <3> QED BY <3>5, <3>6
  <2>4. Current(Other(p))' /\ session'[Other(p)].handshake => AgreedOn(session'[Other(p)].salt)
    BY <1>1, <1>2, <2>2 DEF Agreed, Current, Live
  <2>5. ASSUME NEW d \in net', d.type = "pong", d.login = login'[d.from] PROVE AgreedOn(d.salt)
    <3>1. CASE d \in net
      <4>1. d.from \in Peer
        BY <3>1 DEF TypeOK
      <4> QED BY <1>1, <1>2, <2>2, <2>5, <3>1, <4>1 DEF Agreed
    <3>2. CASE d \notin net
      <4>1. Sent(p, d) /\ d.type # "ping"
        BY <2>5, <3>2, NetDo
      <4>2. /\ session'[p] \in LiveSessions /\ d.salt = session'[p].salt
            /\ session'[p].reach = login[Other(p)] /\ Moves(p)
        BY <4>1 DEF Sent
      <4>3. PICK e \in net : /\ e.to = p /\ e.type = "ping" /\ Known(p, e)
                             /\ session'[p].timer => session'[p].reach = e.login
        BY <4>1 DEF Sent
      <4>4. /\ Live(p) /\ session'[p].salt = session[p].salt /\ capable'[p] = capable[p]
        BY <4>2 DEF Moves
      <4>5. session'[p].timer /\ capable[p] = "yes"
        <5>1. Live(p)' /\ session'[p].reach # 0
          BY <1>1, <4>2 DEF Live, LiveSessions, Login
        <5> QED BY <4>4, <5>1 DEF Fitting
      <4>6. AgreedOn(session[p].salt)
        BY <4>2, <4>3, <4>5, AgreedByPing
      <4> QED BY <4>2, <4>4, <4>6
    <3> QED BY <3>1, <3>2
  <2>6. ASSUME NEW q \in Peer, Current(q)', session'[q].handshake PROVE AgreedOn(session[q].salt)'
    <3>1. PICK s : s = session'[q].salt
      OBVIOUS
    <3>2. AgreedOn(s)
      BY <1>1, <2>3, <2>4, <2>6, <3>1
    <3>3. AgreedOn(s)'
      BY <2>1, <3>2
    <3> QED BY <3>1, <3>3 DEF AgreedOn
  <2>7. ASSUME NEW d \in net', d.type = "pong", d.login = login'[d.from] PROVE AgreedOn(d.salt)'
    <3>1. PICK s : s = d.salt
      OBVIOUS
    <3>2. AgreedOn(s)'
      BY <2>1, <2>5, <2>7, <3>1
    <3> QED BY <3>1, <3>2
  <2> QED BY <2>6, <2>7
<1> QED BY <1>3, <1>4

--------------------------------------------------------------------------------
(* The invariant. *)

IndInv ==
    /\ TypesOK /\ News
    /\ SaltsKnown /\ NetKnown /\ UpToDate
    /\ Fitting /\ NoDangling
    /\ Fresh /\ Pinged /\ Unheard /\ Crossing /\ Agreed

\* The peers start logged in, with nothing between them.
LEMMA Initially == MessagesInit => IndInv
<1> SUFFICES ASSUME MessagesInit PROVE IndInv
  OBVIOUS
<1>1. /\ world \in Worlds /\ login = [p \in Peer |-> 1] /\ sid = [p \in Peer |-> 1]
      /\ session = [p \in Peer |-> NoSession]
      /\ capable = [p \in Peer |-> "unknown"] /\ requested = [p \in Peer |-> FALSE]
      /\ info = [p \in Peer |-> <<>>] /\ net = {} /\ fault = FALSE /\ gone = {}
  BY DEF MessagesInit, Init
<1>2. TypesOK
  <2>1. <<>> \in Seq(Packets) /\ <<>> \in Seq(Number) /\ <<>> \in Seq({"server", "direct"})
    BY EmptySeq
  <2>2. TypeOK
    <3>1. NoSession \in Sessions
      BY DEF Sessions
    <3>2. /\ session \in [Peer -> Sessions] /\ info \in [Peer -> Seq(Packets)]
          /\ capable \in [Peer -> {"unknown", "yes", "no"}] /\ requested \in [Peer -> BOOLEAN]
          /\ login \in [Peer -> Login] /\ sid \in [Peer -> Login \union {0}]
      BY <1>1, <2>1, <3>1 DEF Login
    <3> QED BY <1>1, <3>2 DEF TypeOK
  <2>3. /\ written \in [Peer -> Seq({"server", "direct"})] /\ shown \in [Peer -> Seq(Number)]
        /\ confirmed \in [Peer -> SUBSET Number] /\ direct = {}
    BY <2>1 DEF MessagesInit
  <2> QED BY <2>2, <2>3 DEF TypesOK
<1>3. \A p \in Peer : /\ Infos(p) = {} /\ ~Live(p) /\ ~Current(p) /\ Other(p) \in Peer
                      /\ DOMAIN info[p] = {} /\ session[p].state = "none"
                      /\ PresentInfos(p) = {}
  <2>1. TAKE p \in Peer
  <2>2. DOMAIN info[p] = {}
    BY <1>1, EmptySeq, LenProperties
  <2>3. session[p].state = "none"
    BY <1>1 DEF NoSession
  <2>4. Infos(p) = {} /\ ~Live(p)
    BY <2>2, <2>3 DEF Infos, InfosOf, Live
  <2> QED BY <2>2, <2>3, <2>4, TwoPeers DEF PresentInfos, Current
<1>4. News
  <2>1. ASSUME NEW p \in Peer
        PROVE  /\ Heard(sid[p], info[p], login[Other(p)])
               /\ Latest(sid[p], info[p]) = Present(Other(p))
    <3>1. sid[p] = 1 /\ info[p] = <<>> /\ login[Other(p)] = 1 /\ Present(Other(p)) = 1
      BY <1>1, <1>3 DEF Present
    <3> QED BY <3>1, <1>3 DEF Heard, Latest
  <2> QED BY <1>1, <2>1 DEF News
<1>5. SaltsKnown /\ NetKnown /\ UpToDate
  BY <1>1, <1>3 DEF SaltsKnown, NetKnown, UpToDate
<1>6. Fitting /\ NoDangling
  BY <1>1, <1>3 DEF Fitting, NoDangling
<1>7. Fresh /\ Pinged /\ Unheard
  BY <1>1, <1>3 DEF Fresh, Nowhere, Pinged, Unheard
<1>8. Crossing /\ Agreed
  <2>1. PICK p \in Peer : TRUE
    BY PeerAssumption
  <2>2. \A s : ~InUse(s)
    BY <1>3 DEF InUse
  <2> QED BY <1>1, <1>3, <2>1, <2>2 DEF Crossing, Agreed
<1> QED BY <1>2, <1>4, <1>5, <1>6, <1>7, <1>8 DEF IndInv

\* Every step keeps the invariant.
LEMMA Preserved == ASSUME IndInv, [Next]_allVars PROVE IndInv'
<1>1. /\ TypesOK /\ TypeOK /\ News /\ SaltsKnown /\ NetKnown /\ UpToDate /\ Fitting /\ NoDangling
      /\ Fresh /\ Pinged /\ Unheard /\ Crossing /\ Agreed
  BY DEF IndInv, TypesOK
<1>2. /\ TypesOK' /\ TypeOK' /\ News' /\ \E p \in Peer : Does(p)
  <2>1. CASE Next
    <3>1. TypesOK' /\ News' /\ \E p \in Peer : Does(p)
      BY <1>1, <2>1, TypesStep, NewsStep, StepDoes
    <3> QED BY <3>1 DEF TypesOK
  <2>2. CASE UNCHANGED allVars
    <3>1. UNCHANGED vars /\ UNCHANGED messages
      BY <2>2 DEF allVars
    <3>2. TypesOK' /\ TypeOK'
      BY <1>1, <3>1 DEF TypesOK, TypeOK, vars, messages
    <3>3. News'
      BY <1>1, <3>1 DEF News, Present, vars
    <3>4. PICK p \in Peer : TRUE
      BY PeerAssumption
    <3>5. Idle(p)
      BY <3>1 DEF Idle, vars
    <3> QED BY <3>2, <3>3, <3>5 DEF Does
  <2> QED BY <2>1, <2>2
<1>3. PICK p \in Peer : Does(p)
  BY <1>2
<1>4. SaltsKnown'
  BY <1>1, <1>3, SaltsStep
<1>5. NetKnown' /\ UpToDate' /\ Fitting' /\ NoDangling'
  BY <1>1, <1>2, <1>3, <1>4, NetStep, UpToDateStep, FittingStep, NoDanglingStep
<1>6. Fresh' /\ Pinged' /\ Unheard'
  BY <1>1, <1>2, <1>3, <1>5, FreshStep, PingedStep, UnheardStep
<1>7. Crossing' /\ Agreed'
  BY <1>1, <1>2, <1>3, <1>4, <1>5, <1>6, CrossingStep, AgreedStep
<1> QED BY <1>2, <1>4, <1>5, <1>6, <1>7 DEF IndInv

\* The strengthened invariant, for every world, whatever messages are written, what
\* is lost or repeated, and which login ends when.
THEOREM Inductive == Spec => []IndInv
  BY Initially, Preserved, PTL DEF Spec

\* The sessions, the packets and the messages have the types their code declares.
THEOREM TypeCorrect == Spec => []TypesOK
<1>1. IndInv => TypesOK
  BY DEF IndInv
<1> QED BY <1>1, Inductive, PTL

\* A finished handshake is one session of both sides with one moniker, between friends
\* that found each other compatible, also when requests cross, datagrams are lost or
\* repeated, and programs end and come back (setting m_handshakeDone).
THEOREM HandshakeIsOneSession == Spec => []HandshakeAgrees
<1>1. IndInv => MonikersAgree
  <2>1. SUFFICES ASSUME IndInv, NEW p \in Peer, Current(p), session[p].handshake,
                        Current(Other(p))
                 PROVE  session[Other(p)].salt = session[p].salt
    BY DEF MonikersAgree
  <2>2. Able
    BY <2>1 DEF IndInv, Fitting, Current
  <2>3. AgreedOn(session[p].salt)
    BY <2>1, <2>2 DEF IndInv, Agreed
  <2> QED BY <2>1, <2>3, TwoPeers DEF AgreedOn
<1>2. IndInv => PingsOnlyCapable /\ OnlyCompatibleHandshakes
  BY DEF IndInv, Fitting, Able, PingsOnlyCapable, OnlyCompatibleHandshakes
<1>3. IndInv => HandshakeAgrees
  BY <1>1, <1>2 DEF HandshakeAgrees
<1> QED BY <1>3, Inductive, PTL
================================================================================
