-------------------------- MODULE XfireP2PNegotiation --------------------------
(***************************************************************************)
(* How two contacts set up a peer to peer session: XfireContact::requestP2P *)
(* and the P2P information message (msgtype 2) of XfireServer::handlePacket *)
(* over the Xfire server, then pings and pongs over UDP (XfireP2P) and the  *)
(* check timer of XfireP2PSession.  What the sessions are for, the instant  *)
(* messages, and the whole next-state relation are in XfireMessages.        *)
(*                                                                         *)
(* Each peer runs this code and keeps one XfireContact for the other.  The *)
(* server relays information messages in order and tells each peer of the  *)
(* other's logins and logoffs.  A peer's program may end and be started    *)
(* again: it then has a new session id, a new port and nothing else, while *)
(* the other peer's contact keeps the session it had.  UDP loses,          *)
(* duplicates and reorders.  A moniker is the hash of a session id, that   *)
(* is a peer and his login, and a salt; hashes are taken to be distinct.   *)
(* The NAT checks of both peers are over when this starts.                 *)
(*                                                                         *)
(* The handler reads the NAT type of the other side as `status->Int32',    *)
(* which is the constant 2 of the enumeration Attribute::Type and not the  *)
(* value received: whatever the message says, m_natType becomes 2.         *)
(*                                                                         *)
(* A definition named after another one plus a fault (AnswerAlways) is a   *)
(* plausible mistake in that code, there to see that a property notices.   *)
(***************************************************************************)
EXTENDS Integers, Sequences

CONSTANTS Peer,         \* the two peers
          Worlds,       \* the circumstances to look at
          MaxPings,     \* ping retries before a session is given up (10)
          MaxTexts      \* bound: instant messages a user writes

Circumstances ==
    [texts : [Peer -> 0..MaxTexts],  \* instant messages each user writes
     enabled : SUBSET Peer,     \* those with peer to peer enabled
     open : SUBSET Peer,        \* those whose own NAT check gave type 1
     lossy : BOOLEAN,           \* does UDP lose and repeat datagrams?
     slow : BOOLEAN,            \* does anything take 50 s and more?
     quits : BOOLEAN,           \* may a peer disappear?
     returns : BOOLEAN,         \* and come back, once?
     listed : SUBSET Peer]      \* those the server's lists name to themselves

ASSUME PeerAssumption == \E a, b \in Peer : a # b /\ Peer = {a, b}
ASSUME BoundsAssumption == MaxPings \in Nat /\ MaxTexts \in Nat
ASSUME WorldsAssumption == Worlds \subseteq Circumstances

VARIABLES world,      \* the circumstances of this behaviour (external)
          login,      \* which login of a peer is the present one, his session id
          sid,        \* m_sid of the contact: a login of the other, 0 when offline
          session,    \* m_p2pSession of the contact, "dangling" when deleted only
          capable,    \* m_p2pCapable of the contact
          requested,  \* m_p2pRequested of the contact
          info,       \* packets of the server on their way to a peer
          net,        \* datagrams in the network
          fault,      \* a deleted session was used: anything may happen now
          gone        \* peers that went away

vars == <<world, login, sid, session, capable, requested, info, net, fault, gone>>

Requesters == {p \in Peer : world.texts[p] > 0}
Enabled == world.enabled
Open == world.open
Lossy == world.lossy

Other(p) == CHOOSE q \in Peer : q # p

\* The salt of a request is drawn by the requester; it requests at most once in
\* a run of the program.
Login == 1..2
Salt == Peer \X Login

NoSession == [state |-> "none"]
Dangling == [state |-> "dangling"]

\* createP2pSession: the session ids of both sides go into the monikers.  The
\* constructor leaves m_pongNeeded and the address alone; m_natType becomes 2 and
\* the timer runs (`timer') once information came in.  `reach' is the login of
\* the other side that has the address, 0 if nobody has it.
NewSession(p, s) ==
    [state |-> "live", own |-> login[p], peer |-> sid[p], salt |-> s, reach |-> 0,
     timer |-> FALSE, due |-> FALSE, pongNeeded |-> FALSE, handshake |-> FALSE,
     retries |-> 0]

Live(p) == session[p].state = "live"

\* setRemoteAddress, and the flags sendPing sets.
Addressed(ses, reach) ==
    [ses EXCEPT !.reach = reach, !.timer = TRUE, !.due = FALSE, !.pongNeeded = TRUE]

\* Datagrams that p sends for its session ses: those that get to a socket of the
\* other side, with the moniker they carry.
Arriving(p, ses) == ses.reach = login[Other(p)] /\ Other(p) \notin gone
Datagram(p, ses, type) ==
    IF Arriving(p, ses)
    THEN {[to |-> Other(p), type |-> type, from |-> p, login |-> ses.own, salt |-> ses.salt]}
    ELSE {}

Running(p) == ~fault /\ p \notin gone

\* Packets of the server: information of the other side (a denial is not `real'),
\* and the other side's session.  XfireMessages adds the messages.
Info(p, salt, real) == [type |-> "info", login |-> login[p], salt |-> salt, real |-> real]
SessionIs(n) == [type |-> "sid", login |-> n]

\* The server relays to the session the packet names.
Reaches(p) == Other(p) \notin gone /\ sid[p] = login[Other(p)]
Relay(queues, p, packet) ==
    IF Reaches(p) THEN [queues EXCEPT ![Other(p)] = Append(@, packet)] ELSE queues

Waiting(p, type) == info[p] # <<>> /\ Head(info[p]).type = type
Consumed(p) == [info EXCEPT ![p] = Tail(@)]

Tell(p, salt, real) == Relay(Consumed(p), p, Info(p, salt, real))

--------------------------------------------------------------------------------

\* requestP2P is called by sendMessage (XfireMessages) of a contact whose abilities
\* are not known, and does nothing if there is a session.
AsksForP2P(p) == capable[p] = "unknown" /\ p \in Enabled /\ session[p].state = "none"
OwnSalt(p) == <<p, login[p]>>
Requested(p) == Relay(info, p, Info(p, OwnSalt(p), TRUE))
RequestP2P(p) == session' = [session EXCEPT ![p] = NewSession(p, OwnSalt(p))]

\* P2P information from somebody known to be unable: denied, whatever it says.
InfoDenied(p) ==
    /\ Running(p) /\ Waiting(p, "info")
    /\ capable[p] = "no" \/ p \notin Enabled
    /\ info' = Tell(p, Head(info[p]).salt, FALSE)
    /\ UNCHANGED <<world, login, sid, session, capable, requested, net, fault, gone>>

\* The answer of a peer that did not answer before.
AnswerAlways(p, salt) ==
    info' = Tell(p, salt, TRUE) /\ requested' = [requested EXCEPT ![p] = TRUE]
Answer(p, salt) ==
    /\ info' = IF requested[p] THEN Consumed(p) ELSE Tell(p, salt, TRUE)
    /\ requested' = [requested EXCEPT ![p] = TRUE]

\* The NAT types fit: with 2 for the other side, our own must be 1.
CompatibleAlways(p) == TRUE
Compatible(p) == p \in Open

\* The session to go on with, or one created from the salt of the message.
SessionForOwnSalt(p, m) == IF Live(p) THEN session[p] ELSE NewSession(p, OwnSalt(p))
SessionFor(p, m) == IF Live(p) THEN session[p] ELSE NewSession(p, m.salt)

Judges(p) == Running(p) /\ Waiting(p, "info") /\ capable[p] # "no" /\ p \in Enabled

\* Compatible: keep or create the session, ping the address of the message, and
\* answer with our own information.
InfoCompatible(p) ==
    /\ Judges(p) /\ Compatible(p)
    /\ LET m == Head(info[p])
           new == Addressed(SessionFor(p, m), IF m.real THEN m.login ELSE 0)
       IN /\ session' = [session EXCEPT ![p] = new]
          /\ net' = net \union Datagram(p, new, "ping")
          /\ Answer(p, m.salt)
    /\ capable' = [capable EXCEPT ![p] = "yes"]
    /\ UNCHANGED <<world, login, sid, fault, gone>>

\* Incompatible: the session is deleted and m_p2pSession keeps its address.
InfoIncompatible(p) ==
    /\ Judges(p) /\ ~Compatible(p)
    /\ capable' = [capable EXCEPT ![p] = "no"]
    /\ session' = [session EXCEPT ![p] = IF Live(p) THEN Dangling ELSE @]
    /\ Answer(p, Head(info[p]).salt)
    /\ UNCHANGED <<world, login, sid, net, fault, gone>>

\* The other side logged in or off: only the contact's m_sid changes.
HandleSession(p) ==
    /\ Running(p) /\ Waiting(p, "sid")
    /\ sid' = [sid EXCEPT ![p] = Head(info[p]).login]
    /\ info' = Consumed(p)
    /\ UNCHANGED <<world, login, session, capable, requested, net, fault, gone>>

--------------------------------------------------------------------------------
(* XfireP2P::slotSocketRead *)

\* A datagram leaves the network, or a copy of it stays; copies of what a peer
\* sent before it went away run out.
Taken(d, network) ==
    IF Lossy /\ d.from \notin gone THEN {network, network \ {d}} ELSE {network \ {d}}

\* p2pSessionByMoniker found the session the datagram is for.
KnownByPeer(p, d) == Live(p) /\ d.from = Other(p)
Known(p, d) ==
    Live(p) /\ d.from = Other(p) /\ d.login = session[p].peer /\ d.salt = session[p].salt

\* setRemoteAddress of the sender's address, if m_natType says symmetric NAT.
Rectified(ses, d) == IF ses.timer THEN Addressed(ses, d.login) ELSE ses

\* PING: once m_natType is 2 the address is set again, which pings again; then
\* the pong, to no known address if information did not come in yet.
ReceivePing(p) ==
    /\ Running(p)
    /\ \E d \in net :
          /\ d.to = p /\ d.type = "ping" /\ Known(p, d)
          /\ LET new == Rectified(session[p], d)
             IN /\ session' = [session EXCEPT ![p] = new]
                /\ \E rest \in Taken(d, net) :
                      net' = rest \union Datagram(p, new, "pong")
                             \union IF new.timer THEN Datagram(p, new, "ping") ELSE {}
    /\ UNCHANGED <<world, login, sid, capable, requested, info, fault, gone>>

\* PONG: the handshake is done.
ReceivePong(p) ==
    /\ Running(p)
    /\ \E d \in net :
          /\ d.to = p /\ d.type = "pong" /\ Known(p, d)
          /\ session' = [session EXCEPT ![p].pongNeeded = FALSE, ![p].handshake = TRUE]
          /\ net' \in Taken(d, net)
    /\ UNCHANGED <<world, login, sid, capable, requested, info, fault, gone>>

\* No session has the moniker: ignored.
ReceiveUnknown(p) ==
    /\ Running(p) /\ session[p].state # "dangling"
    /\ \E d \in net : d.to = p /\ ~Known(p, d) /\ net' = net \ {d}
    /\ UNCHANGED <<world, login, sid, session, capable, requested, info, fault, gone>>

\* Looking for the moniker reads the deleted session.
ReceiveOnDangling(p) ==
    /\ Running(p) /\ session[p].state = "dangling"
    /\ \E d \in net : d.to = p
    /\ fault' = TRUE
    /\ UNCHANGED <<world, login, sid, session, capable, requested, info, net, gone>>

--------------------------------------------------------------------------------
(* XfireP2PSession::slotCheckSession, every second once setRemoteAddress ran *)

\* 50 s without a ping being sent; on a good network everything arrives sooner.
PongOverdue(p) ==
    /\ Running(p) /\ Live(p)
    /\ session[p].timer /\ session[p].pongNeeded /\ ~session[p].due
    /\ world.slow \/ (net = {} /\ \A q \in Peer : info[q] = <<>>)
    /\ session' = [session EXCEPT ![p].due = TRUE]
    /\ UNCHANGED <<world, login, sid, capable, requested, info, net, fault, gone>>

\* More than 50 s since the last ping, and its pong did not come.
CheckDueUntilHandshake(p) ==
    /\ Running(p) /\ Live(p) /\ session[p].timer /\ session[p].pongNeeded
    /\ session[p].due /\ ~session[p].handshake
CheckDueAtOnce(p) == Running(p) /\ Live(p) /\ session[p].timer /\ session[p].pongNeeded
CheckDue(p) ==
    Running(p) /\ Live(p) /\ session[p].timer /\ session[p].pongNeeded /\ session[p].due

\* m_pingRetries++ < 10
MayPingOnceMore(p) == session[p].retries <= MaxPings
MayPing(p) == session[p].retries < MaxPings

\* Ping again.
PingAgain(p) ==
    /\ CheckDue(p) /\ MayPing(p)
    /\ session' = [session EXCEPT ![p].retries = @ + 1, ![p].due = FALSE]
    /\ net' = net \union Datagram(p, session[p], "ping")
    /\ UNCHANGED <<world, login, sid, capable, requested, info, fault, gone>>

\* timeout(): slotRemoveP2pSession, which does clear the pointer.
SessionTimeout(p) ==
    /\ CheckDue(p) /\ ~MayPing(p)
    /\ session' = [session EXCEPT ![p] = NoSession]
    /\ UNCHANGED <<world, login, sid, capable, requested, info, net, fault, gone>>

--------------------------------------------------------------------------------
(* The network and the peers *)

Lose(d) ==
    /\ Lossy
    /\ net' = net \ {d}
    /\ UNCHANGED <<world, login, sid, session, capable, requested, info, fault, gone>>

\* The server tells the other side of p's session.
Announce(p, n) ==
    info' = IF Other(p) \in gone THEN [info EXCEPT ![p] = <<>>]
            ELSE [info EXCEPT ![p] = <<>>, ![Other(p)] = Append(@, SessionIs(n))]

\* A peer's program ends, its sockets close.
Quit(p) ==
    /\ world.quits /\ Running(p)
    /\ gone' = gone \union {p}
    /\ Announce(p, 0)
    /\ net' = {d \in net : d.to # p}
    /\ UNCHANGED <<world, login, sid, session, capable, requested, fault>>

\* The program is started again and logs in: a new session id, new contacts.
Return(p) ==
    /\ world.returns /\ p \in gone /\ ~fault /\ login[p] = 1
    /\ gone' = gone \ {p}
    /\ login' = [login EXCEPT ![p] = 2]
    /\ sid' = [sid EXCEPT ![p] = IF Other(p) \in gone THEN 0 ELSE login[Other(p)]]
    /\ session' = [session EXCEPT ![p] = NoSession]
    /\ capable' = [capable EXCEPT ![p] = "unknown"]
    /\ requested' = [requested EXCEPT ![p] = FALSE]
    /\ Announce(p, 2)
    /\ UNCHANGED <<world, net, fault>>

Init ==
    /\ world \in Worlds
    /\ login = [p \in Peer |-> 1] /\ sid = [p \in Peer |-> 1]
    /\ session = [p \in Peer |-> NoSession]
    /\ capable = [p \in Peer |-> "unknown"]
    /\ requested = [p \in Peer |-> FALSE]
    /\ info = [p \in Peer |-> <<>>]
    /\ net = {} /\ fault = FALSE /\ gone = {}

\* What the server brings, what the socket brings, what the timer does.
HandlesInfo(p) ==
    InfoDenied(p) \/ InfoCompatible(p) \/ InfoIncompatible(p) \/ HandleSession(p)
ChecksSession(p) == PingAgain(p) \/ SessionTimeout(p)

Negotiates(p) ==
    \/ HandlesInfo(p) \/ PongOverdue(p) \/ ChecksSession(p)
    \/ ReceivePing(p) \/ ReceivePong(p) \/ ReceiveUnknown(p) \/ ReceiveOnDangling(p)

\* The event loop reads the socket and serves the timer.  Nothing is assumed of the
\* user, of loss, or of a peer going away.
NegotiationFairness ==
    \A p \in Peer :
        /\ WF_vars(ReceivePing(p)) /\ WF_vars(ReceivePong(p)) /\ WF_vars(ReceiveUnknown(p))
        /\ WF_vars(PongOverdue(p)) /\ WF_vars(ChecksSession(p))

--------------------------------------------------------------------------------

Sessions == {NoSession, Dangling} \union
    [state : {"live"}, own : Login, peer : Login, salt : Salt, reach : Login \union {0},
     timer : BOOLEAN, due : BOOLEAN, pongNeeded : BOOLEAN, handshake : BOOLEAN,
     retries : 0..MaxPings]

Packets ==
    [type : {"info"}, login : Login, salt : Salt, real : BOOLEAN]
    \union [type : {"sid"}, login : Login \union {0}]
    \union [type : {"im", "confirm"}, login : Login, n : 1..MaxTexts]

TypeOK ==
    /\ world \in Worlds
    /\ login \in [Peer -> Login] /\ sid \in [Peer -> Login \union {0}]
    /\ session \in [Peer -> Sessions]
    /\ capable \in [Peer -> {"unknown", "yes", "no"}]
    /\ requested \in [Peer -> BOOLEAN]
    /\ info \in [Peer -> Seq(Packets)]
    /\ net \subseteq [to : Peer, type : {"ping", "pong"}, from : Peer, login : Login,
                      salt : Salt]
    /\ fault \in BOOLEAN
    /\ gone \subseteq Peer

\* The session is with the present login of the other side.
Current(p) == Live(p) /\ session[p].peer = login[Other(p)]

\* A finished handshake means the other side speaks the same session: if both
\* sessions are between the present logins, the monikers agree, so data sent is
\* data accepted (setting m_handshakeDone, xf_p2p.cpp:103).
MonikersAgree ==
    \A p \in Peer : Current(p) /\ session[p].handshake /\ Current(Other(p))
                        => session[Other(p)].salt = session[p].salt

\* A session pings only for a contact found compatible, so the information went
\* both ways: its peer's answer came, or the peer's request did (xf_server.cpp:488).
PingsOnlyCapable ==
    \A p \in Peer : Live(p) /\ session[p].timer => capable[p] = "yes" /\ requested[p]

\* A handshake completes only between two peers that both have peer to peer
\* enabled and both passed as compatible: instant messages of the others go
\* through the server (isPeerToPeerActive, xf_contact.cpp:222).
OnlyCompatibleHandshakes ==
    \A p \in Peer : Live(p) /\ session[p].handshake => Peer \subseteq Open \cap Enabled

\* A finished handshake is one session, between friends that found each other
\* compatible.
HandshakeAgrees == MonikersAgree /\ PingsOnlyCapable /\ OnlyCompatibleHandshakes

\* On a network that loses nothing and is in time a handshake that one side finished
\* is kept by both: while the programs run, the other side's timer does not give the
\* session up, whatever pongs still are on their way (slotCheckSession,
\* xf_p2p_session.cpp:89).
HandshakeIsMutual ==
    Peer \subseteq Open \cap Enabled /\ ~Lossy /\ ~world.slow /\ gone = {} =>
        \A p \in Peer : Current(p) /\ session[p].handshake
                        => Current(Other(p)) /\ session[Other(p)].timer

\* The exchange of information ends: each peer answers at most once, so two
\* compatible peers do not go on telling each other (xf_server.cpp:512).
NegotiationEnds ==
    <>[](Peer \subseteq Open \cap Enabled => \A p \in Peer : ~Waiting(p, "info"))

\* When only one side requests, both pass as compatible and nothing is lost, the
\* handshake completes on both sides (xf_contact.cpp:162, xf_server.cpp:488).
HandshakeCompletes ==
    (/\ \E p \in Peer : Live(p) /\ Requesters = {p}
     /\ Peer \subseteq Open \cap Enabled
     /\ ~Lossy /\ ~world.slow /\ ~world.quits)
    ~> \A q \in Peer : Live(q) /\ session[q].handshake

\* In the end no session waits for a pong of a login of the peer that is over, also
\* when the peer came back and sends information and pings for a session of its own
\* (slotCheckSession, xf_p2p_session.cpp:89).
DeadPeerRemoved ==
    <>[](fault \/ \A p \in Peer \ gone :
            Live(p) /\ session[p].timer /\ session[p].pongNeeded
            => Other(p) \notin gone /\ Current(p))
================================================================================
