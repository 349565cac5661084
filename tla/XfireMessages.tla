----------------------------- MODULE XfireMessages -----------------------------
(***************************************************************************)
(* Instant messages between two contacts: XfireContact::sendMessage sends   *)
(* each one over the peer to peer session if its handshake is done and over *)
(* the server if not, shows it, and forgets it.  The receiver shows what    *)
(* arrives and confirms it the same way.  Nothing is ever sent again.       *)
(*                                                                         *)
(* This module has the messages and what a user does; XfireP2PNegotiation   *)
(* has the sessions, the network and the peers' logins.  Messages of the    *)
(* server share its queue `info', so a message never overtakes the news of  *)
(* its sender's session, and the contact it is from is found.  A direct     *)
(* message names the receiver's session id; the receiver looks for a contact *)
(* with that id and finds one, himself, only if the server's lists contain  *)
(* himself (`listed', as a clan list may).                                  *)
(*                                                                         *)
(* Acknowledgements are left out: the sender only logs them.  Confirmations *)
(* carry the number of the message here; the code ignores their imindex.    *)
(*                                                                         *)
(* A definition named after another one plus a fault (ActiveEarly) is a    *)
(* plausible mistake in that code, there to see that a property notices.   *)
(***************************************************************************)
EXTENDS XfireP2PNegotiation

CONSTANT MaxShown     \* bound: a datagram is repeated while fewer are shown

ASSUME ShownAssumption == MaxShown \in Nat

VARIABLES written,    \* the messages of each user: how each one was sent
          shown,      \* the messages shown to each user, by number
          confirmed,  \* the messages each user was told have arrived
          direct      \* datagrams with messages and confirmations

messages == <<written, shown, confirmed, direct>>
allVars == <<vars, messages>>

--------------------------------------------------------------------------------
(* XfireContact::sendMessage *)

\* isPeerToPeerActive
ActiveEarly(p) == Live(p) /\ session[p].timer
Active(p) == Live(p) /\ session[p].handshake

CanWrite(p) ==
    /\ Running(p) /\ sid[p] # 0 /\ Len(written[p]) < world.texts[p]

NextNumber(p) == Len(written[p]) + 1
Wrote(p, way) == written' = [written EXCEPT ![p] = Append(@, way)]

\* XfireServer::sendChat and sendChatConfirmation, XfireP2PSession::sendMessage and
\* sendMessageConfirmation.
OverServer(p, type, n) == [type |-> type, login |-> login[p], n |-> n]
Data(p, ses, type, n) ==
    IF Arriving(p, ses)
    THEN {[to |-> Other(p), type |-> type, from |-> p, login |-> ses.own,
           salt |-> ses.salt, n |-> n]}
    ELSE {}

\* Over the server, asking for peer to peer information first if that is unknown.
SendOverServer(p) ==
    /\ CanWrite(p) /\ session[p].state # "dangling" /\ ~Active(p)
    /\ IF AsksForP2P(p)
       THEN /\ RequestP2P(p)
            /\ info' = Relay(Requested(p), p, OverServer(p, "im", NextNumber(p)))
       ELSE /\ info' = Relay(info, p, OverServer(p, "im", NextNumber(p)))
            /\ UNCHANGED session
    /\ Wrote(p, "server")
    /\ UNCHANGED <<world, login, sid, capable, requested, net, fault, gone,
                   shown, confirmed, direct>>

SendDirectlyAndOverServer(p) ==
    /\ CanWrite(p) /\ Active(p)
    /\ direct' = direct \union Data(p, session[p], "im", NextNumber(p))
    /\ info' = Relay(info, p, OverServer(p, "im", NextNumber(p)))
    /\ Wrote(p, "direct")
    /\ UNCHANGED <<world, login, sid, session, capable, requested, net, fault, gone,
                   shown, confirmed>>
SendDirectly(p) ==
    /\ CanWrite(p) /\ Active(p)
    /\ direct' = direct \union Data(p, session[p], "im", NextNumber(p))
    /\ Wrote(p, "direct")
    /\ UNCHANGED <<vars, shown, confirmed>>

\* With a deleted session: isPeerToPeerActive reads it.
SendOnDangling(p) ==
    /\ CanWrite(p) /\ session[p].state = "dangling"
    /\ fault' = TRUE
    /\ UNCHANGED <<world, login, sid, session, capable, requested, info, net, gone, messages>>

--------------------------------------------------------------------------------
(* XfireServer::handlePacket, 0x0085: what the server brings *)

\* XfireContact::receivedMessage
ReceivedMessage(p, n) == shown' = [shown EXCEPT ![p] = Append(@, n)]

\* msgtype 0: shown, and confirmed over the server.
HandleText(p) ==
    /\ Running(p) /\ Waiting(p, "im")
    /\ LET n == Head(info[p]).n
       IN ReceivedMessage(p, n) /\ info' = Relay(Consumed(p), p, OverServer(p, "confirm", n))
    /\ UNCHANGED <<world, login, sid, session, capable, requested, net, fault, gone,
                   written, confirmed, direct>>

\* msgtype 1: setMessageSucceeded.
HandleConfirmation(p) ==
    /\ Running(p) /\ Waiting(p, "confirm")
    /\ confirmed' = [confirmed EXCEPT ![p] = @ \union {Head(info[p]).n}]
    /\ info' = Consumed(p)
    /\ UNCHANGED <<world, login, sid, session, capable, requested, net, fault, gone,
                   written, shown, direct>>

--------------------------------------------------------------------------------
(* XfireP2P::slotSocketRead, data of category IM, and handlePacket, 0x0002 *)

\* The session is found by the moniker; what becomes of the datagram.
Arrives(p, d) == Running(p) /\ d.to = p /\ Known(p, d)

\* findContact finds a contact with the session id in the message.
FromFound(p) == p \in world.listed

\* A repeated datagram is bounded by what it adds to the chat.
TakenData(p, d) == IF Len(shown[p]) < MaxShown THEN Taken(d, direct) ELSE {direct \ {d}}

\* A message: shown in the chat of the session's contact, and confirmed directly.
ReceiveText(p) ==
    \E d \in direct :
        /\ Arrives(p, d) /\ d.type = "im" /\ FromFound(p)
        /\ ReceivedMessage(p, d.n)
        /\ \E rest \in TakenData(p, d) :
              direct' = rest \union Data(p, session[p], "confirm", d.n)
        /\ UNCHANGED <<vars, written, confirmed>>

ReceiveConfirmation(p) ==
    \E d \in direct :
        /\ Arrives(p, d) /\ d.type = "confirm" /\ FromFound(p)
        /\ confirmed' = [confirmed EXCEPT ![p] = @ \union {d.n}]
        /\ direct' \in TakenData(p, d)
        /\ UNCHANGED <<vars, written, shown>>

\* No contact has the session id the message names: nothing happens.
ReceiveFromNobody(p) ==
    \E d \in direct :
        /\ Arrives(p, d) /\ ~FromFound(p)
        /\ direct' = direct \ {d}
        /\ UNCHANGED <<vars, written, shown, confirmed>>

\* No session has the moniker: ignored.
ReceiveStrayData(p) ==
    \E d \in direct :
        /\ Running(p) /\ session[p].state # "dangling" /\ d.to = p /\ ~Known(p, d)
        /\ direct' = direct \ {d}
        /\ UNCHANGED <<vars, written, shown, confirmed>>

--------------------------------------------------------------------------------
(* The network and the peers' programs *)

LoseData ==
    /\ Lossy
    /\ \E d \in direct : direct' = direct \ {d}
    /\ UNCHANGED <<vars, written, shown, confirmed>>

\* A program ends with its socket, and comes back without its chats' counters.
QuitMessages(p) ==
    /\ Quit(p)
    /\ direct' = {d \in direct : d.to # p}
    /\ UNCHANGED <<written, shown, confirmed>>

MessagesInit ==
    /\ Init
    /\ written = [p \in Peer |-> <<>>] /\ shown = [p \in Peer |-> <<>>]
    /\ confirmed = [p \in Peer |-> {}] /\ direct = {}

HandlesText(p) == HandleText(p) \/ HandleConfirmation(p)
ReadsData(p) ==
    ReceiveText(p) \/ ReceiveConfirmation(p) \/ ReceiveFromNobody(p) \/ ReceiveStrayData(p)

Step(p) ==
    \/ SendOverServer(p) \/ SendDirectly(p) \/ SendOnDangling(p)
    \/ HandlesText(p) \/ ReadsData(p) \/ QuitMessages(p)
    \/ (Negotiates(p) \/ Return(p)) /\ UNCHANGED messages

Next ==
    \/ \E p \in Peer : Step(p)
    \/ (\E d \in net : Lose(d)) /\ UNCHANGED messages
    \/ LoseData

Spec == MessagesInit /\ [][Next]_allVars

\* The server relays and its packets are handled in their order; the event loop
\* reads the sockets and serves the timers.
Fairness ==
    /\ NegotiationFairness
    /\ \A p \in Peer : WF_vars(HandlesInfo(p) \/ HandlesText(p)) /\ WF_messages(ReadsData(p))

FairSpec == Spec /\ Fairness

--------------------------------------------------------------------------------

Number == 1..MaxTexts

\* The types of the sessions and of the messages.
TypesOK ==
    /\ TypeOK
    /\ written \in [Peer -> Seq({"server", "direct"})]
    /\ shown \in [Peer -> Seq(Number)]
    /\ confirmed \in [Peer -> SUBSET Number]
    /\ direct \subseteq [to : Peer, type : {"im", "confirm"}, from : Peer, login : Login,
                         salt : Salt, n : Number]

ShownTo(p) == {shown[p][i] : i \in DOMAIN shown[p]}
Way(p, n) == written[p][n]

\* Whatever way messages take while sessions come and go: only what was written is
\* shown and only what was shown is confirmed, messages sent over the server are
\* shown once and in their order, and where UDP repeats nothing every message is
\* shown at most once (sendMessage, xf_contact.cpp:147, and handlePacket).
ShownAsWritten ==
    \A p \in Peer :
        /\ ShownTo(p) \subseteq DOMAIN written[Other(p)]
        /\ confirmed[Other(p)] \subseteq ShownTo(p)
        /\ \A i, j \in DOMAIN shown[p] : i < j =>
            /\ Way(Other(p), shown[p][i]) = "server" /\ Way(Other(p), shown[p][j]) = "server"
               => shown[p][i] < shown[p][j]
            /\ ~Lossy => shown[p][i] # shown[p][j]

\* Datagram d belongs to the session its sender has, which is with the receiver's
\* present login.
OfSession(d) ==
    /\ Current(d.from)
    /\ d.salt = session[d.from].salt /\ d.login = session[d.from].own

\* A direct message disappears unseen only for one of the reasons the design has:
\* UDP lost it, a program ended, the sender's session is with a former login of
\* the receiver, the receiver's lists do not name himself, or, on a slow network,
\* the receiver's timer gave his session up; a finished handshake is enough
\* otherwise (xf_contact.cpp:153).
VanishesForAReason ==
    [][\A d \in direct :
          d \notin direct' /\ d.type = "im" /\ OfSession(d) /\ ~Lossy
          => \/ shown'[d.to] # shown[d.to]
             \/ {d.to, d.from} \cap gone' # {}
             \/ d.to \notin world.listed
             \/ world.slow /\ session[d.to] = NoSession]_allVars

\* Between programs that stay up, every message sent over the server is shown in
\* the end, and every message at all if UDP loses nothing and is in time and the
\* receiver's lists name himself, however the way changes between messages
\* (xf_contact.cpp:153).
MessageArrives ==
    <>[](\/ fault \/ world.quits
         \/ \A p \in Peer : \A n \in DOMAIN written[p] :
               \/ Way(p, n) = "server"
               \/ ~Lossy /\ ~world.slow /\ Other(p) \in world.listed
               => n \in ShownTo(Other(p)))
================================================================================
