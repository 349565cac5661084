----------------------------- MODULE XfireContacts -----------------------------
(***************************************************************************)
(* The friends of an Xfire account as the client shows them: XfireAccount's *)
(* contacts, the packets XfireServer::handlePacket turns into calls on them *)
(* (lists of friends and of the clan, sessions, status messages, games,     *)
(* instant messages, invitations), and what the user does (invite, delete,  *)
(* answer an invitation).  The server and the friends are the environment:  *)
(* what is true of a friend is in `list', `session', `away' and `plays',    *)
(* and every change is told through `wire', the packets of the connection   *)
(* that were not handled yet, in order.                                     *)
(*                                                                          *)
(* A contact's m_id is not initialised by its constructor: until a friends  *)
(* list names the contact it may hold any number, another friend's id       *)
(* included.  `mistaken' records that such an id was used, once, for good.  *)
(* A packet with a list is a packet for each of its entries, in order.      *)
(*                                                                          *)
(* Operators whose names continue that of the definition after them are     *)
(* plausible faults of that definition.                                     *)
(***************************************************************************)
EXTENDS Naturals, Sequences, SequencesExt

CONSTANTS Friends,         \* people who are, were or become friends; also their ids
          Clan,            \* those who are in the user's clan
          NoId,            \* a number that is nobody's id
          Garbage,         \* ids an uninitialised m_id may happen to hold
          Games,           \* what friends play
          Named,           \* the games the client's games list has
          NoGame,          \* the game number 0
          MaxEvents,       \* bound on what friends and user do
          MaxConnections   \* bound on the connections

ASSUME ContactsAssumption ==
    /\ IsFiniteSet(Friends) /\ NoId \notin Friends /\ Clan \subseteq Friends
    /\ Garbage \subseteq Friends \cup {NoId}
    /\ MaxEvents \in Nat /\ MaxConnections \in Nat
ASSUME GamesAssumption == Named \subseteq Games /\ NoGame \notin Games

VARIABLES list,         \* friends of the account, at the server
          pending,      \* who invited the user and has no answer, at the server
          session,      \* n, if the friend is in his n-th session, or 0
          sessions,     \* how many sessions he has had
          away,         \* the friends whose status message is "(AFK) ..."
          plays,        \* the game each friend plays, or NoGame
          sent,         \* instant messages written by each friend
          wire,         \* packets from the server, not handled yet
          up,           \* the account is online
          connections,  \* connections made so far
          clanFriends,  \* the account's setting ClanFriends
          known,        \* the contacts of the account
          contact,      \* m_id, m_sid, status and propGame of each
          chat,         \* messages shown in each contact's chat
          asked,        \* whose invitation is shown, not answered yet
          deleted,      \* friends whose contact the user deleted since listed
          mistaken,     \* an m_id that was never set has been used
          ghosts,       \* contacts shown with a presence no one will take back
          gameGhosts,   \* contacts shown with a game no one will take back
          events        \* what friends and user have done
server == <<list, pending, session, sessions, away, plays, sent>>
client == <<clanFriends, known, contact, chat, asked>>
vars == <<server, wire, up, connections, client, deleted, mistaken, ghosts,
          gameGhosts, events>>

NoSid == <<>>
Sid(f, n) == IF n = 0 THEN NoSid ELSE <<f, n>>
Ids == Friends \cup {NoId}
playing == {f \in Friends : plays[f] # NoGame}

Drained == up /\ wire = <<>>

\* Of whom the server tells, and who has a contact because a list named him.
Told == list \cup Clan
Shown == list \cup (IF clanFriends THEN Clan ELSE {})

--------------------------------------------------------------------------------
(* What the server says. *)

Listed(fs) == [type |-> "friends", friends |-> fs]
ClanListed == [type |-> "clan", friends |-> Clan]
Invitations(fs) == [type |-> "invitations", friends |-> fs]
Session(f, n) == [type |-> "sid", id |-> f, sid |-> Sid(f, n)]
StatusMsg(f, n, afk) == [type |-> "status", sid |-> Sid(f, n), afk |-> afk]
GameInfo(f, n, g) == [type |-> "game", sid |-> Sid(f, n), game |-> g]
Chat(f, n) == [type |-> "im", sid |-> Sid(f, n)]

Tell(p) == wire' = IF up THEN wire \o p ELSE wire

Online(fs) == {f \in fs : session[f] # 0}

\* About friends: the sessions of those who are online, then what differs from the
\* default, status messages and games.
About(fs) ==
    SetToSeq({Session(f, session[f]) : f \in Online(fs)})
    \o SetToSeq({StatusMsg(f, session[f], TRUE) : f \in away \cap fs})
    \o SetToSeq({GameInfo(f, session[f], plays[f]) : f \in playing \cap fs})

--------------------------------------------------------------------------------
(* The client's operations on contacts. *)

\* XfireContact's constructor; m_id is whatever was in memory.
Fresh(garbage) == [id |-> garbage, sid |-> NoSid, status |-> "Offline", game |-> NoGame]

\* XfireAccount::findContact, by id and by session.
FindById(i) == {c \in known : contact[c].id = i}
FindBySid(s) == {c \in known : contact[c].sid = s}

\* XfireAccount::newContact and updateContactID for every name of a list.
NewContactsOnce(fs) ==
    /\ known' = IF known = {} THEN fs ELSE known
    /\ contact' = [c \in Friends |-> IF c \notin fs THEN contact[c]
                     ELSE [(IF c \in known THEN contact[c] ELSE Fresh(c)) EXCEPT !.id = c]]
NewContacts(fs) ==
    /\ known' = known \cup fs
    /\ contact' = [c \in Friends |-> IF c \notin fs THEN contact[c]
                     ELSE [(IF c \in known THEN contact[c] ELSE Fresh(c)) EXCEPT !.id = c]]

\* The status a session means: a contact is offline when the session is invalid.
StatusOfAlways(s) == "Online"
StatusOf(s) == IF s = NoSid THEN "Offline" ELSE "Online"

\* XfireAccount::updateContactSID on the contact found.
UpdateSidOnce(c, s) ==
    contact' = [contact EXCEPT ![c].sid = IF @ = NoSid THEN s ELSE @, ![c].status = StatusOf(s)]
UpdateSid(c, s) ==
    contact' = [contact EXCEPT ![c].sid = s, ![c].status = StatusOf(s)]

\* XfireAccount::setStatus on the contact found.
SetStatusAwayOnly(c, afk) ==
    contact' = [contact EXCEPT ![c].status = IF afk THEN "Away" ELSE @]
SetStatus(c, afk) ==
    contact' = [contact EXCEPT ![c].status = IF afk THEN "Away" ELSE "Online"]

\* XfireGamesList::getGameNameFromID; nothing when the list does not have the game.
GameName(g) == IF g \in Named THEN g ELSE NoGame

\* XfireAccount::updateContactGameInformation on the contact found: the properties
\* are removed, and propGame is set if the game has a name.  The text "Playing ..."
\* is left out.
UpdateGameKeeps(c, g) ==
    contact' = [contact EXCEPT ![c].game = IF g \in Named THEN g ELSE @]
UpdateGame(c, g) == contact' = [contact EXCEPT ![c].game = GameName(g)]

\* XfireContact::receivedMessage, with the confirmation sent for it.
ReceivedMessageTwice(c) == chat' = [chat EXCEPT ![c] = @ + 2]
ReceivedMessage(c) == chat' = [chat EXCEPT ![c] = @ + 1]

--------------------------------------------------------------------------------
(* XfireServer::handlePacket, one action per packet. *)

Receive(type) == wire # <<>> /\ Head(wire).type = type /\ wire' = Tail(wire)
Handled == UNCHANGED <<server, clanFriends, up, connections, ghosts, gameGhosts, events>>

HandleFriends ==
    /\ Receive("friends") /\ Handled
    /\ NewContacts(Head(wire).friends)
    /\ deleted' = deleted \ Head(wire).friends
    /\ UNCHANGED <<chat, asked, mistaken>>

\* Clan list and clan friends list: contacts like the others, in a group of the
\* clan's, if the user wants them.
HandleClan ==
    /\ Receive("clan") /\ Handled
    /\ \/ clanFriends /\ NewContacts(Head(wire).friends)
          /\ deleted' = deleted \ Head(wire).friends
       \/ ~clanFriends /\ UNCHANGED <<known, contact, deleted>>
    /\ UNCHANGED <<chat, asked, mistaken>>

\* The user is asked about each invitation, whoever he has among his contacts.
AskedOfStrangers(fs) == asked' = asked \cup (fs \ known)
Asked(fs) == asked' = asked \cup fs

HandleInvitations ==
    /\ Receive("invitations") /\ Handled
    /\ Asked(Head(wire).friends)
    /\ UNCHANGED <<known, contact, chat, deleted, mistaken>>

HandleSid ==
    LET p == Head(wire) IN
    /\ Receive("sid") /\ Handled
    /\ \/ \E c \in FindById(p.id) :
            UpdateSid(c, p.sid) /\ mistaken' = (mistaken \/ c # p.id)
       \/ FindById(p.id) = {} /\ UNCHANGED <<contact, mistaken>>
    /\ UNCHANGED <<known, chat, asked, deleted>>

HandleStatus ==
    LET p == Head(wire) IN
    /\ Receive("status") /\ Handled
    /\ \/ \E c \in FindBySid(p.sid) : SetStatus(c, p.afk)
       \/ FindBySid(p.sid) = {} /\ UNCHANGED contact
    /\ UNCHANGED <<known, chat, asked, deleted, mistaken>>

HandleGame ==
    LET p == Head(wire) IN
    /\ Receive("game") /\ Handled
    /\ \/ \E c \in FindBySid(p.sid) : UpdateGame(c, p.game)
       \/ FindBySid(p.sid) = {} /\ UNCHANGED contact
    /\ UNCHANGED <<known, chat, asked, deleted, mistaken>>

HandleChat ==
    LET p == Head(wire) IN
    /\ Receive("im") /\ Handled
    /\ \/ \E c \in FindBySid(p.sid) : ReceivedMessage(c)
       \/ FindBySid(p.sid) = {} /\ UNCHANGED chat
    /\ UNCHANGED <<known, contact, asked, deleted, mistaken>>

--------------------------------------------------------------------------------
(* What the server does about a friend (external). *)

\* Who is or will be shown online, or in a game, and is not: the server says
\* nothing more of them when it describes a list anew.
Mentioned(f) == \E i \in 1..Len(wire) :
    \/ wire[i].type = "sid" /\ wire[i].id = f
    \/ wire[i].type \in {"status", "game"} /\ wire[i].sid[1] = f
Ghosts(fs) ==
    {f \in fs : session[f] = 0 /\ (contact[f].status # "Offline" \/ Mentioned(f))}
GameGhosts(fs) ==
    {f \in fs : f \notin playing /\ (contact[f].game # NoGame \/ Mentioned(f))}

\* The server makes f a friend, and describes him.
MakesFriend(f) ==
    /\ list' = list \cup {f}
    /\ Tell(<< Listed({f}) >> \o About({f}))
    /\ ghosts' = (ghosts \ {f}) \cup Ghosts({f})
    /\ gameGhosts' = (gameGhosts \ {f}) \cup GameGhosts({f})

\* An answer to an invitation that is not pending any more means nothing.
ServerAccepts(f) ==
    \/ f \in pending /\ pending' = pending \ {f} /\ MakesFriend(f)
    \/ f \notin pending /\ UNCHANGED <<list, pending, wire, ghosts, gameGhosts>>

--------------------------------------------------------------------------------
(* The user. *)

Acts == up /\ events < MaxEvents /\ events' = events + 1

\* XfireAddContactPage::apply: an invitation, and a temporary contact at once, unless
\* there is a contact, which Kopete's addContact leaves alone.
InviteContact(f) == up /\ f \in known /\ UNCHANGED vars
Invite(f) ==
    /\ Acts /\ f \notin known
    /\ known' = known \cup {f}
    /\ \E garbage \in Garbage : contact' = [contact EXCEPT ![f] = Fresh(garbage)]
    /\ UNCHANGED <<server, wire, up, connections, clanFriends, chat, asked, deleted,
                   mistaken, ghosts, gameGhosts>>

\* sendFriendRemoval, received by the server.
SendFriendRemoval(i) == list' = list \ {i}

\* XfireContact::deleteContact: the removal is sent with m_id.
DeleteContact(f) ==
    /\ Acts /\ f \in known
    /\ known' = known \ {f}
    /\ SendFriendRemoval(contact[f].id)
    /\ contact' = [contact EXCEPT ![f] = Fresh(NoId)]
    /\ deleted' = deleted \cup {f}
    /\ mistaken' = (mistaken \/ contact[f].id # f)
    /\ UNCHANGED <<pending, session, sessions, away, plays, sent, wire, up, connections,
                   clanFriends, chat, asked, ghosts, gameGhosts>>

\* sendFriendInvitationResponse: lost while there is no connection.
SendFriendInvitationResponse(f, response) ==
    \/ up /\ response /\ ServerAccepts(f)
    \/ up /\ ~response /\ pending' = pending \ {f}
          /\ UNCHANGED <<list, wire, ghosts, gameGhosts>>
    \/ ~up /\ UNCHANGED <<list, pending, wire, ghosts, gameGhosts>>

\* slotAddedInfoEventActionActivated: add or block.
Answer(f) ==
    /\ f \in asked /\ asked' = asked \ {f}
    /\ \E response \in BOOLEAN : SendFriendInvitationResponse(f, response)
    /\ UNCHANGED <<session, sessions, away, plays, sent, up, connections, clanFriends,
                   known, contact, chat, deleted, mistaken, events>>

--------------------------------------------------------------------------------
(* Server and friends (external). *)

FriendActs == events < MaxEvents /\ events' = events + 1
Elsewhere == UNCHANGED <<up, connections, client, deleted, mistaken>>

\* He answers the user's invitation, or the server makes them friends anyway.
Befriend(f) ==
    /\ FriendActs /\ f \notin list
    /\ MakesFriend(f) /\ pending' = pending \ {f}
    /\ Elsewhere /\ UNCHANGED <<session, sessions, away, plays, sent>>

\* He invites the user.
Invites(f) ==
    /\ FriendActs /\ f \notin list /\ f \notin pending
    /\ pending' = pending \cup {f}
    /\ Tell(<< Invitations({f}) >>)
    /\ Elsewhere /\ UNCHANGED <<list, session, sessions, away, plays, sent, ghosts, gameGhosts>>

ComesOnline(f) ==
    /\ FriendActs /\ session[f] = 0
    /\ sessions' = [sessions EXCEPT ![f] = @ + 1]
    /\ session' = [session EXCEPT ![f] = sessions[f] + 1]
    /\ IF f \in Told THEN Tell(<< Session(f, sessions[f] + 1) >>) ELSE UNCHANGED wire
    /\ ghosts' = ghosts \ {f}
    /\ Elsewhere /\ UNCHANGED <<list, pending, away, plays, sent, gameGhosts>>

\* He may leave in the middle of a game: that it ended is not told.
GoesOffline(f) ==
    /\ FriendActs /\ session[f] # 0
    /\ session' = [session EXCEPT ![f] = 0]
    /\ away' = away \ {f} /\ plays' = [plays EXCEPT ![f] = NoGame]
    /\ gameGhosts' = IF f \in playing THEN gameGhosts \cup {f} ELSE gameGhosts
    /\ IF f \in Told THEN Tell(<< Session(f, 0) >>) ELSE UNCHANGED wire
    /\ Elsewhere /\ UNCHANGED <<list, pending, sessions, sent, ghosts>>

ChangesStatus(f) ==
    /\ FriendActs /\ session[f] # 0
    /\ away' = IF f \in away THEN away \ {f} ELSE away \cup {f}
    /\ IF f \in Told THEN Tell(<< StatusMsg(f, session[f], f \notin away) >>) ELSE UNCHANGED wire
    /\ Elsewhere /\ UNCHANGED <<list, pending, session, sessions, plays, sent, ghosts, gameGhosts>>

\* He starts a game, changes it or ends it.
ChangesGame(f) ==
    /\ FriendActs /\ session[f] # 0
    /\ \E g \in (Games \cup {NoGame}) \ {plays[f]} :
          /\ plays' = [plays EXCEPT ![f] = g]
          /\ IF f \in Told THEN Tell(<< GameInfo(f, session[f], g) >>) ELSE UNCHANGED wire
    /\ gameGhosts' = gameGhosts \ {f}
    /\ Elsewhere /\ UNCHANGED <<list, pending, session, sessions, away, sent, ghosts>>

Writes(f) ==
    /\ FriendActs /\ session[f] # 0 /\ f \in Told /\ up
    /\ sent' = [sent EXCEPT ![f] = @ + 1]
    /\ Tell(<< Chat(f, session[f]) >>)
    /\ Elsewhere /\ UNCHANGED <<list, pending, session, sessions, away, plays, ghosts, gameGhosts>>

\* A login: the lists, the sessions, status messages and games of the friends who
\* are online, and the invitations.  Nothing is said of the others, whatever is shown.
LogsIn ==
    /\ ~up /\ wire = <<>> /\ connections < MaxConnections
    /\ up' = TRUE /\ connections' = connections + 1
    /\ wire' = << Listed(list), ClanListed >> \o About(Told) \o << Invitations(pending) >>
    /\ ghosts' = Ghosts(Friends) /\ gameGhosts' = GameGhosts(Friends)
    /\ UNCHANGED <<server, client, deleted, mistaken, events>>

\* The connection ends.  The packets already in m_buffer are still handled, since
\* socketRead's loop goes on (XfireStream); the others are lost.
Disconnects ==
    /\ up /\ up' = FALSE
    /\ \E n \in 0..Len(wire) : wire' = SubSeq(wire, 1, n)
    /\ UNCHANGED <<server, connections, client, deleted, mistaken, ghosts, gameGhosts, events>>

--------------------------------------------------------------------------------
\* Whoever was a contact may be saved (deserializeContact asks nobody); a saved
\* contact has no id.
Init ==
    /\ list \in SUBSET Friends /\ pending = {} /\ clanFriends \in BOOLEAN
    /\ session = [f \in Friends |-> 0] /\ sessions = session
    /\ away = {} /\ plays = [f \in Friends |-> NoGame] /\ sent = [f \in Friends |-> 0]
    /\ wire = <<>> /\ up = FALSE /\ connections = 0
    /\ known \in SUBSET Friends
    /\ \E garbage \in [known -> Garbage] :
          contact = [f \in Friends |-> Fresh(IF f \in known THEN garbage[f] ELSE NoId)]
    /\ chat = [f \in Friends |-> 0]
    /\ asked = {} /\ deleted = {} /\ mistaken = FALSE
    /\ ghosts = {} /\ gameGhosts = {}
    /\ events = 0

Handle ==
    \/ HandleFriends \/ HandleClan \/ HandleInvitations
    \/ HandleSid \/ HandleStatus \/ HandleGame \/ HandleChat

Environment(f) ==
    \/ Befriend(f) \/ Invites(f) \/ ComesOnline(f) \/ GoesOffline(f)
    \/ ChangesStatus(f) \/ ChangesGame(f) \/ Writes(f)

Next ==
    \/ Handle
    \/ LogsIn \/ Disconnects
    \/ \E f \in Friends : Invite(f) \/ InviteContact(f) \/ DeleteContact(f) \/ Answer(f)
    \/ \E f \in Friends : Environment(f)

Spec == Init /\ [][Next]_vars

\* Once a wrong id was used everything may go wrong: not explored further.
IdsRight == ~mistaken

--------------------------------------------------------------------------------
\* Types; no chat shows more messages than its friend wrote.
TypeOK ==
    /\ list \subseteq Friends /\ known \subseteq Friends
    /\ pending \subseteq Friends \ list /\ asked \subseteq Friends
    /\ \A f \in Friends :
        /\ session[f] \in {0, sessions[f]} /\ sessions[f] \in 0..MaxEvents
        /\ sent[f] \in 0..MaxEvents
        /\ ~mistaken => chat[f] \in 0..sent[f]
        /\ contact[f].id \in Ids /\ contact[f].status \in {"Offline", "Online", "Away"}
        /\ contact[f].sid \in {NoSid} \cup (Friends \X (1..MaxEvents))
        /\ contact[f].game \in Named \cup {NoGame} /\ plays[f] \in Games \cup {NoGame}
    /\ away \cup playing \subseteq Online(Friends)
    /\ deleted \cup ghosts \cup gameGhosts \subseteq Friends
    /\ {up, mistaken, clanFriends} \subseteq BOOLEAN
    /\ connections \in 0..MaxConnections /\ events \in 0..MaxEvents

\* Once everything the server said is handled, every friend has a contact, and
\* those of the clan who are wanted, and every invitation without an answer is
\* shown to the user, whatever was saved, invited, deleted, answered and cut off
\* before (handlePacket, cases 0x0083, 0x009f and 0x008a; newContact).
ListsShown ==
    Drained /\ ~mistaken =>
        /\ Shown \ deleted \subseteq known /\ list \subseteq known
        /\ pending \subseteq asked

\* Once everything the server said is handled, each contact has his friend's
\* present session, status and game (if it has a name), across sessions and
\* reconnects, except what no packet will correct (updateContactSID; setStatus and
\* updateContactGameInformation, which look for the session and so depend on the
\* session packets before theirs).
Settled ==
    Drained /\ ~mistaken => \A f \in (Shown \cap known) \ deleted :
        /\ f \notin ghosts =>
            /\ contact[f].sid = Sid(f, session[f])
            /\ contact[f].status = IF session[f] = 0 THEN "Offline"
                                   ELSE IF f \in away THEN "Away" ELSE "Online"
        /\ f \notin gameGhosts => contact[f].game = GameName(plays[f])

\* A message that is handled appears in the chat of the one who wrote it, and
\* nowhere else, unless the user deleted that contact meanwhile or does not want
\* those of the clan: the session it names is always the one the contact has
\* (handlePacket, case 0x0085).
ChatsDelivered ==
    [][\A f \in Friends :
          /\ up' = up /\ wire # <<>> /\ wire' = Tail(wire) /\ ~mistaken
          /\ Head(wire).type = "im" /\ Head(wire).sid[1] = f
          => \/ chat' = [chat EXCEPT ![f] = @ + 1]
             \/ chat' = chat /\ f \in deleted
             \/ chat' = chat /\ f \in Clan /\ ~clanFriends]_vars

================================================================================
