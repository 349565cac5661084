-------------------------- MODULE XfireContactsProofs --------------------------
(***************************************************************************)
(* Friends as the client shows them, for any friends, clan, games, events  *)
(* and connections, until an id that was never set is used.                *)
(*                                                                         *)
(* What is shown lags behind what is true by the packets in `wire'.  The    *)
(* invariant says of each friend and of each facet of him (his session,    *)
(* his status, his game) that the last word on it in `wire' is the truth,   *)
(* or that `wire' is silent and the truth is shown already; that a contact  *)
(* without an id, or a deleted one, gets its id from a list before anything *)
(* that matters is told; and that whatever is looked up by a session comes *)
(* behind the packet that brings this session.                             *)
(*                                                                         *)
(* It has four parts, each shown to be inductive with the help of those     *)
(* before it: Basic (types, counts, what one contact can show), Written     *)
(* (messages are counted), Appear (who is listed has a contact, or will),   *)
(* and Agreed (what was shown, is told, and is true).                       *)
(***************************************************************************)
EXTENDS XfireContacts, FiniteSetTheorems, SequenceTheorems, TLAPS

Sids == {NoSid} \cup (Friends \X (1..MaxEvents))
Statuses == {"Offline", "Online", "Away"}
Contacts == [id : Ids, sid : Sids, status : Statuses,
             game : Named \cup {NoGame}]

Playable == Games \cup {NoGame}

Present == Friends \X (1..MaxEvents)
Lists == [type : {"friends", "clan", "invitations"}, friends : SUBSET Friends]
Sessions(f) == [type : {"sid"}, id : {f}, sid : {NoSid} \cup ({f} \X (1..MaxEvents))]
StatusMsgs == [type : {"status"}, sid : Present, afk : BOOLEAN]
GameInfos == [type : {"game"}, sid : Present, game : Playable]
Chats == [type : {"im"}, sid : Present]
Packets == Lists \cup (UNION {Sessions(f) : f \in Friends}) \cup StatusMsgs \cup GameInfos \cup Chats

Typed ==
    /\ list \subseteq Friends /\ known \subseteq Friends
    /\ pending \subseteq Friends \ list /\ asked \subseteq Friends
    /\ session \in [Friends -> 0..MaxEvents] /\ sessions \in [Friends -> 0..MaxEvents]
    /\ plays \in [Friends -> Playable]
    /\ sent \in [Friends -> 0..MaxEvents] /\ chat \in [Friends -> Nat]
    /\ contact \in [Friends -> Contacts]
    /\ wire \in Seq(Packets)
    /\ away \cup playing \subseteq Online(Friends)
    /\ deleted \subseteq Friends /\ ghosts \subseteq Friends /\ gameGhosts \subseteq Friends
    /\ up \in BOOLEAN /\ mistaken \in BOOLEAN /\ clanFriends \in BOOLEAN
    /\ connections \in 0..MaxConnections /\ events \in 0..MaxEvents

Counted ==
    \A f \in Friends : /\ session[f] \in {0, sessions[f]}
                       /\ sessions[f] <= events /\ sent[f] <= events

--------------------------------------------------------------------------------
(* What a packet is about. *)

\* What is shown of a friend, and what is if he is not online.
Facets == {"sid", "status", "game"}
Nothing == [sid |-> NoSid, status |-> "Offline", game |-> NoGame]

\* Packet p tells of facet x of friend f; and what it tells.
Tells(p, f, x) ==
    \/ p.type = "sid" /\ p.id = f /\ x \in {"sid", "status"}
    \/ p.type = x /\ x # "sid" /\ p.sid[1] = f
Said(p, x) ==
    IF x = "sid" THEN p.sid
    ELSE IF x = "game" THEN GameName(p.game)
    ELSE IF p.type = "sid" THEN StatusOf(p.sid)
    ELSE IF p.afk THEN "Away" ELSE "Online"

\* Packet p is looked up by a session of friend f.
Uses(p, f) == p.type \in {"status", "game", "im"} /\ p.sid[1] = f

\* After packet p friend f has a contact with his id; the clan's if they are wanted.
Names(p, f, wanted) ==
    /\ p.type = "friends" \/ (p.type = "clan" /\ wanted)
    /\ f \in p.friends

Silent(w, f, x, from, to) == \A i \in from..to : ~Tells(w[i], f, x)

\* Behind position k of w the last word on facet x of f is v.
LastWord(w, f, x, k, v) ==
    \E i \in (k + 1)..Len(w) :
        Tells(w[i], f, x) /\ Said(w[i], x) = v /\ Silent(w, f, x, i + 1, Len(w))

\* The last session told of f between positions k and j of w is the one j uses.
Introduced(w, f, k, j) ==
    \E i \in (k + 1)..(j - 1) :
        Tells(w[i], f, "sid") /\ w[i].sid = w[j].sid /\ Silent(w, f, "sid", i + 1, j - 1)

--------------------------------------------------------------------------------
(* The invariant. *)

Ready(f) == f \in known /\ contact[f].id = f /\ f \notin deleted
Unwanted(f) == f \in Clan /\ ~clanFriends

Truth(f) ==
    [sid |-> Sid(f, session[f]),
     status |-> IF session[f] = 0 THEN "Offline" ELSE IF f \in away THEN "Away" ELSE "Online",
     game |-> GameName(plays[f])]
Excused(f, x) == f \in IF x = "game" THEN gameGhosts ELSE ghosts

\* With wire handled, facet x of f will be shown as it is: once a list has named him,
\* and at once if his contact is there.
FollowsNamed(f, x) ==
    \A k \in 1..Len(wire) : Names(wire[k], f, clanFriends) =>
        \/ LastWord(wire, f, x, k, Truth(f)[x])
        \/ /\ Silent(wire, f, x, 1, Len(wire))
           /\ contact[f][x] = Nothing[x] /\ Truth(f)[x] = Nothing[x]
FollowsReady(f, x) ==
    Ready(f) /\ f \in Shown =>
        \/ LastWord(wire, f, x, 0, Truth(f)[x])
        \/ Silent(wire, f, x, 1, Len(wire)) /\ contact[f][x] = Truth(f)[x]

Follows(f) ==
    up /\ f \in Told => \A x \in Facets : ~Excused(f, x) =>
        FollowsNamed(f, x) /\ FollowsReady(f, x)

\* What uses a session comes behind the session packet, in a wire that names f first,
InOrder(f) == \A j \in 1..Len(wire) : Uses(wire[j], f) =>
    \A k \in 1..(j - 1) : Names(wire[k], f, clanFriends) => Introduced(wire, f, k, j)

\* or for a contact that is there; one of the clan who is not wanted is not told of so.
Found(f, j) ==
    \/ Introduced(wire, f, 0, j)
    \/ Silent(wire, f, "sid", 1, j - 1) /\ contact[f].sid = wire[j].sid
    \/ /\ Unwanted(f)
       /\ f \notin list \/ ~up \/ \E k \in (j + 1)..Len(wire) : Names(wire[k], f, clanFriends)
Usable(f) == \A j \in 1..Len(wire) : Uses(wire[j], f) /\ Ready(f) => Found(f, j)

\* Who is told of, is there or is named before.
NamedFirst(f) == \A j \in 1..Len(wire) : Uses(wire[j], f) =>
    Ready(f) \/ f \in deleted \/ Unwanted(f)
    \/ \E k \in 1..(j - 1) : Names(wire[k], f, clanFriends)

Agrees(f) == Follows(f) /\ InOrder(f) /\ Usable(f) /\ NamedFirst(f)
Agreed == ~mistaken => \A f \in Friends : Agrees(f)

Coming(f) == \E k \in 1..Len(wire) : Names(wire[k], f, clanFriends)
Announced(f) == \E k \in 1..Len(wire) : wire[k].type = "invitations" /\ f \in wire[k].friends

Appear ==
    up => /\ \A f \in Shown : Ready(f) \/ f \in deleted \/ Coming(f)
          /\ ~mistaken => \A f \in list : f \in known \/ Coming(f)
          /\ \A f \in pending : f \in asked \/ Announced(f)

\* Of one friend's contact.
Sane ==
    \A f \in Friends :
        /\ contact[f].status = "Offline" <=> contact[f].sid = NoSid
        /\ ~mistaken /\ contact[f].sid # NoSid => contact[f].sid[1] = f
        /\ f \in ghosts => session[f] = 0
        /\ f \notin known => contact[f].sid = NoSid /\ contact[f].game = NoGame

Ims(w, f) == {i \in 1..Len(w) : w[i].type = "im" /\ w[i].sid[1] = f}

\* Every message shown or on its way was written.
Written ==
    ~mistaken => \A f \in Friends : chat[f] + Cardinality(Ims(wire, f)) <= sent[f]

--------------------------------------------------------------------------------
(* Packets, and what the server says. *)

USE ContactsAssumption, GamesAssumption

\* The fields of a packet, by its type.
LEMMA PacketFields ==
    ASSUME NEW p \in Packets
    PROVE  /\ p.type \in {"friends", "clan", "invitations", "sid", "status", "game", "im"}
           /\ p.type \in {"friends", "clan", "invitations"} => p.friends \subseteq Friends
           /\ p.type = "sid" => p.id \in Friends
                                /\ p.sid \in {NoSid} \cup ({p.id} \X (1..MaxEvents))
           /\ p.type \in {"status", "game", "im"} => p.sid \in Present
           /\ p.type = "status" => p.afk \in BOOLEAN
           /\ p.type = "game" => p.game \in Playable
<1>1. CASE p \in Lists
  BY <1>1 DEF Lists
<1>2. ASSUME NEW f \in Friends, p \in Sessions(f)
      PROVE  p.type = "sid" /\ p.id = f /\ p.sid \in {NoSid} \cup ({f} \X (1..MaxEvents))
  BY <1>2 DEF Sessions
<1>3. CASE p \in StatusMsgs
  BY <1>3 DEF StatusMsgs
<1>4. CASE p \in GameInfos
  BY <1>4 DEF GameInfos
<1>5. CASE p \in Chats
  BY <1>5 DEF Chats
<1>6. CASE p \in UNION {Sessions(f) : f \in Friends}
  <2>1. PICK f \in Friends : p \in Sessions(f)
    BY <1>6
  <2> QED  BY <1>2, <2>1
<1> QED  BY <1>1, <1>3, <1>4, <1>5, <1>6 DEF Packets

\* A session number above 0 names a session of f and of nobody else; 0 names none.
LEMMA SidsOf ==
    ASSUME NEW f \in Friends, NEW n \in 1..MaxEvents
    PROVE  /\ Sid(f, n) = <<f, n>> /\ Sid(f, n) \in Present
           /\ Sid(f, n) # NoSid /\ Sid(f, n)[1] = f
           /\ Sid(f, 0) = NoSid
BY DEF Sid, NoSid, Present

\* A session of somebody is not the session that stands for none.
LEMMA PresentSids ==
    ASSUME NEW s \in Present
    PROVE  s # NoSid /\ s[1] \in Friends
BY DEF Present, NoSid

\* The name of a game is one the list has, or none; no game has none.
LEMMA GameNames ==
    /\ \A g : GameName(g) \in Named \cup {NoGame}
    /\ GameName(NoGame) = NoGame
BY DEF GameName

\* Who plays, and that a game is something to play.
LEMMA Players ==
    ASSUME Typed
    PROVE  /\ playing \subseteq Friends /\ plays \in [Friends -> Playable]
           /\ \A f \in Friends : plays[f] \in Playable /\ (f \in playing <=> plays[f] # NoGame)
BY DEF Typed, playing

\* What the server writes are packets.
LEMMA PacketsMade ==
    /\ \A fs \in SUBSET Friends : Listed(fs) \in Packets /\ Invitations(fs) \in Packets
    /\ ClanListed \in Packets
    /\ \A f \in Friends, n \in 0..MaxEvents : Session(f, n) \in Packets
    /\ \A f \in Friends, n \in 1..MaxEvents :
          /\ \A b \in BOOLEAN : StatusMsg(f, n, b) \in Packets
          /\ \A g \in Playable : GameInfo(f, n, g) \in Packets
          /\ Chat(f, n) \in Packets
<1>1. \A fs \in SUBSET Friends : Listed(fs) \in Packets /\ Invitations(fs) \in Packets
  BY DEF Packets, Lists, Listed, Invitations
<1>2. ClanListed \in Packets
  BY DEF Packets, Lists, ClanListed
<1>3. ASSUME NEW f \in Friends, NEW n \in 0..MaxEvents
      PROVE  Session(f, n) \in Packets
  <2>1. Sid(f, n) \in {NoSid} \cup ({f} \X (1..MaxEvents))
    BY DEF Sid
  <2>2. Session(f, n) \in Sessions(f)
    BY <2>1 DEF Session, Sessions
  <2> QED  BY <2>2 DEF Packets
<1>4. ASSUME NEW f \in Friends, NEW n \in 1..MaxEvents
      PROVE  /\ \A b \in BOOLEAN : StatusMsg(f, n, b) \in Packets
             /\ \A g \in Playable : GameInfo(f, n, g) \in Packets
             /\ Chat(f, n) \in Packets
  <2>1. Sid(f, n) \in Present
    BY SidsOf
  <2>2. Chat(f, n) \in Chats
    BY <2>1 DEF Chats, Chat
  <2>3. ASSUME NEW b \in BOOLEAN
        PROVE  StatusMsg(f, n, b) \in StatusMsgs
    BY <2>1, <2>3 DEF StatusMsg, StatusMsgs
  <2>4. ASSUME NEW g \in Playable
        PROVE  GameInfo(f, n, g) \in GameInfos
    BY <2>1, <2>4 DEF GameInfo, GameInfos
  <2> QED  BY <2>2, <2>3, <2>4 DEF Packets
<1> QED  BY <1>1, <1>2, <1>3, <1>4

\* SetToSeq lists every element of a finite set exactly once.
LEMMA SetAsSequence ==
    ASSUME NEW S, IsFiniteSet(S)
    PROVE  /\ SetToSeq(S) \in Seq(S)
           /\ \A i \in 1..Len(SetToSeq(S)) : SetToSeq(S)[i] \in S
           /\ \A x \in S : \E i \in 1..Len(SetToSeq(S)) : SetToSeq(S)[i] = x
           /\ \A i, j \in 1..Len(SetToSeq(S)) : SetToSeq(S)[i] = SetToSeq(S)[j] => i = j
<1> DEFINE n == Cardinality(S)
           q == SetToSeq(S)
<1>1. n \in Nat /\ ExistsBijection(1..n, S)
  BY FS_CardinalityType
<1>2. PICK b \in [1..n -> S] : IsInjective(b)
  BY <1>1 DEF ExistsBijection, Bijection, Injection
<1>3. q \in [1..n -> S] /\ IsInjective(q)
  BY <1>2 DEF SetToSeq
<1>4. q \in Seq(S) /\ Len(q) = n
  <2>1. q \in Seq(S)
    BY <1>1, <1>3, SeqDef
  <2>2. Len(q) \in Nat /\ DOMAIN q = 1..Len(q)
    BY <2>1, LenProperties
  <2>3. DOMAIN q = 1..n
    BY <1>3
  <2> QED  BY <1>1, <2>1, <2>2, <2>3
<1>5. q \in Surjection(1..n, S)
  <2>1. IsFiniteSet(1..n) /\ Cardinality(1..n) = n
    BY <1>1, FS_Interval
  <2>2. q \in Injection(1..n, S)
    BY <1>3 DEF Injection
  <2> QED  BY <2>1, <2>2, FS_Injection
<1> QED  BY <1>3, <1>4, <1>5 DEF Surjection, IsInjective

\* One packet per friend: finitely many of each type.
LEMMA FiniteImages ==
    ASSUME NEW fs \in SUBSET Friends
    PROVE  /\ IsFiniteSet({Session(f, session[f]) : f \in fs})
           /\ IsFiniteSet({StatusMsg(f, session[f], TRUE) : f \in fs})
           /\ IsFiniteSet({GameInfo(f, session[f], plays[f]) : f \in fs})
<1>1. IsFiniteSet(fs)
  BY FS_Subset
<1>2. IsFiniteSet({Session(f, session[f]) : f \in fs})
  <2> DEFINE T == {Session(f, session[f]) : f \in fs}
             m == [f \in fs |-> Session(f, session[f])]
  <2>1. m \in Surjection(fs, T)
    BY DEF Surjection
  <2> QED  BY <1>1, <2>1, FS_Surjection
<1>3. IsFiniteSet({StatusMsg(f, session[f], TRUE) : f \in fs})
  <2> DEFINE T == {StatusMsg(f, session[f], TRUE) : f \in fs}
             m == [f \in fs |-> StatusMsg(f, session[f], TRUE)]
  <2>1. m \in Surjection(fs, T)
    BY DEF Surjection
  <2> QED  BY <1>1, <2>1, FS_Surjection
<1>4. IsFiniteSet({GameInfo(f, session[f], plays[f]) : f \in fs})
  <2> DEFINE T == {GameInfo(f, session[f], plays[f]) : f \in fs}
             m == [f \in fs |-> GameInfo(f, session[f], plays[f])]
  <2>1. m \in Surjection(fs, T)
    BY DEF Surjection
  <2> QED  BY <1>1, <2>1, FS_Surjection
<1> QED  BY <1>2, <1>3, <1>4

\* What the server says about friends is a sequence of packets.
LEMMA AboutPackets ==
    ASSUME Typed, Counted, NEW fs \in SUBSET Friends
    PROVE  About(fs) \in Seq(Packets)
<1> DEFINE A == {Session(f, session[f]) : f \in Online(fs)}
           B == {StatusMsg(f, session[f], TRUE) : f \in away \cap fs}
           C == {GameInfo(f, session[f], plays[f]) : f \in playing \cap fs}
<1>1. Online(fs) \in SUBSET Friends /\ away \cap fs \in SUBSET Friends
      /\ playing \cap fs \in SUBSET Friends
  BY DEF Online
<1>2. /\ \A f \in Friends : session[f] \in 0..MaxEvents /\ plays[f] \in Playable
      /\ \A f \in away \cup playing : f \in Friends /\ session[f] \in 1..MaxEvents
  BY DEF Typed, Online
<1>3. A \subseteq Packets
  BY <1>1, <1>2, PacketsMade
<1>4. B \subseteq Packets
  BY <1>1, <1>2, PacketsMade
<1>8. C \subseteq Packets
  <2>1. \A f \in playing \cap fs : GameInfo(f, session[f], plays[f]) \in Packets
    BY <1>1, <1>2, PacketsMade
  <2> QED  BY <2>1
<1>5. IsFiniteSet(A) /\ IsFiniteSet(B) /\ IsFiniteSet(C)
  BY <1>1, FiniteImages
<1>6. About(fs) = SetToSeq(A) \o SetToSeq(B) \o SetToSeq(C)
  BY DEF About
<1> HIDE DEF A, B, C
<1>7. SetToSeq(A) \in Seq(Packets) /\ SetToSeq(B) \in Seq(Packets) /\ SetToSeq(C) \in Seq(Packets)
  BY <1>3, <1>4, <1>8, <1>5, SetAsSequence, SeqMonotonic
<1> QED  BY <1>6, <1>7, ConcatProperties

\* A packet that is received is the first of wire, and leaves it.
LEMMA Received ==
    ASSUME wire \in Seq(Packets), NEW t, Receive(t)
    PROVE  /\ wire # <<>> /\ wire' = Tail(wire) /\ Len(wire) \in Nat \ {0}
           /\ Head(wire) \in Packets /\ Head(wire).type = t /\ Head(wire) = wire[1]
           /\ wire' \in Seq(Packets) /\ Len(wire') = Len(wire) - 1
           /\ \A i \in 1..Len(wire') : wire'[i] = wire[i + 1]
<1>1. wire # <<>> /\ wire' = Tail(wire) /\ Head(wire).type = t
  BY DEF Receive
<1>2. Head(wire) = wire[1]
  BY <1>1
<1> QED  BY <1>1, <1>2, HeadTailProperties, EmptySeq

\* Whatever the server says, wire is a sequence of packets.
LEMMA TellTyped ==
    ASSUME wire \in Seq(Packets), NEW q \in Seq(Packets), Tell(q)
    PROVE  wire' \in Seq(Packets)
BY ConcatProperties DEF Tell

\* A contact that was just created shows nothing and has the id it found in memory.
LEMMA FreshContact ==
    ASSUME NEW g \in Ids
    PROVE  /\ Fresh(g) \in Contacts /\ Fresh(g).id = g /\ Fresh(g).sid = NoSid
           /\ Fresh(g).status = "Offline" /\ Fresh(g).game = NoGame
BY DEF Fresh, Contacts, Sids, Statuses

\* A list changes nothing of a contact but his id.
LEMMA ListedContacts ==
    ASSUME Typed, Sane, NEW fs \in SUBSET Friends, NewContacts(fs)
    PROVE  /\ known' = known \cup fs /\ contact' \in [Friends -> Contacts]
           /\ \A f \in Friends : /\ contact'[f].id = IF f \in fs THEN f ELSE contact[f].id
                                 /\ contact'[f].sid = contact[f].sid
                                 /\ contact'[f].status = contact[f].status
                                 /\ contact'[f].game = contact[f].game
<1>1. known' = known \cup fs /\ DOMAIN contact' = Friends
  BY DEF NewContacts
<1>2. ASSUME NEW f \in Friends
      PROVE  /\ contact'[f] \in Contacts
             /\ contact'[f].id = IF f \in fs THEN f ELSE contact[f].id
             /\ contact'[f].sid = contact[f].sid
             /\ contact'[f].status = contact[f].status
             /\ contact'[f].game = contact[f].game
  <2>1. contact[f] \in Contacts /\ f \in Ids
    BY DEF Typed, Ids
  <2>2. Fresh(f) \in Contacts /\ Fresh(f).id = f /\ Fresh(f).sid = NoSid
        /\ Fresh(f).status = "Offline" /\ Fresh(f).game = NoGame
    BY <2>1, FreshContact
  <2>3. CASE f \notin fs
    BY <2>1, <2>3 DEF NewContacts
  <2>4. CASE f \in fs /\ f \in known
    <3>1. contact'[f] = [contact[f] EXCEPT !.id = f]
      BY <2>4 DEF NewContacts
    <3> QED  BY <2>1, <2>4, <3>1 DEF Contacts
  <2>5. CASE f \in fs /\ f \notin known
    <3>1. contact'[f] = [Fresh(f) EXCEPT !.id = f]
      BY <2>5 DEF NewContacts
    <3>2. contact[f].sid = NoSid /\ contact[f].game = NoGame /\ contact[f].status = "Offline"
      BY <2>5 DEF Sane
    <3> QED  BY <2>1, <2>2, <2>5, <3>1, <3>2 DEF Contacts
  <2> QED  BY <2>3, <2>4, <2>5
<1>3. contact' = [f \in Friends |-> contact'[f]]
  BY <1>1 DEF NewContacts
<1>4. contact' \in [Friends -> Contacts]
  BY <1>2, <1>3
<1> QED  BY <1>1, <1>2, <1>4

\* A session that is told.
LEMMA SidContact ==
    ASSUME Typed, NEW c \in Friends, NEW s \in Sids, UpdateSid(c, s)
    PROVE  /\ contact' \in [Friends -> Contacts]
           /\ \A f \in Friends : f # c => contact'[f] = contact[f]
           /\ contact'[c].id = contact[c].id /\ contact'[c].game = contact[c].game
           /\ contact'[c].sid = s /\ contact'[c].status = StatusOf(s)
<1> DEFINE d == [contact[c] EXCEPT !.sid = s, !.status = StatusOf(s)]
<1>1. StatusOf(s) \in Statuses
  BY DEF StatusOf, Statuses
<1>2. contact[c] \in Contacts /\ contact \in [Friends -> Contacts]
  BY DEF Typed
<1>3. contact' = [contact EXCEPT ![c] = d]
  BY <1>2 DEF UpdateSid
<1>4. d \in Contacts /\ d.id = contact[c].id /\ d.game = contact[c].game /\ d.sid = s
      /\ d.status = StatusOf(s)
  BY <1>1, <1>2 DEF Contacts
<1> HIDE DEF d
<1> QED  BY <1>2, <1>3, <1>4

\* setStatus changes the status of one contact (XfireAccount::setStatus).
LEMMA StatusContact ==
    ASSUME Typed, NEW c \in Friends, NEW b \in BOOLEAN, SetStatus(c, b)
    PROVE  /\ contact' \in [Friends -> Contacts]
           /\ \A f \in Friends : f # c => contact'[f] = contact[f]
           /\ contact'[c].id = contact[c].id /\ contact'[c].game = contact[c].game
           /\ contact'[c].sid = contact[c].sid
           /\ contact'[c].status = IF b THEN "Away" ELSE "Online"
<1> DEFINE d == [contact[c] EXCEPT !.status = IF b THEN "Away" ELSE "Online"]
<1>2. contact[c] \in Contacts /\ contact \in [Friends -> Contacts]
  BY DEF Typed
<1>3. contact' = [contact EXCEPT ![c] = d]
  BY <1>2 DEF SetStatus
<1>4. d \in Contacts /\ d.id = contact[c].id /\ d.game = contact[c].game /\ d.sid = contact[c].sid
      /\ d.status = IF b THEN "Away" ELSE "Online"
  BY <1>2 DEF Contacts, Statuses
<1> HIDE DEF d
<1> QED  BY <1>2, <1>3, <1>4

\* updateContactGameInformation changes the game of one contact.
LEMMA GameContact ==
    ASSUME Typed, NEW c \in Friends, NEW g, UpdateGame(c, g)
    PROVE  /\ contact' \in [Friends -> Contacts]
           /\ \A f \in Friends : f # c => contact'[f] = contact[f]
           /\ contact'[c].id = contact[c].id /\ contact'[c].status = contact[c].status
           /\ contact'[c].sid = contact[c].sid /\ contact'[c].game = GameName(g)
<1> DEFINE d == [contact[c] EXCEPT !.game = GameName(g)]
<1>2. contact[c] \in Contacts /\ contact \in [Friends -> Contacts]
  BY DEF Typed
<1>3. contact' = [contact EXCEPT ![c] = d]
  BY <1>2 DEF UpdateGame
<1>4. d \in Contacts /\ d.id = contact[c].id /\ d.status = contact[c].status
      /\ d.sid = contact[c].sid /\ d.game = GameName(g)
  BY <1>2, GameNames DEF Contacts
<1> HIDE DEF d
<1> QED  BY <1>2, <1>3, <1>4

--------------------------------------------------------------------------------
(* Types, counts, and what one contact shows. *)

Basic == Typed /\ Counted /\ Sane

\* The program starts with contacts that show nothing.
LEMMA BasicInit ==
    ASSUME Init
    PROVE  Basic
<1>1. contact \in [Friends -> Contacts]
      /\ \A f \in Friends : /\ contact[f].sid = NoSid /\ contact[f].status = "Offline"
                            /\ contact[f].game = NoGame
  <2>1. PICK garbage \in [known -> Garbage] :
            contact = [f \in Friends |-> Fresh(IF f \in known THEN garbage[f] ELSE NoId)]
    BY DEF Init
  <2>2. \A f \in Friends : (IF f \in known THEN garbage[f] ELSE NoId) \in Ids
    BY DEF Ids, Init
  <2>3. \A g \in Ids : /\ Fresh(g) \in Contacts /\ Fresh(g).sid = NoSid
                       /\ Fresh(g).status = "Offline" /\ Fresh(g).game = NoGame
    BY FreshContact
  <2> HIDE DEF Fresh
  <2> QED  BY <2>1, <2>2, <2>3
<1>2. wire \in Seq(Packets)
  BY EmptySeq DEF Init
<1>3. 0 \in 0..MaxEvents /\ 0 \in 0..MaxConnections
  OBVIOUS
<1>4. Typed
  BY <1>1, <1>2, <1>3 DEF Init, Typed, Online, playing, Playable
<1>5. Counted
  BY <1>3 DEF Init, Counted
<1>6. Sane
  BY <1>1 DEF Init, Sane
<1> QED  BY <1>4, <1>5, <1>6 DEF Basic

\* A list renames contacts or creates them, and shows nothing of them.
LEMMA BasicLists ==
    ASSUME Basic, HandleFriends \/ HandleClan \/ HandleInvitations
    PROVE  Basic'
<1> USE DEF Basic
<1>1. PICK t \in {"friends", "clan", "invitations"} : Receive(t)
  BY DEF HandleFriends, HandleClan, HandleInvitations
<1>2. Handled
  BY DEF HandleFriends, HandleClan, HandleInvitations
<1>3. wire' \in Seq(Packets) /\ Head(wire).friends \in SUBSET Friends
  <2>1. wire \in Seq(Packets)
    BY DEF Typed
  <2> QED  BY <1>1, <2>1, Received, PacketFields
<1>4. /\ chat' = chat /\ mistaken' = mistaken
      /\ asked' \subseteq Friends /\ deleted' \subseteq Friends
  BY <1>3 DEF HandleFriends, HandleClan, HandleInvitations, Asked, Typed
<1>5. /\ contact' \in [Friends -> Contacts] /\ known' \subseteq Friends
      /\ known \subseteq known'
      /\ \A f \in Friends : /\ contact'[f].sid = contact[f].sid
                            /\ contact'[f].status = contact[f].status
                            /\ contact'[f].game = contact[f].game
  <2>1. CASE NewContacts(Head(wire).friends)
    BY <1>3, <2>1, ListedContacts, SMTT(30) DEF Typed
  <2>2. CASE UNCHANGED <<known, contact>>
    BY <2>2 DEF Typed
  <2> QED  BY <2>1, <2>2 DEF HandleFriends, HandleClan, HandleInvitations
<1>6. Typed'
  BY <1>2, <1>3, <1>4, <1>5 DEF Typed, Handled, server, Online, playing
<1>7. Counted'
  BY <1>2 DEF Counted, Handled, server
<1>8. Sane'
  BY <1>2, <1>4, <1>5 DEF Sane, Handled, server
<1> QED  BY <1>6, <1>7, <1>8

\* What a packet shows of a contact it finds by id or by session is fit to be shown.
LEMMA BasicPresence ==
    ASSUME Basic, HandleSid \/ HandleStatus \/ HandleGame \/ HandleChat
    PROVE  Basic'
<1> USE DEF Basic
<1> DEFINE p == Head(wire)
<1>1. PICK t \in {"sid", "status", "game", "im"} : Receive(t)
  BY DEF HandleSid, HandleStatus, HandleGame, HandleChat
<1>2. Handled /\ known' = known /\ asked' = asked /\ deleted' = deleted
  BY DEF HandleSid, HandleStatus, HandleGame, HandleChat
<1>3. wire' \in Seq(Packets) /\ p \in Packets /\ p.type = t
  <2>1. wire \in Seq(Packets)
    BY DEF Typed
  <2> QED  BY <1>1, <2>1, Received
<1>4. known \subseteq Friends
  BY DEF Typed
<1>5. /\ mistaken' \in BOOLEAN /\ (mistaken => mistaken')
      /\ chat' \in [Friends -> Nat]
      /\ contact' \in [Friends -> Contacts]
      /\ \A f \in Friends :
            /\ contact'[f].status = "Offline" <=> contact'[f].sid = NoSid
            /\ ~mistaken' /\ contact'[f].sid # NoSid => contact'[f].sid[1] = f
            /\ f \notin known => contact'[f].sid = NoSid /\ contact'[f].game = NoGame
  <2>1. CASE HandleSid
    <3>1. t = "sid" /\ chat' = chat
      BY <1>1, <1>3, <2>1 DEF HandleSid, Receive
    <3>2. p.id \in Friends /\ p.sid \in {NoSid} \cup ({p.id} \X (1..MaxEvents))
      BY <1>3, <3>1, PacketFields
    <3>3. p.sid \in Sids /\ (p.sid # NoSid => p.sid[1] = p.id)
      BY <3>2 DEF Sids
    <3>4. CASE UNCHANGED <<contact, mistaken>>
      BY <3>1, <3>4 DEF Typed, Sane
    <3>5. ASSUME NEW c \in FindById(p.id), UpdateSid(c, p.sid),
                 mistaken' = (mistaken \/ c # p.id)
          PROVE  <1>5
      <4>1. c \in known /\ c \in Friends
        BY <1>4 DEF FindById
      <4>2. /\ contact' \in [Friends -> Contacts]
            /\ \A f \in Friends : f # c => contact'[f] = contact[f]
            /\ contact'[c].sid = p.sid /\ contact'[c].status = StatusOf(p.sid)
        BY <3>3, <3>5, <4>1, SidContact
      <4>3. mistaken' \in BOOLEAN
        BY <3>5 DEF Typed
      <4>4. StatusOf(p.sid) = "Offline" <=> p.sid = NoSid
        BY DEF StatusOf
      <4>5. chat' \in [Friends -> Nat]
        BY <3>1 DEF Typed
      <4>6. ASSUME NEW f \in Friends
            PROVE  /\ contact'[f].status = "Offline" <=> contact'[f].sid = NoSid
                   /\ ~mistaken' /\ contact'[f].sid # NoSid => contact'[f].sid[1] = f
                   /\ f \notin known => contact'[f].sid = NoSid /\ contact'[f].game = NoGame
        <5>1. CASE f = c
          BY <3>3, <3>5, <4>1, <4>2, <4>4, <5>1
        <5>2. CASE f # c
          BY <3>5, <4>2, <5>2 DEF Sane
        <5> QED  BY <5>1, <5>2
      <4> QED  BY <3>5, <4>2, <4>3, <4>5, <4>6
    <3> QED  BY <2>1, <3>4, <3>5 DEF HandleSid
  <2>2. CASE HandleStatus
    <3>1. t = "status" /\ chat' = chat /\ mistaken' = mistaken
      BY <1>1, <1>3, <2>2 DEF HandleStatus, Receive
    <3>2. p.sid \in Present /\ p.afk \in BOOLEAN
      BY <1>3, <3>1, PacketFields
    <3>3. p.sid # NoSid
      BY <3>2 DEF Present, NoSid
    <3>4. CASE UNCHANGED contact
      BY <3>1, <3>4 DEF Typed, Sane
    <3>5. ASSUME NEW c \in FindBySid(p.sid), SetStatus(c, p.afk)
          PROVE  <1>5
      <4>1. c \in known /\ c \in Friends /\ contact[c].sid = p.sid
        BY <1>4 DEF FindBySid
      <4>2. /\ contact' \in [Friends -> Contacts]
            /\ \A f \in Friends : f # c => contact'[f] = contact[f]
            /\ contact'[c].sid = contact[c].sid /\ contact'[c].status # "Offline"
        BY <3>2, <3>5, <4>1, StatusContact
      <4>3. contact[c].status # "Offline"
        BY <3>3, <4>1 DEF Sane
      <4>4. mistaken' \in BOOLEAN /\ chat' \in [Friends -> Nat]
        BY <3>1 DEF Typed
      <4>5. ASSUME NEW f \in Friends
            PROVE  /\ contact'[f].sid = contact[f].sid
                   /\ contact'[f].status = "Offline" <=> contact[f].status = "Offline"
                   /\ f \notin known => contact'[f].game = contact[f].game
        BY <4>1, <4>2, <4>3
      <4> QED  BY <3>1, <4>2, <4>4, <4>5 DEF Sane
    <3> QED  BY <2>2, <3>4, <3>5 DEF HandleStatus
  <2>3. CASE HandleGame
    <3>1. t = "game" /\ chat' = chat /\ mistaken' = mistaken
      BY <1>1, <1>3, <2>3 DEF HandleGame, Receive
    <3>4. CASE UNCHANGED contact
      BY <3>1, <3>4 DEF Typed, Sane
    <3>5. ASSUME NEW c \in FindBySid(p.sid), UpdateGame(c, p.game)
          PROVE  <1>5
      <4>1. c \in known /\ c \in Friends
        BY <1>4 DEF FindBySid
      <4>2. /\ contact' \in [Friends -> Contacts]
            /\ \A f \in Friends : f # c => contact'[f] = contact[f]
            /\ contact'[c].sid = contact[c].sid /\ contact'[c].status = contact[c].status
        BY <3>5, <4>1, GameContact
      <4>3. \A f \in Friends : /\ contact'[f].sid = contact[f].sid
                               /\ contact'[f].status = contact[f].status
                               /\ f \notin known => contact'[f].game = contact[f].game
        BY <4>1, <4>2
      <4>4. mistaken' \in BOOLEAN /\ chat' \in [Friends -> Nat]
        BY <3>1 DEF Typed
      <4> QED  BY <3>1, <4>2, <4>3, <4>4 DEF Sane
    <3> QED  BY <2>3, <3>4, <3>5 DEF HandleGame
  <2>4. CASE HandleChat
    <3>1. contact' = contact /\ mistaken' = mistaken
      BY <2>4 DEF HandleChat
    <3>2. chat' \in [Friends -> Nat]
      <4>1. CASE UNCHANGED chat
        BY <4>1 DEF Typed
      <4>2. ASSUME NEW c \in FindBySid(p.sid), ReceivedMessage(c)
            PROVE  chat' \in [Friends -> Nat]
        BY <1>4, <4>2 DEF ReceivedMessage, FindBySid, Typed
      <4> QED  BY <2>4, <4>1, <4>2 DEF HandleChat
    <3> QED  BY <3>1, <3>2 DEF Typed, Sane
  <2> QED  BY <2>1, <2>2, <2>3, <2>4
<1>6. Typed'
  BY <1>2, <1>3, <1>5 DEF Typed, Handled, server, Online, playing
<1>7. Counted'
  BY <1>2 DEF Counted, Handled, server
<1>8. Sane'
  BY <1>2, <1>5 DEF Sane, Handled, server
<1> QED  BY <1>6, <1>7, <1>8

\* The server describes friends anew.
LEMMA GhostsTyped ==
    ASSUME NEW fs \in SUBSET Friends
    PROVE  /\ Ghosts(fs) \subseteq fs /\ GameGhosts(fs) \subseteq fs
           /\ \A f \in Ghosts(fs) : session[f] = 0
BY DEF Ghosts, GameGhosts

\* A new friend is listed and described; who has become a ghost is offline.
LEMMA MakesFriendTyped ==
    ASSUME Basic, NEW f \in Friends, MakesFriend(f)
    PROVE  /\ list' = list \cup {f} /\ wire' \in Seq(Packets)
           /\ ghosts' \subseteq Friends /\ gameGhosts' \subseteq Friends
           /\ \A g \in ghosts' : session[g] = 0
<1>1. << Listed({f}) >> \o About({f}) \in Seq(Packets)
  <2>1. Listed({f}) \in Packets
    BY PacketsMade
  <2>2. << Listed({f}) >> \in Seq(Packets)
    BY <2>1
  <2>3. About({f}) \in Seq(Packets)
    BY AboutPackets DEF Basic
  <2> QED  BY <2>2, <2>3, ConcatProperties
<1>2. wire' \in Seq(Packets)
  <2>1. wire \in Seq(Packets) /\ Tell(<< Listed({f}) >> \o About({f}))
    BY DEF MakesFriend, Basic, Typed
  <2> QED  BY <1>1, <2>1, TellTyped
<1>3. /\ Ghosts({f}) \subseteq {f} /\ GameGhosts({f}) \subseteq {f}
      /\ \A g \in Ghosts({f}) : session[g] = 0
  BY GhostsTyped
<1>4. \A g \in ghosts : session[g] = 0
  BY DEF Basic, Sane, Typed
<1>5. ghosts \subseteq Friends /\ gameGhosts \subseteq Friends
  BY DEF Basic, Typed
<1>6. /\ list' = list \cup {f} /\ ghosts' = (ghosts \ {f}) \cup Ghosts({f})
      /\ gameGhosts' = (gameGhosts \ {f}) \cup GameGhosts({f})
  BY DEF MakesFriend
<1> QED  BY <1>2, <1>3, <1>4, <1>5, <1>6

\* A login describes everyone anew; a lost connection leaves the beginning of wire.
LEMMA BasicConnection ==
    ASSUME Basic, LogsIn \/ Disconnects
    PROVE  Basic'
<1> USE DEF Basic
<1>1. CASE LogsIn
  <2>1. wire' \in Seq(Packets)
    <3>1. /\ Listed(list) \in Packets /\ ClanListed \in Packets /\ Invitations(pending) \in Packets
          /\ Told \in SUBSET Friends
      BY PacketsMade DEF Typed, Told
    <3>2. /\ << Listed(list), ClanListed >> \in Seq(Packets)
          /\ << Invitations(pending) >> \in Seq(Packets)
          /\ About(Told) \in Seq(Packets)
      BY <3>1, AboutPackets
    <3>3. << Listed(list), ClanListed >> \o About(Told) \in Seq(Packets)
      BY <3>2, ConcatProperties
    <3> QED  BY <1>1, <3>2, <3>3, ConcatProperties DEF LogsIn
  <2>2. ghosts' \subseteq Friends /\ gameGhosts' \subseteq Friends
        /\ \A f \in ghosts' : session[f] = 0
    BY <1>1, GhostsTyped DEF LogsIn
  <2>3. connections' \in 0..MaxConnections /\ up' \in BOOLEAN
    BY <1>1 DEF LogsIn, Typed
  <2>4. UNCHANGED <<list, pending, session, sessions, away, plays, sent>>
        /\ UNCHANGED <<clanFriends, known, contact, chat, asked, deleted, mistaken, events>>
    BY <1>1 DEF LogsIn, server, client
  <2>5. Typed'
    BY <2>1, <2>2, <2>3, <2>4 DEF Typed, Online, playing
  <2> QED  BY <2>2, <2>4, <2>5 DEF Counted, Sane
<1>2. CASE Disconnects
  <2>1. wire' \in Seq(Packets)
    <3>1. PICK n \in 0..Len(wire) : wire' = SubSeq(wire, 1, n)
      BY <1>2 DEF Disconnects
    <3>2. wire \in Seq(Packets) /\ Len(wire) \in Nat
      BY LenProperties DEF Typed
    <3>3. \A i \in 1..n : wire[i] \in Packets
      BY <3>2, ElementOfSeq
    <3> QED  BY <3>1, <3>2, <3>3, SubSeqProperties
  <2>4. UNCHANGED <<list, pending, session, sessions, away, plays, sent>>
        /\ UNCHANGED <<clanFriends, known, contact, chat, asked, deleted, mistaken, events,
                       connections, ghosts, gameGhosts>>
        /\ up' \in BOOLEAN
    BY <1>2 DEF Disconnects, server, client
  <2>5. Typed'
    BY <2>1, <2>4 DEF Typed, Online, playing
  <2> QED  BY <2>4, <2>5 DEF Counted, Sane
<1> QED  BY <1>1, <1>2

\* Adding, deleting and answering keep types, counts and contacts sane.
LEMMA BasicUser ==
    ASSUME Basic, NEW f \in Friends, Invite(f) \/ DeleteContact(f) \/ Answer(f)
    PROVE  Basic'
<1> USE DEF Basic
<1>1. NoId \in Ids /\ \A g \in Ids : /\ Fresh(g) \in Contacts /\ Fresh(g).sid = NoSid
                                     /\ Fresh(g).status = "Offline" /\ Fresh(g).game = NoGame
  BY FreshContact DEF Ids
<1>2. CASE Invite(f) \/ DeleteContact(f)
  <2>1. PICK g \in Ids : contact' = [contact EXCEPT ![f] = Fresh(g)]
    BY <1>1, <1>2 DEF Invite, DeleteContact, Ids
  <2>2. /\ contact' \in [Friends -> Contacts]
        /\ contact'[f].sid = NoSid /\ contact'[f].status = "Offline" /\ contact'[f].game = NoGame
        /\ \A h \in Friends : h # f => contact'[h] = contact[h]
    <3>1. contact \in [Friends -> Contacts]
      BY DEF Typed
    <3>2. Fresh(g) \in Contacts /\ Fresh(g).sid = NoSid
          /\ Fresh(g).status = "Offline" /\ Fresh(g).game = NoGame
      BY <1>1
    <3> HIDE DEF Fresh
    <3> QED  BY <2>1, <3>1, <3>2
  <2>3. events' = events + 1 /\ events' \in 0..MaxEvents /\ events \in Nat
    BY <1>2 DEF Invite, DeleteContact, Acts, Typed
  <2>4. /\ known' \subseteq Friends /\ list' \subseteq list /\ deleted' \subseteq Friends
        /\ mistaken' \in BOOLEAN /\ (mistaken => mistaken')
        /\ \A h \in Friends : h # f /\ h \notin known' => h \notin known
    BY <1>2 DEF Invite, DeleteContact, SendFriendRemoval, server, Typed
  <2>5. UNCHANGED <<pending, session, sessions, away, plays, sent, wire, up, connections,
                    clanFriends, chat, asked, ghosts, gameGhosts>>
    BY <1>2 DEF Invite, DeleteContact, server
  <2>6. Typed'
    BY <2>2, <2>3, <2>4, <2>5 DEF Typed, Online, playing
  <2>7. Counted'
    BY <2>3, <2>5 DEF Typed, Counted
  <2>8. Sane'
    BY <2>2, <2>4, <2>5 DEF Sane
  <2> QED  BY <2>6, <2>7, <2>8
<1>3. CASE Answer(f)
  <2>1. UNCHANGED <<session, sessions, away, plays, sent, up, connections, clanFriends,
                    known, contact, chat, deleted, mistaken, events>>
        /\ asked' \subseteq Friends
    BY <1>3 DEF Answer, Typed
  <2>2. /\ list' \subseteq Friends /\ pending' \subseteq Friends \ list' /\ wire' \in Seq(Packets)
        /\ ghosts' \subseteq Friends /\ gameGhosts' \subseteq Friends
        /\ \A g \in ghosts' : session[g] = 0
    <3>1. PICK response \in BOOLEAN : SendFriendInvitationResponse(f, response)
      BY <1>3 DEF Answer
    <3>2. CASE UNCHANGED <<list, wire, ghosts, gameGhosts>> /\ pending' \subseteq pending
      BY <3>2 DEF Typed, Sane
    <3>3. CASE pending' = pending \ {f} /\ MakesFriend(f)
      BY <3>3, MakesFriendTyped DEF Typed
    <3> QED  BY <3>1, <3>2, <3>3 DEF SendFriendInvitationResponse, ServerAccepts
  <2>3. Typed'
    BY <2>1, <2>2 DEF Typed, Online, playing
  <2> QED  BY <2>1, <2>2, <2>3 DEF Counted, Sane
<1> QED  BY <1>2, <1>3

\* So does what friends do, each step of which is one event.
LEMMA BasicEnvironment ==
    ASSUME Basic, NEW f \in Friends, Environment(f)
    PROVE  Basic'
<1> USE DEF Basic
<1>1. events \in Nat /\ events' = events + 1 /\ events' \in 0..MaxEvents
  BY DEF Environment, Befriend, Invites, ComesOnline, GoesOffline, ChangesStatus, ChangesGame,
         Writes, FriendActs, Typed
<1>2. /\ UNCHANGED <<up, connections, clanFriends, known, contact, chat, asked, deleted, mistaken>>
      /\ Elsewhere
  BY DEF Environment, Befriend, Invites, ComesOnline, GoesOffline, ChangesStatus, ChangesGame,
         Writes, Elsewhere, client
<1>3. /\ session[f] \in 0..MaxEvents /\ sessions[f] \in 0..MaxEvents /\ sent[f] \in 0..MaxEvents
      /\ session[f] \in {0, sessions[f]} /\ sessions[f] <= events /\ sent[f] <= events
      /\ wire \in Seq(Packets)
  BY DEF Typed, Counted
<1>4. CASE Befriend(f)
  <2>1. /\ list' = list \cup {f} /\ wire' \in Seq(Packets)
        /\ ghosts' \subseteq Friends /\ gameGhosts' \subseteq Friends
        /\ \A g \in ghosts' : session[g] = 0
    BY <1>4, MakesFriendTyped DEF Befriend
  <2>2. UNCHANGED <<session, sessions, away, plays, sent>> /\ pending' = pending \ {f}
    BY <1>4 DEF Befriend
  <2>3. Typed'
    BY <1>1, <1>2, <2>1, <2>2 DEF Typed, Online, playing
  <2>4. Counted'
    <3>1. \A g \in Friends : sessions[g] \in Nat /\ sent[g] \in Nat
      BY DEF Typed
    <3> QED  BY <1>1, <2>2, <3>1 DEF Counted
  <2>5. Sane'
    BY <1>2, <2>1, <2>2 DEF Sane
  <2> QED  BY <2>3, <2>4, <2>5
<1>5. CASE Invites(f)
  <2>1. wire' \in Seq(Packets)
    <3>1. Invitations({f}) \in Packets
      BY PacketsMade
    <3>2. << Invitations({f}) >> \in Seq(Packets)
      BY <3>1
    <3> QED  BY <1>3, <1>5, <3>2, TellTyped DEF Invites
  <2>2. /\ UNCHANGED <<list, session, sessions, away, plays, sent, ghosts, gameGhosts>>
        /\ pending' = pending \cup {f} /\ f \notin list
    BY <1>5 DEF Invites
  <2>3. Typed'
    BY <1>1, <1>2, <2>1, <2>2 DEF Typed, Online, playing
  <2> QED  BY <1>1, <1>2, <2>2, <2>3, SMTT(30) DEF Typed, Counted, Sane
<1>6. CASE ComesOnline(f)
  <2>1. /\ UNCHANGED <<list, pending, away, plays, sent, gameGhosts>> /\ session[f] = 0
        /\ sessions' = [sessions EXCEPT ![f] = @ + 1]
        /\ session' = [session EXCEPT ![f] = sessions[f] + 1]
        /\ ghosts' = ghosts \ {f}
    BY <1>6 DEF ComesOnline
  <2>2. sessions[f] + 1 \in 1..MaxEvents /\ sessions[f] + 1 <= events'
    BY <1>1, <1>3
  <2>3. wire' \in Seq(Packets)
    <3>1. Session(f, sessions[f] + 1) \in Packets
      BY <2>2, PacketsMade
    <3>2. << Session(f, sessions[f] + 1) >> \in Seq(Packets)
      BY <3>1
    <3> QED  BY <1>3, <1>6, <3>2, TellTyped DEF ComesOnline
  <2>4. /\ session' \in [Friends -> 0..MaxEvents] /\ sessions' \in [Friends -> 0..MaxEvents]
        /\ session'[f] = sessions[f] + 1 /\ sessions'[f] = sessions[f] + 1
        /\ \A g \in Friends : g # f => session'[g] = session[g] /\ sessions'[g] = sessions[g]
    BY <2>1, <2>2 DEF Typed
  <2>5. away \cup playing \subseteq Online(Friends)'
    <3>1. \A g \in Friends : session[g] # 0 => session'[g] # 0
      BY <2>2, <2>4
    <3> QED  BY <3>1 DEF Typed, Online
  <2>6. Typed'
    <3>1. playing' = playing
      BY <2>1 DEF playing
    <3> QED  BY <1>1, <1>2, <2>1, <2>3, <2>4, <2>5, <3>1 DEF Typed
  <2>7. Counted'
    <3>1. ASSUME NEW g \in Friends
          PROVE  /\ session'[g] \in {0, sessions'[g]} /\ sessions'[g] <= events'
                 /\ sent'[g] <= events'
      <4>1. session[g] \in {0, sessions[g]} /\ sessions[g] <= events /\ sent[g] <= events
            /\ sessions[g] \in Nat /\ sent[g] \in Nat
        BY DEF Counted, Typed
      <4>2. sent'[g] = sent[g]
        BY <2>1
      <4> QED  BY <1>1, <2>2, <2>4, <4>1, <4>2
    <3> QED  BY <3>1 DEF Counted
  <2>8. Sane'
    BY <1>2, <2>1, <2>4 DEF Sane
  <2> QED  BY <2>6, <2>7, <2>8
<1>7. CASE GoesOffline(f)
  <2>1. /\ UNCHANGED <<list, pending, sessions, sent, ghosts>> /\ session[f] # 0
        /\ session' = [session EXCEPT ![f] = 0]
        /\ away' = away \ {f} /\ plays' = [plays EXCEPT ![f] = NoGame]
        /\ gameGhosts' \subseteq gameGhosts \cup {f}
    BY <1>7 DEF GoesOffline
  <2>3. wire' \in Seq(Packets)
    <3>1. Session(f, 0) \in Packets
      BY PacketsMade
    <3>2. << Session(f, 0) >> \in Seq(Packets)
      BY <3>1
    <3> QED  BY <1>3, <1>7, <3>2, TellTyped DEF GoesOffline
  <2>4. /\ session' \in [Friends -> 0..MaxEvents] /\ session'[f] = 0
        /\ \A g \in Friends : g # f => session'[g] = session[g]
    BY <2>1 DEF Typed
  <2>5. /\ away' \cup playing' \subseteq Online(Friends)'
        /\ plays' \in [Friends -> Playable]
    BY <2>1, <2>4 DEF Typed, Online, playing, Playable
  <2>6. Typed'
    BY <1>1, <1>2, <2>1, <2>3, <2>4, <2>5 DEF Typed
  <2>7. Counted'
    <3>1. ASSUME NEW g \in Friends
          PROVE  /\ session'[g] \in {0, sessions'[g]} /\ sessions'[g] <= events'
                 /\ sent'[g] <= events'
      <4>1. session[g] \in {0, sessions[g]} /\ sessions[g] <= events /\ sent[g] <= events
            /\ sessions[g] \in Nat /\ sent[g] \in Nat
        BY DEF Counted, Typed
      <4>2. sent'[g] = sent[g] /\ sessions'[g] = sessions[g]
        BY <2>1
      <4> QED  BY <1>1, <2>4, <4>1, <4>2
    <3> QED  BY <3>1 DEF Counted
  <2>8. Sane'
    BY <1>2, <2>1, <2>4 DEF Sane
  <2> QED  BY <2>6, <2>7, <2>8
<1>8. CASE ChangesStatus(f) \/ ChangesGame(f) \/ Writes(f)
  <2>1. /\ UNCHANGED <<list, pending, session, sessions, ghosts>> /\ session[f] # 0
        /\ away' \subseteq away \cup {f} /\ gameGhosts' \subseteq gameGhosts
    BY <1>8 DEF ChangesStatus, ChangesGame, Writes
  <2>9. plays' \in [Friends -> Playable] /\ playing' \subseteq playing \cup {f}
    <3>1. plays \in [Friends -> Playable]
      BY DEF Typed
    <3>2. PICK n \in Playable : plays' = plays \/ plays' = [plays EXCEPT ![f] = n]
      BY <1>8 DEF ChangesStatus, ChangesGame, Writes, Playable
    <3> QED  BY <3>1, <3>2 DEF playing
  <2>2. sent' \in [Friends -> 0..MaxEvents] /\ sent'[f] <= events'
        /\ \A g \in Friends : g # f => sent'[g] = sent[g]
    <3>1. sent \in [Friends -> 0..MaxEvents] /\ sent[f] + 1 \in 0..MaxEvents
          /\ sent[f] + 1 <= events' /\ sent[f] <= events'
      BY <1>1, <1>3 DEF Typed
    <3>2. sent' = sent \/ sent' = [sent EXCEPT ![f] = @ + 1]
      BY <1>8 DEF ChangesStatus, ChangesGame, Writes
    <3> QED  BY <3>1, <3>2
  <2>3. wire' \in Seq(Packets)
    <3>1. /\ \A b \in BOOLEAN : /\ StatusMsg(f, session[f], b) \in Packets
          /\ \A g \in Playable : GameInfo(f, session[f], g) \in Packets
          /\ Chat(f, session[f]) \in Packets
      BY <1>3, <2>1, PacketsMade
    <3>2. /\ << StatusMsg(f, session[f], f \notin away) >> \in Seq(Packets)
          /\ \A g \in Playable : << GameInfo(f, session[f], g) >> \in Seq(Packets)
          /\ << Chat(f, session[f]) >> \in Seq(Packets)
      <4>1. (f \notin away) \in BOOLEAN
        OBVIOUS
      <4>2. StatusMsg(f, session[f], f \notin away) \in Packets
        BY <3>1, <4>1, Zenon
      <4> HIDE DEF StatusMsg, GameInfo, Chat
      <4> QED  BY <3>1, <4>2
    <3>3. CASE ChangesStatus(f) \/ Writes(f)
      BY <1>3, <3>2, <3>3, TellTyped DEF ChangesStatus, Writes
    <3>4. CASE ChangesGame(f)
      <4>1. PICK g \in Playable :
                IF f \in Told THEN Tell(<< GameInfo(f, session[f], g) >>) ELSE UNCHANGED wire
        BY <3>4 DEF ChangesGame, Playable
      <4> QED  BY <1>3, <3>2, <4>1, TellTyped
    <3> QED  BY <1>8, <3>3, <3>4
  <2>4. Typed'
    BY <1>1, <1>2, <2>1, <2>2, <2>3, <2>9 DEF Typed, Online
  <2>5. Counted'
    <3>1. ASSUME NEW g \in Friends
          PROVE  /\ session'[g] \in {0, sessions'[g]} /\ sessions'[g] <= events'
                 /\ sent'[g] <= events'
      <4>1. session[g] \in {0, sessions[g]} /\ sessions[g] <= events /\ sent[g] <= events
            /\ sessions[g] \in Nat /\ sent[g] \in Nat
        BY DEF Counted, Typed
      <4>2. session'[g] = session[g] /\ sessions'[g] = sessions[g]
        BY <2>1
      <4> QED  BY <1>1, <2>2, <4>1, <4>2
    <3> QED  BY <3>1 DEF Counted
  <2>6. Sane'
    BY <1>2, <2>1 DEF Sane
  <2> QED  BY <2>4, <2>5, <2>6
<1> QED  BY <1>4, <1>5, <1>6, <1>7, <1>8 DEF Environment

\* The steps that change something.
Acting ==
    \/ Handle \/ LogsIn \/ Disconnects
    \/ \E f \in Friends : Invite(f) \/ DeleteContact(f) \/ Answer(f)
    \/ \E f \in Friends : Environment(f)

\* Any other step changes nothing; an invitation for one who is a contact is one.
LEMMA Steps == [Next]_vars => Acting \/ UNCHANGED vars
BY DEF Next, Acting, InviteContact

\* Basic holds in every state.
LEMMA BasicInductive ==
    /\ Init => Basic
    /\ Basic /\ [Next]_vars => Basic'
<1>1. Init => Basic
  BY BasicInit
<1>2. ASSUME Basic, Acting
      PROVE  Basic'
  BY <1>2, BasicLists, BasicPresence, BasicConnection, BasicUser, BasicEnvironment
     DEF Acting, Handle
<1>3. ASSUME Basic, UNCHANGED vars
      PROVE  Basic'
  BY <1>3 DEF Basic, Typed, Counted, Sane, Online, playing, vars, server, client
<1> QED  BY <1>1, <1>2, <1>3, Steps

--------------------------------------------------------------------------------
(* The packets before and after a step. *)

\* Where the packets of two sequences are in their concatenation.
LEMMA Joined ==
    ASSUME NEW s \in Seq(Packets), NEW t \in Seq(Packets)
    PROVE  /\ s \o t \in Seq(Packets)
           /\ Len(s) \in Nat /\ Len(t) \in Nat /\ Len(s \o t) = Len(s) + Len(t)
           /\ \A i \in 1..Len(s) : (s \o t)[i] = s[i]
           /\ \A i \in 1..Len(t) : (s \o t)[Len(s) + i] = t[i]
<1> DEFINE st == s \o t
<1>1. Len(s) \in Nat /\ Len(t) \in Nat
  BY LenProperties
<1>2. /\ st \in Seq(Packets) /\ Len(st) = Len(s) + Len(t)
      /\ \A i \in 1 .. Len(s) + Len(t) : st[i] = IF i <= Len(s) THEN s[i] ELSE t[i - Len(s)]
  BY ConcatProperties
<1> HIDE DEF st
<1>3. \A i \in 1..Len(t) : st[Len(s) + i] = t[i]
  <2> TAKE i \in 1..Len(t)
  <2>1. Len(s) + i \in 1..(Len(s) + Len(t)) /\ ~(Len(s) + i <= Len(s))
        /\ (Len(s) + i) - Len(s) = i
    BY <1>1
  <2> QED  BY <1>2, <2>1
<1>4. \A i \in 1..Len(s) : st[i] = s[i]
  BY <1>1, <1>2
<1> QED  BY <1>1, <1>2, <1>3, <1>4 DEF st

\* What the server says while connected comes last in wire.
LEMMA SaidLast ==
    ASSUME wire \in Seq(Packets), NEW q \in Seq(Packets), Tell(q), up
    PROVE  /\ Len(wire) \in Nat /\ Len(q) \in Nat /\ Len(wire') = Len(wire) + Len(q)
           /\ \A i \in 1..Len(wire) : wire'[i] = wire[i]
           /\ \A i \in 1..Len(q) : wire'[Len(wire) + i] = q[i]
<1>1. wire' = wire \o q
  BY DEF Tell
<1> QED  BY <1>1, Joined

\* A new friend adds one list and what is told about him, in this order.
LEMMA MadeFriend ==
    ASSUME Basic, NEW f \in Friends, MakesFriend(f), up
    PROVE  /\ Len(wire) \in Nat /\ Len(About({f})) \in Nat /\ About({f}) \in Seq(Packets)
           /\ Len(wire') = Len(wire) + 1 + Len(About({f}))
           /\ \A i \in 1..Len(wire) : wire'[i] = wire[i]
           /\ wire'[Len(wire) + 1] = Listed({f})
           /\ \A i \in 1..Len(About({f})) : wire'[Len(wire) + 1 + i] = About({f})[i]
<1> DEFINE a == About({f})
           l == << Listed({f}) >>
           q == l \o a
<1>1. a \in Seq(Packets) /\ l \in Seq(Packets)
  BY AboutPackets, PacketsMade DEF Basic
<1>2. Tell(q) /\ wire \in Seq(Packets)
  BY DEF MakesFriend, Basic, Typed
<1>3. Len(l) = 1 /\ l[1] = Listed({f})
  OBVIOUS
<1> HIDE DEF a, l
<1>4. /\ q \in Seq(Packets) /\ Len(a) \in Nat /\ Len(q) = 1 + Len(a)
      /\ q[1] = l[1] /\ \A i \in 1..Len(a) : q[1 + i] = a[i]
  <2>1. \A i \in 1..Len(l) : q[i] = l[i]
    BY <1>1, Joined
  <2>2. \A i \in 1..Len(a) : q[Len(l) + i] = a[i]
    BY <1>1, Joined
  <2>3. q \in Seq(Packets) /\ Len(a) \in Nat /\ Len(q) = Len(l) + Len(a)
    BY <1>1, Joined
  <2> QED  BY <1>3, <2>1, <2>2, <2>3
<1> HIDE DEF q
<1>6. /\ Len(wire) \in Nat /\ Len(wire') = Len(wire) + Len(q)
      /\ \A i \in 1..Len(wire) : wire'[i] = wire[i]
      /\ \A i \in 1..Len(q) : wire'[Len(wire) + i] = q[i]
  BY <1>2, <1>4, SaidLast
<1>7. wire'[Len(wire) + 1] = Listed({f})
  BY <1>3, <1>4, <1>6
<1>8. \A i \in 1..Len(a) : wire'[Len(wire) + 1 + i] = a[i]
  <2> TAKE i \in 1..Len(a)
  <2>1. 1 + i \in 1..Len(q) /\ Len(wire) + (1 + i) = Len(wire) + 1 + i
    BY <1>4, <1>6
  <2> QED  BY <1>4, <1>6, <2>1
<1>9. Len(wire') = Len(wire) + 1 + Len(a)
  BY <1>4, <1>6
<1> QED  BY <1>1, <1>4, <1>6, <1>7, <1>8, <1>9 DEF a

\* A login leaves in wire both lists, what is told about friends, and the invitations.
LEMMA LoggedIn ==
    ASSUME Basic, LogsIn
    PROVE  /\ Len(About(Told)) \in Nat /\ About(Told) \in Seq(Packets)
           /\ Len(wire') = Len(About(Told)) + 3
           /\ wire'[1] = Listed(list) /\ wire'[2] = ClanListed
           /\ \A i \in 1..Len(About(Told)) : wire'[i + 2] = About(Told)[i]
           /\ wire'[Len(About(Told)) + 3] = Invitations(pending)
<1> DEFINE a == About(Told)
           l == << Listed(list), ClanListed >>
           v == << Invitations(pending) >>
           la == l \o a
<1>1. /\ Listed(list) \in Packets /\ ClanListed \in Packets /\ Invitations(pending) \in Packets
      /\ Told \in SUBSET Friends
  BY PacketsMade DEF Basic, Typed, Told
<1>2. l \in Seq(Packets) /\ v \in Seq(Packets) /\ a \in Seq(Packets)
  BY <1>1, AboutPackets DEF Basic
<1>3. Len(l) = 2 /\ l[1] = Listed(list) /\ l[2] = ClanListed
      /\ Len(v) = 1 /\ v[1] = Invitations(pending)
  OBVIOUS
<1>4. wire' = la \o v
  BY DEF LogsIn
<1> HIDE DEF a, l, v
<1>5. /\ la \in Seq(Packets) /\ Len(a) \in Nat /\ Len(la) = 2 + Len(a)
      /\ la[1] = l[1] /\ la[2] = l[2] /\ \A i \in 1..Len(a) : la[2 + i] = a[i]
  <2>1. \A i \in 1..Len(l) : la[i] = l[i]
    BY <1>2, Joined
  <2>2. \A i \in 1..Len(a) : la[Len(l) + i] = a[i]
    BY <1>2, Joined
  <2>3. la \in Seq(Packets) /\ Len(a) \in Nat /\ Len(la) = Len(l) + Len(a)
    BY <1>2, Joined
  <2> QED  BY <1>3, <2>1, <2>2, <2>3
<1> HIDE DEF la
<1>6. /\ Len(wire') = Len(la) + 1
      /\ \A i \in 1..Len(la) : wire'[i] = la[i]
      /\ wire'[Len(la) + 1] = Invitations(pending)
  <2>1. \A i \in 1..Len(v) : wire'[Len(la) + i] = v[i]
    BY <1>2, <1>4, <1>5, Joined
  <2>2. Len(wire') = Len(la) + Len(v) /\ \A i \in 1..Len(la) : wire'[i] = la[i]
    BY <1>2, <1>4, <1>5, Joined, ZenonT(60)
  <2> QED  BY <1>3, <2>1, <2>2
<1>7. Len(wire') = Len(a) + 3 /\ wire'[1] = Listed(list) /\ wire'[2] = ClanListed
  BY <1>3, <1>5, <1>6
<1>8. \A i \in 1..Len(a) : wire'[i + 2] = a[i]
  <2> TAKE i \in 1..Len(a)
  <2>1. 2 + i \in 1..Len(la) /\ 2 + i = i + 2
    BY <1>5
  <2> QED  BY <1>5, <1>6, <2>1
<1>9. wire'[Len(a) + 3] = Invitations(pending)
  <2>1. Len(a) + 3 = Len(la) + 1
    BY <1>5
  <2> QED  BY <1>6, <2>1
<1> QED  BY <1>2, <1>5, <1>7, <1>8, <1>9 DEF a

\* The server has said something more.
Grows == /\ Len(wire) \in Nat /\ Len(wire') \in Nat /\ Len(wire) <= Len(wire')
         /\ \A i \in 1..Len(wire) : wire'[i] = wire[i]

\* Saying something leaves what is in wire where it was.
LEMMA SaidGrows ==
    ASSUME wire \in Seq(Packets), NEW q \in Seq(Packets), Tell(q), up
    PROVE  Grows
BY SaidLast DEF Grows

\* And a single packet is the last.
LEMMA SaidOne ==
    ASSUME wire \in Seq(Packets), NEW p \in Packets, Tell(<< p >>), up
    PROVE  /\ Grows /\ Len(wire') = Len(wire) + 1 /\ wire'[Len(wire) + 1] = p
           /\ wire' \in Seq(Packets)
<1> DEFINE q == << p >>
<1>1. q \in Seq(Packets) /\ Len(q) = 1 /\ q[1] = p
  OBVIOUS
<1>2. Tell(q)
  OBVIOUS
<1> HIDE DEF q
<1>3. /\ Len(wire') = Len(wire) + Len(q)
      /\ \A i \in 1..Len(q) : wire'[Len(wire) + i] = q[i]
  BY <1>1, <1>2, SaidLast
<1>4. 1 \in 1..Len(q)
  BY <1>1
<1>5. wire'[Len(wire) + 1] = q[1]
  BY <1>3, <1>4
<1> QED  BY <1>1, <1>2, <1>3, <1>5, SaidGrows, TellTyped

\* A new friend adds to wire,
LEMMA FriendGrows ==
    ASSUME Basic, NEW f \in Friends, MakesFriend(f), up
    PROVE  Grows
<1>1. /\ Len(wire) \in Nat /\ Len(About({f})) \in Nat
      /\ Len(wire') = Len(wire) + 1 + Len(About({f}))
      /\ \A i \in 1..Len(wire) : wire'[i] = wire[i]
  BY MadeFriend
<1>2. Len(wire') \in Nat /\ Len(wire) <= Len(wire')
  BY <1>1
<1> QED  BY <1>1, <1>2 DEF Grows

\* and so does everything friends do.
LEMMA EnvironmentGrows ==
    ASSUME Basic, NEW f \in Friends, Environment(f), up
    PROVE  Grows
<1>1. /\ session[f] \in 0..MaxEvents /\ sessions[f] \in 0..MaxEvents /\ wire \in Seq(Packets)
      /\ events \in Nat /\ sessions[f] <= events /\ events < MaxEvents
  BY DEF Environment, Befriend, Invites, ComesOnline, GoesOffline, ChangesStatus, ChangesGame,
         Writes, FriendActs, Basic, Typed, Counted
<1>2. CASE Befriend(f)
  BY <1>2, FriendGrows DEF Befriend
<1>3. ASSUME NEW p \in Packets, Tell(<< p >>)
      PROVE  Grows
  <2>1. << p >> \in Seq(Packets)
    OBVIOUS
  <2> QED  BY <1>1, <1>3, <2>1, SaidGrows
<1>4. CASE UNCHANGED wire
  BY <1>1, <1>4, LenProperties DEF Grows
<1>5. CASE Invites(f)
  BY <1>3, <1>5, PacketsMade DEF Invites
<1>6. CASE ComesOnline(f)
  <2>1. Session(f, sessions[f] + 1) \in Packets
    BY <1>1, PacketsMade
  <2> QED  BY <1>3, <1>4, <1>6, <2>1 DEF ComesOnline
<1>7. CASE GoesOffline(f)
  <2>1. Session(f, 0) \in Packets
    BY PacketsMade
  <2> QED  BY <1>3, <1>4, <1>7, <2>1 DEF GoesOffline
<1>8. CASE ChangesStatus(f)
  <2>1. session[f] \in 1..MaxEvents /\ (f \notin away) \in BOOLEAN
    BY <1>1, <1>8 DEF ChangesStatus
  <2>2. StatusMsg(f, session[f], f \notin away) \in Packets
    BY <2>1, PacketsMade
  <2> QED  BY <1>3, <1>4, <1>8, <2>2 DEF ChangesStatus
<1>9. CASE ChangesGame(f)
  <2>1. session[f] \in 1..MaxEvents
    BY <1>1, <1>9 DEF ChangesGame
  <2>2. PICK g \in Playable :
           IF f \in Told THEN Tell(<< GameInfo(f, session[f], g) >>) ELSE UNCHANGED wire
    BY <1>9 DEF ChangesGame, Playable
  <2>3. GameInfo(f, session[f], g) \in Packets
    BY <2>1, PacketsMade
  <2> QED  BY <1>3, <1>4, <2>2, <2>3
<1>10. CASE Writes(f)
  <2>1. session[f] \in 1..MaxEvents
    BY <1>1, <1>10 DEF Writes
  <2>2. Chat(f, session[f]) \in Packets
    BY <2>1, PacketsMade
  <2> QED  BY <1>3, <1>10, <2>2 DEF Writes
<1> QED  BY <1>2, <1>5, <1>6, <1>7, <1>8, <1>9, <1>10 DEF Environment

--------------------------------------------------------------------------------
(* Lists are shown. *)

\* Who is named or invited in wire still is behind the first packet, or by that packet.
LEMMA ComingAfterHead ==
    ASSUME wire \in Seq(Packets), NEW t, Receive(t), clanFriends' = clanFriends, NEW f
    PROVE  /\ Coming(f) => Coming(f)' \/ Names(Head(wire), f, clanFriends)
           /\ Announced(f) => Announced(f)' \/ (t = "invitations" /\ f \in Head(wire).friends)
<1>1. /\ Len(wire) \in Nat \ {0} /\ Head(wire) = wire[1] /\ Head(wire).type = t
      /\ Len(wire') = Len(wire) - 1 /\ \A i \in 1..Len(wire') : wire'[i] = wire[i + 1]
  BY Received
<1>2. ASSUME NEW k \in 1..Len(wire), k # 1
      PROVE  k - 1 \in 1..Len(wire') /\ wire'[k - 1] = wire[k]
  <2>1. k - 1 \in 1..Len(wire') /\ (k - 1) + 1 = k
    BY <1>1, <1>2
  <2> QED  BY <1>1, <2>1
<1>3. Coming(f) => Coming(f)' \/ Names(Head(wire), f, clanFriends)
  <2> HAVE Coming(f)
  <2>1. PICK k \in 1..Len(wire) : Names(wire[k], f, clanFriends)
    BY DEF Coming
  <2> QED  BY <1>1, <1>2, <2>1 DEF Coming
<1>4. Announced(f) => Announced(f)' \/ (t = "invitations" /\ f \in Head(wire).friends)
  <2> HAVE Announced(f)
  <2>1. PICK k \in 1..Len(wire) : wire[k].type = "invitations" /\ f \in wire[k].friends
    BY DEF Announced
  <2> QED  BY <1>1, <1>2, <2>1 DEF Announced
<1> QED  BY <1>3, <1>4

\* And still is when wire grows.
LEMMA ComingGrows ==
    ASSUME Grows, clanFriends' = clanFriends, NEW f
    PROVE  (Coming(f) => Coming(f)') /\ (Announced(f) => Announced(f)')
<1>1. \A k \in 1..Len(wire) : k \in 1..Len(wire') /\ wire'[k] = wire[k]
  BY DEF Grows
<1> QED  BY <1>1 DEF Coming, Announced

\* A new friend is named in wire.
LEMMA FriendComes ==
    ASSUME Basic, NEW f \in Friends, MakesFriend(f), up, clanFriends' = clanFriends
    PROVE  Coming(f)'
<1>1. /\ Len(wire) \in Nat /\ Len(About({f})) \in Nat
      /\ Len(wire') = Len(wire) + 1 + Len(About({f})) /\ wire'[Len(wire) + 1] = Listed({f})
  BY MadeFriend
<1>2. Len(wire) + 1 \in 1..Len(wire')
  BY <1>1
<1>3. Names(wire'[Len(wire) + 1], f, clanFriends)
  BY <1>1 DEF Names, Listed
<1> QED  BY <1>2, <1>3 DEF Coming

\* Whom the list in front names has a contact with his id when it was handled, and whom the
\* invitations name was asked about.
LEMMA AppearLists ==
    ASSUME Basic, Appear, HandleFriends \/ HandleClan \/ HandleInvitations
    PROVE  Appear'
<1>1. PICK t \in {"friends", "clan", "invitations"} :
          /\ Receive(t)
          /\ t = "friends" => HandleFriends
          /\ t = "clan" => HandleClan
          /\ t = "invitations" => HandleInvitations
  BY DEF HandleFriends, HandleClan, HandleInvitations, Receive
<1>2. UNCHANGED <<list, pending, clanFriends, up>>
  BY DEF HandleFriends, HandleClan, HandleInvitations, Handled, server
<1>3. wire \in Seq(Packets) /\ Head(wire).type = t /\ Head(wire).friends \in SUBSET Friends
  <2>1. wire \in Seq(Packets)
    BY DEF Basic, Typed
  <2> QED  BY <1>1, <2>1, Received, PacketFields
<1> DEFINE fs == Head(wire).friends
<1>4. CASE UNCHANGED <<known, contact, deleted>> /\ (t # "clan" \/ ~clanFriends)
           /\ t # "friends" /\ mistaken' = mistaken
           /\ asked' = IF t = "invitations" THEN asked \cup fs ELSE asked
  <2>1. \A f : Coming(f) => Coming(f)'
    BY <1>1, <1>2, <1>3, <1>4, ComingAfterHead DEF Names
  <2>2. \A f : Announced(f) => Announced(f)' \/ f \in asked'
    BY <1>1, <1>2, <1>3, <1>4, ComingAfterHead
  <2> QED  BY <1>2, <1>4, <2>1, <2>2 DEF Appear, Ready, Shown
<1>5. CASE NewContacts(fs) /\ deleted' = deleted \ fs /\ asked' = asked
           /\ t # "invitations" /\ mistaken' = mistaken
  <2>1. /\ known' = known \cup fs
        /\ \A f \in Friends : contact'[f].id = IF f \in fs THEN f ELSE contact[f].id
    BY <1>3, <1>5, ListedContacts DEF Basic
  <2>2. \A f : Coming(f) => Coming(f)' \/ f \in fs
    BY <1>1, <1>2, <1>3, ComingAfterHead DEF Names
  <2>3. \A f : Announced(f) => Announced(f)'
    BY <1>1, <1>2, <1>3, <1>5, ComingAfterHead
  <2>4. \A f \in Friends : f \in fs => Ready(f)'
    BY <1>5, <2>1 DEF Ready
  <2>5. \A f \in Friends : Ready(f) => Ready(f)'
    BY <1>5, <2>1 DEF Ready
  <2>6. list \subseteq Friends /\ Shown \subseteq Friends
    BY DEF Basic, Typed, Shown
  <2> QED  BY <1>2, <1>5, <2>1, <2>2, <2>3, <2>4, <2>5, <2>6 DEF Appear, Shown
<1>6. CASE t = "friends"
  BY <1>1, <1>5, <1>6 DEF HandleFriends
<1>7. CASE t = "clan"
  BY <1>1, <1>4, <1>5, <1>7 DEF HandleClan
<1>8. CASE t = "invitations"
  BY <1>1, <1>4, <1>8 DEF HandleInvitations, Asked
<1> QED  BY <1>6, <1>7, <1>8

\* Sessions, status, games and messages change nobody's id.
LEMMA PresenceIds ==
    ASSUME Basic, HandleSid \/ HandleStatus \/ HandleGame \/ HandleChat
    PROVE  \A f \in Friends : contact'[f].id = contact[f].id
<1> DEFINE p == Head(wire)
<1>1. known \subseteq Friends /\ wire \in Seq(Packets) /\ Typed
  BY DEF Basic, Typed
<1>2. CASE HandleSid
  <2>1. Receive("sid")
    BY <1>2 DEF HandleSid
  <2>2. p.sid \in Sids
    BY <1>1, <2>1, Received, PacketFields DEF Sids
  <2>3. ASSUME NEW c \in FindById(p.id), UpdateSid(c, p.sid)
        PROVE  \A f \in Friends : contact'[f].id = contact[f].id
    BY <1>1, <2>2, <2>3, SidContact DEF FindById
  <2> QED  BY <1>2, <2>3 DEF HandleSid
<1>3. CASE HandleStatus
  <2>1. Receive("status")
    BY <1>3 DEF HandleStatus
  <2>2. p.afk \in BOOLEAN
    BY <1>1, <2>1, Received, PacketFields
  <2>3. ASSUME NEW c \in FindBySid(p.sid), SetStatus(c, p.afk)
        PROVE  \A f \in Friends : contact'[f].id = contact[f].id
    BY <1>1, <2>2, <2>3, StatusContact DEF FindBySid
  <2> QED  BY <1>3, <2>3 DEF HandleStatus
<1>4. CASE HandleGame
  <2>1. Receive("game")
    BY <1>4 DEF HandleGame
  <2>3. ASSUME NEW c \in FindBySid(p.sid), UpdateGame(c, p.game)
        PROVE  \A f \in Friends : contact'[f].id = contact[f].id
    BY <1>1, <2>3, GameContact DEF FindBySid
  <2> QED  BY <1>4, <2>3 DEF HandleGame
<1>5. CASE HandleChat
  BY <1>5 DEF HandleChat
<1> QED  BY <1>2, <1>3, <1>4, <1>5

\* So who has a contact still has it, and who is named is named still.
LEMMA AppearPresence ==
    ASSUME Basic, Appear, HandleSid \/ HandleStatus \/ HandleGame \/ HandleChat
    PROVE  Appear'
<1>1. PICK t \in {"sid", "status", "game", "im"} : Receive(t)
  BY DEF HandleSid, HandleStatus, HandleGame, HandleChat
<1>2. UNCHANGED <<list, pending, clanFriends, up, known, asked, deleted>>
  BY DEF HandleSid, HandleStatus, HandleGame, HandleChat, Handled, server
<1>7. mistaken => mistaken'
  BY DEF HandleSid, HandleStatus, HandleGame, HandleChat
<1>3. wire \in Seq(Packets) /\ Head(wire).type = t
  BY <1>1 DEF Basic, Typed, Receive
<1>4. \A f : (Coming(f) => Coming(f)') /\ (Announced(f) => Announced(f)')
  BY <1>1, <1>2, <1>3, ComingAfterHead DEF Names
<1>5. \A f \in Friends : Ready(f) => Ready(f)'
  BY <1>2, PresenceIds DEF Ready
<1>6. Shown \subseteq Friends
  BY DEF Basic, Typed, Shown
<1> QED  BY <1>2, <1>4, <1>5, <1>6, <1>7 DEF Appear, Shown

\* A login names everyone listed and everyone who waits for an answer.
LEMMA AppearConnection ==
    ASSUME Basic, Appear, LogsIn \/ Disconnects
    PROVE  Appear'
<1>1. CASE Disconnects
  BY <1>1 DEF Disconnects, Appear
<1>2. CASE LogsIn
  <2>1. /\ Len(About(Told)) \in Nat /\ Len(wire') = Len(About(Told)) + 3
        /\ wire'[1] = Listed(list) /\ wire'[2] = ClanListed
        /\ wire'[Len(About(Told)) + 3] = Invitations(pending)
    BY <1>2, LoggedIn
  <2>2. 1 \in 1..Len(wire') /\ 2 \in 1..Len(wire') /\ Len(About(Told)) + 3 \in 1..Len(wire')
    BY <2>1
  <2>3. UNCHANGED <<list, pending, clanFriends>>
    BY <1>2 DEF LogsIn, server, client
  <2>4. \A f \in list : Coming(f)'
    BY <2>1, <2>2 DEF Coming, Names, Listed
  <2>5. clanFriends => \A f \in Clan : Coming(f)'
    BY <2>1, <2>2, <2>3 DEF Coming, Names, ClanListed
  <2>6. \A f \in pending : Announced(f)'
    BY <2>1, <2>2 DEF Announced, Invitations
  <2> QED  BY <2>3, <2>4, <2>5, <2>6 DEF Appear, Shown
<1> QED  BY <1>1, <1>2

\* Who is invited has a contact, who is accepted is named in wire, who is deleted excused.
LEMMA AppearUser ==
    ASSUME Basic, Appear, NEW f \in Friends, Invite(f) \/ DeleteContact(f) \/ Answer(f)
    PROVE  Appear'
<1>1. CASE Invite(f)
  <2>1. UNCHANGED <<list, pending, clanFriends, up, asked, deleted, wire, mistaken>>
        /\ f \notin known /\ known' = known \cup {f}
    BY <1>1 DEF Invite, server
  <2>2. \A g \in Friends : Ready(g) => Ready(g)'
    <3>1. PICK x : contact' = [contact EXCEPT ![f] = x]
      BY <1>1 DEF Invite
    <3>2. \A g \in Friends : g # f => contact'[g] = contact[g]
      BY <3>1 DEF Basic, Typed
    <3> QED  BY <2>1, <3>2 DEF Ready
  <2>3. \A g : (Coming(g) <=> Coming(g)') /\ (Announced(g) <=> Announced(g)')
    BY <2>1 DEF Coming, Announced
  <2>4. Shown \subseteq Friends
    BY DEF Basic, Typed, Shown
  <2> QED  BY <2>1, <2>2, <2>3, <2>4 DEF Appear, Shown
<1>2. CASE DeleteContact(f)
  <2>1. /\ UNCHANGED <<pending, clanFriends, up, asked, wire>>
        /\ known' = known \ {f} /\ list' = list \ {contact[f].id} /\ deleted' = deleted \cup {f}
        /\ mistaken' = (mistaken \/ contact[f].id # f)
        /\ contact' = [contact EXCEPT ![f] = Fresh(NoId)]
    BY <1>2 DEF DeleteContact, SendFriendRemoval
  <2>2. \A g \in Friends : Ready(g) => Ready(g)' \/ g \in deleted'
    <3>2. \A g \in Friends : g # f => contact'[g] = contact[g]
      BY <2>1 DEF Basic, Typed
    <3> QED  BY <2>1, <3>2 DEF Ready
  <2>3. \A g : (Coming(g) <=> Coming(g)') /\ (Announced(g) <=> Announced(g)')
    BY <2>1 DEF Coming, Announced
  <2>4. Shown \subseteq Friends /\ Shown' \subseteq Shown
    BY <2>1 DEF Basic, Typed, Shown
  <2>5. ASSUME up, NEW g \in Shown'
        PROVE  Ready(g)' \/ g \in deleted' \/ Coming(g)'
    <3>1. Ready(g) \/ g \in deleted \/ Coming(g)
      BY <2>4, <2>5 DEF Appear
    <3> QED  BY <2>1, <2>2, <2>3, <2>4, <2>5, <3>1
  <2>6. ASSUME up, ~mistaken', NEW g \in list'
        PROVE  g \in known' \/ Coming(g)'
    <3>1. g \in list /\ g # f /\ ~mistaken
      BY <2>1, <2>6
    <3>2. g \in known \/ Coming(g)
      BY <2>6, <3>1 DEF Appear
    <3> QED  BY <2>1, <2>3, <3>1, <3>2
  <2>7. up => \A g \in pending' : g \in asked' \/ Announced(g)'
    BY <2>1, <2>3 DEF Appear
  <2> QED  BY <2>1, <2>5, <2>6, <2>7 DEF Appear
<1>3. CASE Answer(f)
  <2>1. UNCHANGED <<up, clanFriends, known, contact, deleted, mistaken>> /\ asked' = asked \ {f}
    BY <1>3 DEF Answer
  <2>2. CASE ~up
    BY <2>1, <2>2 DEF Appear
  <2>3. CASE up /\ UNCHANGED <<list, wire>> /\ pending' = pending \ {f}
    <3>1. \A g : (Coming(g) <=> Coming(g)') /\ (Announced(g) <=> Announced(g)')
      BY <2>1, <2>3 DEF Coming, Announced
    <3> QED  BY <2>1, <2>3, <3>1 DEF Appear, Shown, Ready
  <2>4. CASE up /\ MakesFriend(f) /\ pending' = pending \ {f}
    <3>1. list' = list \cup {f} /\ Grows /\ Coming(f)'
      BY <2>1, <2>4, FriendGrows, FriendComes DEF MakesFriend
    <3>2. \A g : (Coming(g) => Coming(g)') /\ (Announced(g) => Announced(g)')
      BY <2>1, <3>1, ComingGrows
    <3> QED  BY <2>1, <2>4, <3>1, <3>2 DEF Appear, Shown, Ready
  <2>5. CASE up /\ UNCHANGED <<list, wire, pending>> /\ f \notin pending
    <3>1. \A g : (Coming(g) <=> Coming(g)') /\ (Announced(g) <=> Announced(g)')
      BY <2>1, <2>5 DEF Coming, Announced
    <3> QED  BY <2>1, <2>5, <3>1 DEF Appear, Shown, Ready
  <2> QED  BY <1>3, <2>2, <2>3, <2>4, <2>5 DEF Answer, SendFriendInvitationResponse, ServerAccepts
<1> QED  BY <1>1, <1>2, <1>3

\* Who is befriended or invites is named in wire, if connected.
LEMMA AppearEnvironment ==
    ASSUME Basic, Appear, NEW f \in Friends, Environment(f)
    PROVE  Appear'
<1>1. UNCHANGED <<up, clanFriends, known, contact, asked, deleted, mistaken>>
  BY DEF Environment, Befriend, Invites, ComesOnline, GoesOffline, ChangesStatus, ChangesGame,
         Writes, Elsewhere, client
<1>2. SUFFICES ASSUME up
               PROVE  Appear'
  BY <1>1 DEF Appear
<1>3. \A g : (Coming(g) => Coming(g)') /\ (Announced(g) => Announced(g)')
  BY <1>1, <1>2, EnvironmentGrows, ComingGrows
<1>4. CASE Befriend(f)
  <2>1. list' = list \cup {f} /\ Coming(f)' /\ pending' = pending \ {f}
    BY <1>1, <1>2, <1>4, FriendComes DEF Befriend, MakesFriend
  <2> QED  BY <1>1, <1>2, <1>3, <2>1 DEF Appear, Shown, Ready
<1>5. CASE Invites(f)
  <2>1. list' = list /\ pending' = pending \cup {f} /\ Tell(<< Invitations({f}) >>)
    BY <1>5 DEF Invites
  <2>2. << Invitations({f}) >> \in Seq(Packets) /\ wire \in Seq(Packets)
    BY PacketsMade DEF Basic, Typed
  <2> DEFINE q == << Invitations({f}) >>
  <2>3. Len(q) = 1 /\ q[1] = Invitations({f})
    OBVIOUS
  <2> HIDE DEF q
  <2>4. /\ Len(wire) \in Nat /\ Len(wire') = Len(wire) + Len(q)
        /\ \A i \in 1..Len(q) : wire'[Len(wire) + i] = q[i]
    BY <1>2, <2>1, <2>2, SaidLast DEF q
  <2>5. Len(wire) + 1 \in 1..Len(wire') /\ wire'[Len(wire) + 1] = Invitations({f})
    BY <2>3, <2>4
  <2>6. Announced(f)'
    BY <2>5 DEF Announced, Invitations
  <2> QED  BY <1>1, <1>2, <1>3, <2>1, <2>6 DEF Appear, Shown, Ready
<1>6. CASE UNCHANGED <<list, pending>>
  BY <1>1, <1>2, <1>3, <1>6 DEF Appear, Shown, Ready
<1> QED  BY <1>4, <1>5, <1>6 DEF Environment, ComesOnline, GoesOffline, ChangesStatus,
            ChangesGame, Writes

\* Appear holds in every state.
LEMMA AppearInductive ==
    /\ Init => Appear
    /\ Basic /\ Appear /\ [Next]_vars => Appear'
<1>1. Init => Appear
  BY DEF Init, Appear
<1>2. ASSUME Basic, Appear, Acting
      PROVE  Appear'
  BY <1>2, AppearLists, AppearPresence, AppearConnection, AppearUser, AppearEnvironment
     DEF Acting, Handle
<1>3. ASSUME Appear, UNCHANGED vars
      PROVE  Appear'
  BY <1>3 DEF Appear, Shown, Ready, Coming, Announced, vars, server, client
<1> QED  BY <1>1, <1>2, <1>3, Steps

\* Once everything the server said is handled, every friend has a contact, the clan's
\* who are wanted too, and every invitation without an answer is shown (handlePacket,
\* cases 0x0083, 0x009f and 0x008a; XfireAccount::newContact), for any friends and clan,
\* whatever was saved, invited, deleted, answered and cut off before.
THEOREM EveryoneIsShown == Spec => []ListsShown
<1>1. Basic /\ Appear => ListsShown
  <2> SUFFICES ASSUME Basic, Appear, up, wire = <<>>, ~mistaken
               PROVE  /\ Shown \ deleted \subseteq known /\ list \subseteq known
                      /\ pending \subseteq asked
    BY DEF ListsShown, Drained
  <2>1. \A k : k \notin 1..Len(wire)
    OBVIOUS
  <2>2. \A f : ~Coming(f) /\ ~Announced(f)
    BY <2>1 DEF Coming, Announced
  <2> QED  BY <2>2 DEF Appear, Ready
<1> QED  BY <1>1, BasicInductive, AppearInductive, PTL DEF Spec

--------------------------------------------------------------------------------
(* What the server says of friends. *)

\* Sessions, then status messages, then games, each once.
Described(a, fs, m, n) ==
    /\ \A i \in 1..m : \E g \in Online(fs) : a[i] = Session(g, session[g])
    /\ \A i \in (m + 1)..n : \E g \in away \cap fs : a[i] = StatusMsg(g, session[g], TRUE)
    /\ \A i \in (n + 1)..Len(a) : \E g \in playing \cap fs : a[i] = GameInfo(g, session[g], plays[g])
    /\ \A g \in Online(fs) : \E i \in 1..m : a[i] = Session(g, session[g])
    /\ \A g \in away \cap fs : \E i \in (m + 1)..n : a[i] = StatusMsg(g, session[g], TRUE)
    /\ \A g \in playing \cap fs : \E i \in (n + 1)..Len(a) : a[i] = GameInfo(g, session[g], plays[g])
    /\ \A i, j \in 1..m : a[i] = a[j] => i = j
    /\ \A i, j \in (m + 1)..n : a[i] = a[j] => i = j
    /\ \A i, j \in (n + 1)..Len(a) : a[i] = a[j] => i = j

\* What is told about friends has three parts: sessions, status messages and games.
LEMMA AboutParts ==
    ASSUME Basic, NEW fs \in SUBSET Friends
    PROVE  /\ About(fs) \in Seq(Packets) /\ Len(About(fs)) \in Nat
           /\ \E m, n \in Nat : m <= n /\ n <= Len(About(fs)) /\ Described(About(fs), fs, m, n)
<1> DEFINE A == {Session(f, session[f]) : f \in Online(fs)}
           B == {StatusMsg(f, session[f], TRUE) : f \in away \cap fs}
           C == {GameInfo(f, session[f], plays[f]) : f \in playing \cap fs}
           a == SetToSeq(A)
           b == SetToSeq(B)
           c == SetToSeq(C)
           ab == a \o b
           abc == ab \o c
           m == Len(a)
           n == Len(a) + Len(b)
<1>1. Online(fs) \in SUBSET Friends /\ away \cap fs \in SUBSET Friends
      /\ playing \cap fs \in SUBSET Friends
  BY DEF Online
<1>2. /\ \A f \in Friends : session[f] \in 0..MaxEvents /\ plays[f] \in Playable
      /\ \A f \in away \cup playing : f \in Friends /\ session[f] \in 1..MaxEvents
  BY DEF Basic, Typed, Online
<1>3. A \subseteq Packets /\ B \subseteq Packets /\ C \subseteq Packets
  <2>1. A \subseteq Packets
    BY <1>1, <1>2, PacketsMade
  <2>2. B \subseteq Packets
    BY <1>1, <1>2, PacketsMade
  <2>3. \A f \in playing \cap fs : GameInfo(f, session[f], plays[f]) \in Packets
    BY <1>1, <1>2, PacketsMade
  <2> QED  BY <2>1, <2>2, <2>3
<1>4. IsFiniteSet(A) /\ IsFiniteSet(B) /\ IsFiniteSet(C)
  BY <1>1, FiniteImages
<1>5. About(fs) = abc
  BY DEF About
<1>6. /\ \A p \in A : \E g \in Online(fs) : p = Session(g, session[g])
      /\ \A g \in Online(fs) : Session(g, session[g]) \in A
      /\ \A p \in B : \E g \in away \cap fs : p = StatusMsg(g, session[g], TRUE)
      /\ \A g \in away \cap fs : StatusMsg(g, session[g], TRUE) \in B
      /\ \A p \in C : \E g \in playing \cap fs : p = GameInfo(g, session[g], plays[g])
      /\ \A g \in playing \cap fs : GameInfo(g, session[g], plays[g]) \in C
  OBVIOUS
<1> HIDE DEF A, B, C
<1>7. a \in Seq(Packets) /\ b \in Seq(Packets) /\ c \in Seq(Packets)
  BY <1>3, <1>4, SetAsSequence, SeqMonotonic
<1>8. /\ \A i \in 1..Len(a) : a[i] \in A
      /\ \A x \in A : \E i \in 1..Len(a) : a[i] = x
      /\ \A i, j \in 1..Len(a) : a[i] = a[j] => i = j
  BY <1>4, SetAsSequence
<1>9. /\ \A i \in 1..Len(b) : b[i] \in B
      /\ \A x \in B : \E i \in 1..Len(b) : b[i] = x
      /\ \A i, j \in 1..Len(b) : b[i] = b[j] => i = j
  BY <1>4, SetAsSequence
<1>10. /\ \A i \in 1..Len(c) : c[i] \in C
       /\ \A x \in C : \E i \in 1..Len(c) : c[i] = x
       /\ \A i, j \in 1..Len(c) : c[i] = c[j] => i = j
  BY <1>4, SetAsSequence
<1> HIDE DEF a, b, c
<1>11. /\ ab \in Seq(Packets) /\ Len(ab) = n /\ m \in Nat /\ Len(b) \in Nat /\ n \in Nat /\ m <= n
       /\ \A i \in 1..m : ab[i] = a[i]
       /\ \A i \in 1..Len(b) : ab[m + i] = b[i]
  <2>1. /\ ab \in Seq(Packets)
        /\ Len(a) \in Nat /\ Len(b) \in Nat /\ Len(ab) = Len(a) + Len(b)
        /\ \A i \in 1..Len(a) : ab[i] = a[i]
        /\ \A i \in 1..Len(b) : ab[Len(a) + i] = b[i]
    BY <1>7, Joined
  <2> QED  BY <2>1
<1> HIDE DEF ab
<1>12. /\ abc \in Seq(Packets) /\ Len(c) \in Nat /\ Len(abc) = n + Len(c)
       /\ \A i \in 1..n : abc[i] = ab[i]
       /\ \A i \in 1..Len(c) : abc[n + i] = c[i]
  <2>1. /\ abc \in Seq(Packets)
        /\ Len(ab) \in Nat /\ Len(c) \in Nat /\ Len(abc) = Len(ab) + Len(c)
        /\ \A i \in 1..Len(ab) : abc[i] = ab[i]
        /\ \A i \in 1..Len(c) : abc[Len(ab) + i] = c[i]
    BY <1>7, <1>11, Joined
  <2> QED  BY <1>11, <2>1
<1> HIDE DEF abc
<1>13. /\ \A i \in 1..m : abc[i] = a[i]
       /\ \A i \in 1..Len(b) : abc[m + i] = b[i]
  <2>1. \A i \in 1..m : i \in 1..n
    BY <1>11
  <2>2. \A i \in 1..Len(b) : m + i \in 1..n
    BY <1>11
  <2> QED  BY <1>11, <1>12, <2>1, <2>2
<1>14. /\ \A i \in (m + 1)..n : i - m \in 1..Len(b) /\ abc[i] = b[i - m]
       /\ \A i \in (n + 1)..Len(abc) : i - n \in 1..Len(c) /\ abc[i] = c[i - n]
  <2>1. ASSUME NEW i \in (m + 1)..n
        PROVE  i - m \in 1..Len(b) /\ abc[i] = b[i - m]
    <3>1. i - m \in 1..Len(b) /\ m + (i - m) = i
      BY <1>11
    <3> QED  BY <1>13, <3>1
  <2>2. ASSUME NEW i \in (n + 1)..Len(abc)
        PROVE  i - n \in 1..Len(c) /\ abc[i] = c[i - n]
    <3>1. i - n \in 1..Len(c) /\ n + (i - n) = i
      BY <1>11, <1>12
    <3> QED  BY <1>12, <3>1
  <2> QED  BY <2>1, <2>2
<1>15. /\ \A i \in 1..Len(b) : m + i \in (m + 1)..n
       /\ \A i \in 1..Len(c) : n + i \in (n + 1)..Len(abc)
  BY <1>11, <1>12
<1>16. Described(abc, fs, m, n)
  <2>1. /\ \A i \in 1..m : \E g \in Online(fs) : abc[i] = Session(g, session[g])
        /\ \A i \in (m + 1)..n : \E g \in away \cap fs : abc[i] = StatusMsg(g, session[g], TRUE)
        /\ \A i \in (n + 1)..Len(abc) :
              \E g \in playing \cap fs : abc[i] = GameInfo(g, session[g], plays[g])
    <3> HIDE DEF m, n
    <3>1. \A i \in 1..m : abc[i] \in A
      BY <1>8, <1>13 DEF m
    <3>2. \A i \in (m + 1)..n : abc[i] \in B
      BY <1>9, <1>14
    <3>3. \A i \in (n + 1)..Len(abc) : abc[i] \in C
      BY <1>10, <1>14
    <3> QED  BY <1>6, <3>1, <3>2, <3>3
  <2>2. \A g \in Online(fs) : \E i \in 1..m : abc[i] = Session(g, session[g])
    BY <1>6, <1>8, <1>13
  <2>3. \A g \in away \cap fs : \E i \in (m + 1)..n : abc[i] = StatusMsg(g, session[g], TRUE)
    <3> TAKE g \in away \cap fs
    <3>1. PICK i \in 1..Len(b) : b[i] = StatusMsg(g, session[g], TRUE)
      BY <1>6, <1>9
    <3>2. m + i \in (m + 1)..n /\ abc[m + i] = b[i]
      BY <1>13, <1>15
    <3> QED  BY <3>1, <3>2
  <2>4. \A g \in playing \cap fs :
            \E i \in (n + 1)..Len(abc) : abc[i] = GameInfo(g, session[g], plays[g])
    <3> TAKE g \in playing \cap fs
    <3>1. PICK i \in 1..Len(c) : c[i] = GameInfo(g, session[g], plays[g])
      BY <1>6, <1>10
    <3>2. n + i \in (n + 1)..Len(abc) /\ abc[n + i] = c[i]
      BY <1>12, <1>15
    <3> QED  BY <3>1, <3>2
  <2>5. \A i, j \in 1..m : abc[i] = abc[j] => i = j
    BY <1>8, <1>13
  <2>6. \A i, j \in (m + 1)..n : abc[i] = abc[j] => i = j
    <3>1. \A i, j \in (m + 1)..n : abc[i] = abc[j] => i - m = j - m
      BY <1>9, <1>14
    <3> QED  BY <1>11, <3>1
  <2>7. \A i, j \in (n + 1)..Len(abc) : abc[i] = abc[j] => i = j
    <3>1. \A i, j \in (n + 1)..Len(abc) : abc[i] = abc[j] => i - n = j - n
      BY <1>10, <1>14
    <3> QED  BY <1>11, <1>12, <3>1
  <2> QED  BY <2>1, <2>2, <2>3, <2>4, <2>5, <2>6, <2>7 DEF Described
<1>17. Len(abc) \in Nat /\ m <= n /\ n <= Len(abc)
  BY <1>11, <1>12
<1> HIDE DEF m, n
<1> QED  BY <1>5, <1>11, <1>12, <1>16, <1>17

\* What each packet tells, and whom it names.
LEMMA SessionTells ==
    ASSUME NEW g \in Friends, NEW n \in 0..MaxEvents, NEW p, p = Session(g, n)
    PROVE  /\ \A f \in Friends, x \in Facets : Tells(p, f, x) <=> f = g /\ x \in {"sid", "status"}
           /\ Said(p, "sid") = Sid(g, n) /\ p.sid = Sid(g, n) /\ p.type = "sid" /\ p.id = g
           /\ Said(p, "status") = IF n = 0 THEN "Offline" ELSE "Online"
           /\ \A f \in Friends : ~Uses(p, f) /\ \A c \in BOOLEAN : ~Names(p, f, c)
<1>1. p.type = "sid" /\ p.id = g /\ p.sid = Sid(g, n)
  BY DEF Session
<1>2. Sid(g, n) = NoSid <=> n = 0
  BY DEF Sid, NoSid
<1>3. Said(p, "sid") = Sid(g, n) /\ Said(p, "status") = IF n = 0 THEN "Offline" ELSE "Online"
  BY <1>1, <1>2 DEF Said, StatusOf
<1>4. \A f \in Friends, x \in Facets : Tells(p, f, x) <=> f = g /\ x \in {"sid", "status"}
  BY <1>1 DEF Tells, Facets
<1>5. \A f \in Friends : ~Uses(p, f) /\ \A c \in BOOLEAN : ~Names(p, f, c)
  BY <1>1 DEF Uses, Names
<1> QED  BY <1>1, <1>3, <1>4, <1>5

\* A status message tells of one facet of one friend, and uses his session.
LEMMA StatusTells ==
    ASSUME NEW g \in Friends, NEW n \in 1..MaxEvents, NEW p,
           p.type = "status", p.sid = Sid(g, n)
    PROVE  /\ \A f \in Friends, x \in Facets : Tells(p, f, x) <=> f = g /\ x = "status"
           /\ Said(p, "status") = IF p.afk THEN "Away" ELSE "Online"
           /\ p.sid[1] = g
           /\ \A f \in Friends : Uses(p, f) <=> f = g
           /\ \A f \in Friends, c \in BOOLEAN : ~Names(p, f, c)
<1>2. Sid(g, n)[1] = g
  BY SidsOf
<1>3. Said(p, "status") = IF p.afk THEN "Away" ELSE "Online"
  BY DEF Said
<1>4. \A f \in Friends, x \in Facets : Tells(p, f, x) <=> f = g /\ x = "status"
  BY <1>2 DEF Tells, Facets
<1>5. \A f \in Friends : (Uses(p, f) <=> f = g) /\ \A c \in BOOLEAN : ~Names(p, f, c)
  BY <1>2 DEF Uses, Names
<1> QED  BY <1>2, <1>3, <1>4, <1>5

\* So does a packet about a game.
LEMMA GameTells ==
    ASSUME NEW g \in Friends, NEW n \in 1..MaxEvents, NEW p,
           p.type = "game", p.sid = Sid(g, n)
    PROVE  /\ \A f \in Friends, x \in Facets : Tells(p, f, x) <=> f = g /\ x = "game"
           /\ Said(p, "game") = GameName(p.game) /\ p.sid[1] = g
           /\ \A f \in Friends : Uses(p, f) <=> f = g
           /\ \A f \in Friends, c \in BOOLEAN : ~Names(p, f, c)
<1>2. Sid(g, n)[1] = g
  BY SidsOf
<1>3. Said(p, "game") = GameName(p.game)
  BY DEF Said
<1>4. \A f \in Friends, x \in Facets : Tells(p, f, x) <=> f = g /\ x = "game"
  BY <1>2 DEF Tells, Facets
<1>5. \A f \in Friends : (Uses(p, f) <=> f = g) /\ \A c \in BOOLEAN : ~Names(p, f, c)
  BY <1>2 DEF Uses, Names
<1> QED  BY <1>2, <1>3, <1>4, <1>5

\* A message tells of no facet, and uses the session of its writer.
LEMMA ChatTells ==
    ASSUME NEW g \in Friends, NEW n \in 1..MaxEvents, NEW p, p = Chat(g, n)
    PROVE  /\ \A f \in Friends, x \in Facets : ~Tells(p, f, x)
           /\ p.sid = Sid(g, n) /\ p.type = "im" /\ p.sid[1] = g
           /\ \A f \in Friends : Uses(p, f) <=> f = g
           /\ \A f \in Friends, c \in BOOLEAN : ~Names(p, f, c)
<1>1. p.type = "im" /\ p.sid = Sid(g, n)
  BY DEF Chat
<1>2. Sid(g, n)[1] = g
  BY SidsOf
<1>4. \A f \in Friends, x \in Facets : ~Tells(p, f, x)
  BY <1>1 DEF Tells, Facets
<1>5. \A f \in Friends : (Uses(p, f) <=> f = g) /\ \A c \in BOOLEAN : ~Names(p, f, c)
  BY <1>1, <1>2 DEF Uses, Names
<1> QED  BY <1>1, <1>2, <1>4, <1>5

\* Lists tell of no facet and use no session.
LEMMA ListTells ==
    ASSUME NEW p \in Packets, p.type \in {"friends", "clan", "invitations"}
    PROVE  \A f \in Friends : (\A x \in Facets : ~Tells(p, f, x)) /\ ~Uses(p, f)
BY DEF Tells, Uses, Facets

\* What is told about friends is of those who are online, and of their present session.
LEMMA AboutSays ==
    ASSUME Basic, NEW fs \in SUBSET Friends, NEW i \in 1..Len(About(fs)),
           NEW p, p = About(fs)[i]
    PROVE  /\ p.type \in {"sid", "status", "game"}
           /\ \A f \in Friends, c \in BOOLEAN : ~Names(p, f, c)
           /\ \A f \in Friends, x \in Facets : Tells(p, f, x) =>
                 f \in fs /\ session[f] # 0 /\ p.sid = Sid(f, session[f])
           /\ \A f \in Friends : Uses(p, f) => f \in fs /\ session[f] # 0 /\ p.sid = Sid(f, session[f])
<1> DEFINE a == About(fs)
<1>1. PICK m \in Nat, n \in Nat : m <= n /\ n <= Len(a) /\ Described(a, fs, m, n)
  BY AboutParts
<1>2. /\ \A g \in Online(fs) : g \in fs /\ g \in Friends /\ session[g] \in 1..MaxEvents
      /\ \A g \in away \cup playing : g \in Friends /\ session[g] \in 1..MaxEvents
  BY DEF Basic, Typed, Online
<1>3. Len(a) \in Nat /\ p = a[i]
  BY AboutParts
<1> HIDE DEF a
<1>4. i \in 1..m \/ i \in (m + 1)..n \/ i \in (n + 1)..Len(a)
  BY <1>1, <1>3 DEF a
<1>8. /\ i \in (m + 1)..n => \E g \in away \cap fs : a[i] = StatusMsg(g, session[g], TRUE)
      /\ i \in (n + 1)..Len(a) =>
            \E g \in playing \cap fs : a[i] = GameInfo(g, session[g], plays[g])
  BY <1>1, Zenon DEF Described
<1>5. CASE i \in 1..m
  <2>1. PICK g \in Online(fs) : p = Session(g, session[g])
    BY <1>1, <1>3, <1>5 DEF Described
  <2>2. g \in fs /\ g \in Friends /\ session[g] \in 1..MaxEvents /\ session[g] \in 0..MaxEvents
    BY <1>2
  <2>3. /\ p.type = "sid" /\ p.sid = Sid(g, session[g])
        /\ \A f \in Friends, x \in Facets : Tells(p, f, x) <=> f = g /\ x \in {"sid", "status"}
        /\ \A f \in Friends : ~Uses(p, f) /\ \A c \in BOOLEAN : ~Names(p, f, c)
    BY <2>1, <2>2, SessionTells
  <2> QED  BY <2>2, <2>3
<1>6. CASE i \in (m + 1)..n
  <2>1. PICK g \in away \cap fs : p = StatusMsg(g, session[g], TRUE)
    BY <1>3, <1>6, <1>8, Zenon
  <2>2. g \in fs /\ g \in Friends /\ session[g] \in 1..MaxEvents
    BY <1>2
  <2>3. p.type = "status" /\ p.sid = Sid(g, session[g])
    BY <2>1 DEF StatusMsg
  <2>4. \A f \in Friends, x \in Facets : Tells(p, f, x) <=> f = g /\ x = "status"
    BY <2>2, <2>3, StatusTells
  <2>5. \A f \in Friends : Uses(p, f) <=> f = g
    BY <2>2, <2>3, StatusTells
  <2>6. \A f \in Friends, c \in BOOLEAN : ~Names(p, f, c)
    BY <2>2, <2>3, StatusTells
  <2> QED  BY <2>2, <2>3, <2>4, <2>5, <2>6
<1>7. CASE i \in (n + 1)..Len(a)
  <2>1. PICK g \in playing \cap fs : p = GameInfo(g, session[g], plays[g])
    BY <1>3, <1>7, <1>8, Zenon
  <2>2. g \in fs /\ g \in Friends /\ session[g] \in 1..MaxEvents
    BY <1>2
  <2>3. p.type = "game" /\ p.sid = Sid(g, session[g])
    BY <2>1 DEF GameInfo
  <2>4. \A f \in Friends, x \in Facets : Tells(p, f, x) <=> f = g /\ x = "game"
    BY <2>2, <2>3, GameTells
  <2>5. \A f \in Friends : Uses(p, f) <=> f = g
    BY <2>2, <2>3, GameTells
  <2>6. \A f \in Friends, c \in BOOLEAN : ~Names(p, f, c)
    BY <2>2, <2>3, GameTells
  <2> QED  BY <2>2, <2>3, <2>4, <2>5, <2>6
<1> QED  BY <1>4, <1>5, <1>6, <1>7

--------------------------------------------------------------------------------
(* Messages are counted. *)

\* The messages in a sequence can be counted.
LEMMA FiniteIms ==
    ASSUME NEW w, Len(w) \in Nat, NEW f
    PROVE  IsFiniteSet(Ims(w, f)) /\ Cardinality(Ims(w, f)) \in Nat
<1>1. Ims(w, f) \in SUBSET (1..Len(w))
  BY DEF Ims
<1>2. IsFiniteSet(1..Len(w))
  BY FS_Interval
<1> QED  BY <1>1, <1>2, FS_Subset, FS_CardinalityType

\* A subset of them is no more.
LEMMA FewerIms ==
    ASSUME NEW w, Len(w) \in Nat, NEW v, Len(v) \in Nat, NEW f,
           Ims(v, f) \subseteq Ims(w, f)
    PROVE  Cardinality(Ims(v, f)) <= Cardinality(Ims(w, f))
BY FiniteIms, FS_Subset

\* A packet that is handled leaves no more messages, and one less if it was a message.
LEMMA ImsAfterHead ==
    ASSUME wire \in Seq(Packets), NEW t, Receive(t), NEW f
    PROVE  LET before == Cardinality(Ims(wire, f))
               after == Cardinality(Ims(wire', f))
           IN  /\ before \in Nat /\ after \in Nat /\ after <= before
               /\ t = "im" /\ Head(wire).sid[1] = f => after + 1 <= before
<1> DEFINE before == Ims(wire, f)
           after == Ims(wire', f)
           rest == before \ {1}
           next == [i \in after |-> i + 1]
<1>1. /\ Len(wire) \in Nat \ {0} /\ Head(wire) = wire[1] /\ Head(wire).type = t
      /\ Len(wire') = Len(wire) - 1 /\ \A i \in 1..Len(wire') : wire'[i] = wire[i + 1]
  BY Received
<1>2. Len(wire') \in Nat /\ Len(wire) \in Nat
  BY <1>1
<1>3. IsFiniteSet(before) /\ IsFiniteSet(after) /\ Cardinality(before) \in Nat
      /\ Cardinality(after) \in Nat
  BY <1>2, FiniteIms
<1>4. IsFiniteSet(rest)
      /\ Cardinality(rest) = IF 1 \in before THEN Cardinality(before) - 1 ELSE Cardinality(before)
  BY <1>3, FS_RemoveElement
<1>5. next \in Injection(after, rest)
  <2>1. \A i \in after : i \in Nat /\ i + 1 \in rest
    <3> TAKE i \in after
    <3>1. i \in 1..Len(wire') /\ wire'[i].type = "im" /\ wire'[i].sid[1] = f
      BY DEF Ims
    <3>2. i \in Nat /\ i + 1 \in 1..Len(wire) /\ i + 1 # 1
      BY <1>1, <3>1
    <3>3. wire[i + 1] = wire'[i]
      BY <1>1, <3>1
    <3> QED  BY <3>1, <3>2, <3>3 DEF Ims
  <2> HIDE DEF after, rest
  <2>2. next \in [after -> rest]
    BY <2>1
  <2>3. IsInjective(next)
    BY <2>1 DEF IsInjective
  <2> QED  BY <2>2, <2>3 DEF Injection
<1> HIDE DEF rest, next
<1>6. Cardinality(after) <= Cardinality(rest)
  BY <1>4, <1>5, FS_Injection
<1>7. t = "im" /\ Head(wire).sid[1] = f => 1 \in before
  BY <1>1 DEF Ims
<1> HIDE DEF before, after
<1> QED  BY <1>3, <1>4, <1>6, <1>7 DEF before, after

\* What follows holds no message of f, or one.
LEMMA ImsGrow ==
    ASSUME Grows, NEW f
    PROVE  /\ (\A i \in (Len(wire) + 1)..Len(wire') : wire'[i].type # "im" \/ wire'[i].sid[1] # f)
              => Ims(wire', f) = Ims(wire, f)
           /\ Len(wire') = Len(wire) + 1 =>
                 Cardinality(Ims(wire', f)) <= Cardinality(Ims(wire, f)) + 1
<1>1. /\ Len(wire) \in Nat /\ Len(wire') \in Nat /\ Len(wire) <= Len(wire')
      /\ \A i \in 1..Len(wire) : wire'[i] = wire[i]
  BY DEF Grows
<1>2. ASSUME \A i \in (Len(wire) + 1)..Len(wire') : wire'[i].type # "im" \/ wire'[i].sid[1] # f
      PROVE  Ims(wire', f) = Ims(wire, f)
  <2>1. \A i : i \in Ims(wire', f) => i \in Ims(wire, f)
    <3> SUFFICES ASSUME NEW i \in 1..Len(wire'), wire'[i].type = "im", wire'[i].sid[1] = f
                 PROVE  i \in Ims(wire, f)
      BY DEF Ims
    <3>1. i \in 1..Len(wire)
      BY <1>1, <1>2
    <3> QED  BY <1>1, <3>1 DEF Ims
  <2>2. \A i : i \in Ims(wire, f) => i \in Ims(wire', f)
    <3> SUFFICES ASSUME NEW i \in 1..Len(wire), wire[i].type = "im", wire[i].sid[1] = f
                 PROVE  i \in Ims(wire', f)
      BY DEF Ims
    <3>1. i \in 1..Len(wire')
      BY <1>1
    <3> QED  BY <1>1, <3>1 DEF Ims
  <2> QED  BY <2>1, <2>2
<1>3. ASSUME Len(wire') = Len(wire) + 1
      PROVE  Cardinality(Ims(wire', f)) <= Cardinality(Ims(wire, f)) + 1
  <2> DEFINE more == Ims(wire, f) \cup {Len(wire) + 1}
  <2>1. IsFiniteSet(Ims(wire, f)) /\ Cardinality(Ims(wire, f)) \in Nat
    BY <1>1, FiniteIms
  <2>2. IsFiniteSet(more) /\ Cardinality(more) <= Cardinality(Ims(wire, f)) + 1
    <3>1. /\ IsFiniteSet(more)
          /\ Cardinality(more) = IF Len(wire) + 1 \in Ims(wire, f) THEN Cardinality(Ims(wire, f))
                                 ELSE Cardinality(Ims(wire, f)) + 1
      BY <2>1, FS_AddElement
    <3> HIDE DEF more
    <3> QED  BY <2>1, <3>1
  <2>3. Ims(wire', f) \in SUBSET more
    <3> SUFFICES ASSUME NEW i \in 1..Len(wire'), wire'[i].type = "im", wire'[i].sid[1] = f
                 PROVE  i \in more
      BY DEF Ims
    <3>1. i \in 1..Len(wire) \/ i = Len(wire) + 1
      BY <1>1, <1>3
    <3> QED  BY <1>1, <3>1 DEF Ims
  <2> HIDE DEF more
  <2>4. Cardinality(Ims(wire', f)) <= Cardinality(more)
    BY <2>2, <2>3, FS_Subset
  <2>5. Cardinality(Ims(wire', f)) \in Nat /\ Cardinality(more) \in Nat
    BY <1>1, <2>2, FiniteIms, FS_CardinalityType
  <2> QED  BY <2>1, <2>2, <2>4, <2>5
<1> QED  BY <1>2, <1>3

\* The step in which a message of friend c is said; no other step says one.
LEMMA OthersNoIms ==
    ASSUME Basic, up, NEW c \in Friends,
           MakesFriend(c) \/ (Environment(c) /\ ~Writes(c)) , NEW f \in Friends
    PROVE  Ims(wire', f) = Ims(wire, f)
<1>1. wire \in Seq(Packets) /\ Len(wire) \in Nat
  BY LenProperties DEF Basic, Typed
<1>2. ASSUME NEW p \in Packets, Tell(<< p >>), p.type # "im"
      PROVE  Ims(wire', f) = Ims(wire, f)
  <2>3. /\ Len(wire') = Len(wire) + 1 /\ Grows
        /\ wire'[Len(wire) + 1] = p
    BY <1>1, <1>2, SaidOne
  <2>4. \A i \in (Len(wire) + 1)..Len(wire') : wire'[i].type # "im" \/ wire'[i].sid[1] # f
    BY <1>1, <1>2, <2>3
  <2> QED  BY <2>3, <2>4, ImsGrow
<1>3. CASE MakesFriend(c)
  <2> DEFINE a == About({c})
  <2>1. /\ Len(wire) \in Nat /\ Len(a) \in Nat
        /\ Len(wire') = Len(wire) + 1 + Len(a)
        /\ wire'[Len(wire) + 1] = Listed({c})
        /\ \A i \in 1..Len(a) : wire'[Len(wire) + 1 + i] = a[i]
    BY <1>3, MadeFriend
  <2>2. \A i \in 1..Len(a) : a[i].type # "im"
    BY AboutSays
  <2>3. Listed({c}).type # "im"
    BY DEF Listed
  <2> HIDE DEF a
  <2>4. ASSUME NEW i \in (Len(wire) + 1)..Len(wire')
        PROVE  wire'[i].type # "im"
    <3>1. CASE i = Len(wire) + 1
      BY <2>1, <2>3, <3>1
    <3>2. CASE i # Len(wire) + 1
      <4> DEFINE j == i - (Len(wire) + 1)
      <4>1. j \in 1..Len(a) /\ Len(wire) + 1 + j = i
        BY <2>1, <3>2
      <4> HIDE DEF j
      <4> QED  BY <2>1, <2>2, <4>1
    <3> QED  BY <3>1, <3>2
  <2> QED  BY <1>3, <2>4, FriendGrows, ImsGrow
<1>4. CASE Befriend(c)
  BY <1>3, <1>4 DEF Befriend
<1>5. CASE UNCHANGED wire
  BY <1>5
<1>6. /\ session[c] \in 0..MaxEvents /\ sessions[c] \in 0..MaxEvents /\ events \in Nat
      /\ sessions[c] <= events
  BY DEF Basic, Typed, Counted
<1>7. CASE Invites(c)
  <2>1. Invitations({c}) \in Packets /\ Invitations({c}).type # "im"
    BY PacketsMade DEF Invitations
  <2> QED  BY <1>2, <1>7, <2>1 DEF Invites
<1>8. CASE ComesOnline(c)
  <2>1. sessions[c] + 1 \in 0..MaxEvents
    BY <1>6, <1>8 DEF ComesOnline, FriendActs
  <2>2. Session(c, sessions[c] + 1) \in Packets /\ Session(c, sessions[c] + 1).type # "im"
    BY <2>1, PacketsMade DEF Session
  <2> QED  BY <1>2, <1>5, <1>8, <2>2 DEF ComesOnline
<1>9. CASE GoesOffline(c)
  <2>2. Session(c, 0) \in Packets /\ Session(c, 0).type # "im"
    BY PacketsMade DEF Session
  <2> QED  BY <1>2, <1>5, <1>9, <2>2 DEF GoesOffline
<1>10. CASE ChangesStatus(c)
  <2>1. session[c] \in 1..MaxEvents /\ (c \notin away) \in BOOLEAN
    BY <1>6, <1>10 DEF ChangesStatus
  <2>2. StatusMsg(c, session[c], c \notin away) \in Packets
        /\ StatusMsg(c, session[c], c \notin away).type # "im"
    BY <2>1, PacketsMade DEF StatusMsg
  <2> QED  BY <1>2, <1>5, <1>10, <2>2 DEF ChangesStatus
<1>11. CASE ChangesGame(c)
  <2>1. session[c] \in 1..MaxEvents
    BY <1>6, <1>11 DEF ChangesGame
  <2>2. PICK g \in Playable :
           IF c \in Told THEN Tell(<< GameInfo(c, session[c], g) >>) ELSE UNCHANGED wire
    BY <1>11 DEF ChangesGame, Playable
  <2>3. GameInfo(c, session[c], g) \in Packets /\ GameInfo(c, session[c], g).type # "im"
    BY <2>1, PacketsMade DEF GameInfo
  <2> QED  BY <1>2, <1>5, <1>11, <2>2, <2>3 DEF ChangesGame
<1> QED  BY <1>3, <1>4, <1>7, <1>8, <1>9, <1>10, <1>11 DEF Environment

\* A mistake is never taken back.
LEMMA NoMistake ==
    ASSUME [Next]_vars, ~mistaken'
    PROVE  ~mistaken
BY DEF Next, Handle, HandleFriends, HandleClan, HandleInvitations, HandleSid, HandleStatus,
       HandleGame, HandleChat, LogsIn, Disconnects, Invite, InviteContact, DeleteContact, Answer,
       Environment, Befriend, Invites, ComesOnline, GoesOffline, ChangesStatus, ChangesGame,
       Writes, Elsewhere, vars

\* Written holds in every state: a message enters wire as it is written, and enters a chat
\* as it leaves wire.
LEMMA WrittenInductive ==
    /\ Init => Written
    /\ Basic /\ Written /\ [Next]_vars => Written'
<1>1. ASSUME Init
      PROVE  Written
  <2>1. \A f : Ims(wire, f) = {}
    <3>1. wire = <<>>
      BY <1>1 DEF Init
    <3>2. \A i : i \notin 1..Len(wire)
      BY <3>1
    <3> QED  BY <3>2 DEF Ims
  <2>2. Cardinality({}) = 0
    BY FS_EmptySet
  <2>3. \A f \in Friends : chat[f] = 0 /\ sent[f] = 0
    BY <1>1 DEF Init
  <2> QED  BY <2>1, <2>2, <2>3 DEF Written
<1> SUFFICES ASSUME Basic, Written, [Next]_vars, ~mistaken', NEW f \in Friends
             PROVE  chat'[f] + Cardinality(Ims(wire', f)) <= sent'[f]
  BY <1>1 DEF Written
<1>2. /\ wire \in Seq(Packets) /\ wire' \in Seq(Packets) /\ Len(wire) \in Nat /\ Len(wire') \in Nat
      /\ chat[f] \in Nat /\ sent[f] \in Nat /\ chat'[f] \in Nat /\ sent'[f] \in Nat
  <2>1. Basic'
    BY BasicInductive
  <2> QED  BY <2>1, LenProperties DEF Basic, Typed
<1>3. Cardinality(Ims(wire, f)) \in Nat /\ Cardinality(Ims(wire', f)) \in Nat
  BY <1>2, FiniteIms
<1>4. ~mistaken
  BY NoMistake
<1>5. chat[f] + Cardinality(Ims(wire, f)) <= sent[f]
  BY <1>4 DEF Written
<1>6. CASE Cardinality(Ims(wire', f)) <= Cardinality(Ims(wire, f)) /\ chat'[f] = chat[f]
           /\ sent' = sent
  BY <1>2, <1>3, <1>5, <1>6
<1>7. CASE Handle
  <2>1. PICK t : Receive(t) /\ (HandleChat => t = "im")
    BY <1>7 DEF Handle, HandleFriends, HandleClan, HandleInvitations, HandleSid, HandleStatus,
         HandleGame, HandleChat
  <2>2. /\ Cardinality(Ims(wire', f)) <= Cardinality(Ims(wire, f))
        /\ t = "im" /\ Head(wire).sid[1] = f =>
              Cardinality(Ims(wire', f)) + 1 <= Cardinality(Ims(wire, f))
    BY <1>2, <2>1, ImsAfterHead
  <2>3. sent' = sent
    BY <1>7 DEF Handle, HandleFriends, HandleClan, HandleInvitations, HandleSid, HandleStatus,
         HandleGame, HandleChat, Handled, server
  <2>4. CASE chat' = chat
    BY <1>6, <2>2, <2>3, <2>4
  <2>5. ASSUME HandleChat, NEW c \in FindBySid(Head(wire).sid), ReceivedMessage(c)
        PROVE  chat'[f] + Cardinality(Ims(wire', f)) <= sent'[f]
    <3>1. Head(wire).sid \in Present /\ t = "im"
      BY <1>2, <2>1, <2>5, Received, PacketFields DEF HandleChat
    <3>2. c \in Friends /\ contact[c].sid = Head(wire).sid
      BY <2>5 DEF FindBySid, Basic, Typed
    <3>3. Head(wire).sid # NoSid
      BY <3>1, PresentSids
    <3>4. Head(wire).sid[1] = c
      BY <1>4, <3>2, <3>3 DEF Basic, Sane
    <3>5. chat \in [Friends -> Nat]
      BY DEF Basic, Typed
    <3>6. chat'[f] = IF f = c THEN chat[f] + 1 ELSE chat[f]
      BY <2>5, <3>2, <3>5 DEF ReceivedMessage
    <3> QED  BY <1>2, <1>3, <1>5, <2>2, <2>3, <3>1, <3>4, <3>6, SMTT(30)
  <2>6. chat' = chat \/ HandleChat
    BY <1>7 DEF Handle, HandleFriends, HandleClan, HandleInvitations, HandleSid, HandleStatus,
         HandleGame
  <2> QED  BY <2>4, <2>5, <2>6 DEF HandleChat
<1>9. CASE LogsIn
  <2>1. chat' = chat /\ sent' = sent
    BY <1>9 DEF LogsIn, client, server
  <2>2. /\ Len(About(Told)) \in Nat
        /\ Len(wire') = Len(About(Told)) + 3
        /\ wire'[1] = Listed(list) /\ wire'[2] = ClanListed
        /\ \A i \in 1..Len(About(Told)) : wire'[i + 2] = About(Told)[i]
        /\ wire'[Len(About(Told)) + 3] = Invitations(pending)
    BY <1>9, LoggedIn
  <2>3. \A i \in 1..Len(About(Told)) : About(Told)[i].type # "im"
    <3>1. Told \in SUBSET Friends
      BY DEF Told, Basic, Typed
    <3> QED  BY <3>1, AboutSays
  <2>4. Listed(list).type # "im" /\ ClanListed.type # "im" /\ Invitations(pending).type # "im"
    BY DEF Listed, ClanListed, Invitations
  <2>5. \A i \in 1..Len(wire') : wire'[i].type # "im"
    <3> TAKE i \in 1..Len(wire')
    <3>1. CASE i = 1 \/ i = 2 \/ i = Len(About(Told)) + 3
      BY <2>2, <2>4, <3>1
    <3>2. CASE i # 1 /\ i # 2 /\ i # Len(About(Told)) + 3
      <4> DEFINE j == i - 2
      <4>1. j \in 1..Len(About(Told)) /\ i = j + 2
        BY <2>2, <3>2
      <4> HIDE DEF j
      <4> QED  BY <2>2, <2>3, <4>1
    <3> QED  BY <3>1, <3>2
  <2>6. Ims(wire', f) \subseteq Ims(wire, f)
    BY <2>5 DEF Ims
  <2> QED  BY <1>2, <1>6, <2>1, <2>6, FewerIms
<1>10. CASE Disconnects
  <2>1. chat' = chat /\ sent' = sent
    BY <1>10 DEF Disconnects, client, server
  <2>2. PICK n \in 0..Len(wire) : wire' = SubSeq(wire, 1, n)
    BY <1>10 DEF Disconnects
  <2>3. \A i \in 1..n : wire[i] \in Packets
    BY <1>2, ElementOfSeq
  <2>4. n \in Int /\ n <= Len(wire) /\ Len(wire') = n /\ \A i \in 1..n : wire'[i] = wire[i]
    <3>1. n \in Int /\ n \in Nat /\ n <= Len(wire)
      BY <1>2
    <3>2. /\ Len(SubSeq(wire, 1, n)) = IF 1 <= n THEN n - 1 + 1 ELSE 0
          /\ \A i \in 1 .. n - 1 + 1 : SubSeq(wire, 1, n)[i] = wire[1 + i - 1]
      BY <2>3, <3>1, SubSeqProperties
    <3> QED  BY <2>2, <3>1, <3>2
  <2>5. Ims(wire', f) \subseteq Ims(wire, f)
    BY <1>2, <2>4 DEF Ims
  <2> QED  BY <1>2, <1>6, <2>1, <2>5, FewerIms
<1>11. ASSUME NEW g \in Friends, MakesFriend(g), chat' = chat, sent' = sent
       PROVE  chat'[f] + Cardinality(Ims(wire', f)) <= sent'[f]
  <2>1. Ims(wire', f) = Ims(wire, f)
    <3>1. CASE up
      BY <1>11, <3>1, OthersNoIms
    <3>2. CASE ~up
      BY <1>11, <3>2 DEF MakesFriend, Tell
    <3> QED  BY <3>1, <3>2
  <2> QED  BY <1>3, <1>6, <1>11, <2>1
<1>12. ASSUME NEW g \in Friends, Invite(g) \/ DeleteContact(g) \/ Answer(g)
       PROVE  chat'[f] + Cardinality(Ims(wire', f)) <= sent'[f]
  <2>1. chat' = chat /\ sent' = sent /\ (wire' = wire \/ MakesFriend(g))
    BY <1>12 DEF Invite, DeleteContact, Answer, SendFriendInvitationResponse, ServerAccepts, server
  <2> QED  BY <1>3, <1>6, <1>11, <1>12, <2>1
<1>13. ASSUME NEW g \in Friends, Environment(g)
       PROVE  chat'[f] + Cardinality(Ims(wire', f)) <= sent'[f]
  <2>1. chat' = chat
    BY <1>13 DEF Environment, Befriend, Invites, ComesOnline, GoesOffline, ChangesStatus,
           ChangesGame, Writes, Elsewhere, client
  <2>2. CASE Writes(g)
    <3>1. session[g] \in 1..MaxEvents /\ up
      BY <2>2 DEF Writes, Basic, Typed
    <3>2. Chat(g, session[g]) \in Packets
      BY <3>1, PacketsMade
    <3>4. Tell(<< Chat(g, session[g]) >>) /\ sent' = [sent EXCEPT ![g] = @ + 1]
      BY <2>2 DEF Writes
    <3>5. Len(wire') = Len(wire) + 1 /\ wire'[Len(wire) + 1] = Chat(g, session[g]) /\ Grows
      BY <1>2, <3>1, <3>2, <3>4, SaidOne
    <3>6. Chat(g, session[g]).sid[1] = g
      BY <3>1, ChatTells
    <3>7. CASE f = g
      <4>1. sent'[f] = sent[f] + 1
        BY <3>4, <3>7 DEF Basic, Typed
      <4>2. Cardinality(Ims(wire', f)) <= Cardinality(Ims(wire, f)) + 1
        BY <3>5, ImsGrow
      <4> QED  BY <1>2, <1>3, <1>5, <2>1, <4>1, <4>2
    <3>8. CASE f # g
      <4>1. sent'[f] = sent[f]
        BY <3>4, <3>8 DEF Basic, Typed
      <4>2. \A i \in (Len(wire) + 1)..Len(wire') : wire'[i].type # "im" \/ wire'[i].sid[1] # f
        BY <1>2, <3>5, <3>6, <3>8
      <4>3. Ims(wire', f) = Ims(wire, f)
        BY <3>5, <4>2, ImsGrow
      <4> QED  BY <1>5, <2>1, <4>1, <4>3
    <3> QED  BY <3>7, <3>8
  <2>3. CASE ~Writes(g)
    <3>1. sent' = sent
      BY <1>13, <2>3 DEF Environment, Befriend, Invites, ComesOnline, GoesOffline, ChangesStatus,
           ChangesGame
    <3>2. CASE up
      BY <1>3, <1>6, <1>13, <2>1, <2>3, <3>1, <3>2, OthersNoIms
    <3>3. CASE ~up
      <4>1. wire' = wire
        BY <1>13, <2>3, <3>3 DEF Environment, Befriend, MakesFriend, Invites, ComesOnline,
           GoesOffline, ChangesStatus, ChangesGame, Tell
      <4> QED  BY <1>3, <1>6, <2>1, <3>1, <4>1
    <3> QED  BY <3>2, <3>3
  <2> QED  BY <2>2, <2>3
<1>14. CASE UNCHANGED vars
  <2>1. chat' = chat /\ sent' = sent /\ wire' = wire
    BY <1>14 DEF vars, client, server
  <2> QED  BY <1>3, <1>6, <2>1
<1> QED  BY <1>7, <1>9, <1>10, <1>12, <1>13, <1>14 DEF Next, InviteContact

\* Types; no chat shows more messages than its friend wrote (receivedMessage).
THEOREM TypeCorrect == Spec => []TypeOK
<1>1. Basic /\ Written => TypeOK
  <2> SUFFICES ASSUME Basic, Written
               PROVE  TypeOK
    OBVIOUS
  <2>1. ASSUME NEW f \in Friends
        PROVE  /\ session[f] \in {0, sessions[f]} /\ sessions[f] \in 0..MaxEvents
               /\ sent[f] \in 0..MaxEvents
               /\ ~mistaken => chat[f] \in 0..sent[f]
               /\ contact[f].id \in Ids /\ contact[f].status \in {"Offline", "Online", "Away"}
               /\ contact[f].sid \in {NoSid} \cup (Friends \X (1..MaxEvents))
               /\ contact[f].game \in Named \cup {NoGame} /\ plays[f] \in Games \cup {NoGame}
    <3>1. session[f] \in {0, sessions[f]} /\ sessions[f] \in 0..MaxEvents /\ sent[f] \in 0..MaxEvents
          /\ chat[f] \in Nat /\ contact[f] \in Contacts /\ Len(wire) \in Nat
          /\ plays[f] \in Games \cup {NoGame}
      BY LenProperties DEF Basic, Typed, Counted, Playable
    <3>2. Cardinality(Ims(wire, f)) \in Nat
      BY <3>1, FiniteIms
    <3>3. ~mistaken => chat[f] \in 0..sent[f]
      BY <3>1, <3>2 DEF Written
    <3> QED  BY <3>1, <3>3 DEF Contacts, Sids, Statuses
  <2> QED  BY <2>1 DEF TypeOK, Basic, Typed
<1> QED  BY <1>1, BasicInductive, WrittenInductive, PTL DEF Spec

--------------------------------------------------------------------------------
(* The last word, after a packet is handled, and after more was said. *)

Shrinks == /\ Len(wire) \in Nat \ {0} /\ Len(wire') = Len(wire) - 1
           /\ \A i \in 1..Len(wire') : wire'[i] = wire[i + 1]

\* When the first packet is handled, every other moves one place to the front.
LEMMA Shifted ==
    ASSUME Shrinks
    PROVE  /\ Len(wire) \in Nat /\ Len(wire') \in Nat /\ Len(wire) = Len(wire') + 1
           /\ \A i \in 2..Len(wire) : i - 1 \in 1..Len(wire') /\ wire'[i - 1] = wire[i]
           /\ \A i \in 1..Len(wire') : i + 1 \in 2..Len(wire) /\ wire'[i] = wire[i + 1]
<1>1. Len(wire) \in Nat /\ Len(wire') \in Nat /\ Len(wire) = Len(wire') + 1
  BY DEF Shrinks
<1>2. \A i \in 1..Len(wire') : i + 1 \in 2..Len(wire) /\ wire'[i] = wire[i + 1]
  BY <1>1 DEF Shrinks
<1>3. ASSUME NEW i \in 2..Len(wire)
      PROVE  i - 1 \in 1..Len(wire') /\ wire'[i - 1] = wire[i]
  <2>1. i - 1 \in 1..Len(wire') /\ (i - 1) + 1 = i
    BY <1>1
  <2> QED  BY <1>2, <2>1
<1> QED  BY <1>1, <1>2, <1>3

\* Silence is kept by the move,
LEMMA SilentShifted ==
    ASSUME Shrinks, NEW f, NEW x, NEW a \in Nat, NEW b \in Int,
           Silent(wire, f, x, a + 1, b + 1), b <= Len(wire'), a >= 1
    PROVE  Silent(wire', f, x, a, b)
<1>1. \A i \in a..b : i \in 1..Len(wire') /\ i + 1 \in (a + 1)..(b + 1)
  BY Shifted
<1> QED  BY <1>1, Shifted DEF Silent

\* and the last word too, unless the packet that was handled was it,
LEMMA LastWordShifted ==
    ASSUME Shrinks, NEW f, NEW x, NEW v, NEW k \in Nat,
           LastWord(wire, f, x, k, v)
    PROVE  /\ k >= 1 => LastWord(wire', f, x, k - 1, v)
           /\ k = 0 => \/ LastWord(wire', f, x, 0, v)
                       \/ /\ Tells(wire[1], f, x) /\ Said(wire[1], x) = v
                          /\ Silent(wire', f, x, 1, Len(wire'))
<1>1. PICK i \in (k + 1)..Len(wire) :
          Tells(wire[i], f, x) /\ Said(wire[i], x) = v /\ Silent(wire, f, x, i + 1, Len(wire))
  BY DEF LastWord
<1>2. Len(wire) \in Nat /\ Len(wire') \in Nat /\ Len(wire) = Len(wire') + 1 /\ i \in Nat
  BY Shifted
<1>3. Silent(wire', f, x, i, Len(wire'))
  BY <1>1, <1>2, SilentShifted
<1>4. CASE i >= 2
  <2>1. i \in 2..Len(wire) /\ (k >= 1 => i - 1 \in ((k - 1) + 1)..Len(wire')) /\ i - 1 \in (0 + 1)..Len(wire')
        /\ (i - 1) + 1 = i
    BY <1>2, <1>4
  <2>2. wire'[i - 1] = wire[i]
    BY <2>1, Shifted
  <2> QED  BY <1>1, <1>3, <2>1, <2>2 DEF LastWord
<1>5. CASE i = 1
  <2>1. ~(k >= 1)
    BY <1>2, <1>5
  <2> QED  BY <1>1, <1>3, <1>5, <2>1
<1> QED  BY <1>2, <1>4, <1>5

\* and the introduction of a session too, unless that packet was it.
LEMMA IntroducedShifted ==
    ASSUME Shrinks, NEW f, NEW k \in Nat, NEW j \in 2..Len(wire), Introduced(wire, f, k, j)
    PROVE  /\ k >= 1 => Introduced(wire', f, k - 1, j - 1)
           /\ k = 0 => \/ Introduced(wire', f, 0, j - 1)
                       \/ /\ Tells(wire[1], f, "sid") /\ wire[1].sid = wire[j].sid
                          /\ Silent(wire', f, "sid", 1, (j - 1) - 1)
<1>1. PICK i \in (k + 1)..(j - 1) :
          Tells(wire[i], f, "sid") /\ wire[i].sid = wire[j].sid
          /\ Silent(wire, f, "sid", i + 1, j - 1)
  BY DEF Introduced
<1>2. Len(wire) \in Nat /\ Len(wire') \in Nat /\ Len(wire) = Len(wire') + 1 /\ i \in Nat
      /\ wire'[j - 1] = wire[j]
  BY Shifted
<1>3. Silent(wire', f, "sid", i, (j - 1) - 1)
  <2>1. ((j - 1) - 1) \in Int /\ ((j - 1) - 1) + 1 = j - 1 /\ (j - 1) - 1 <= Len(wire') /\ i >= 1
    BY <1>2
  <2> QED  BY <1>1, <1>2, <2>1, SilentShifted
<1>4. CASE i >= 2
  <2>1. i \in 2..Len(wire) /\ (k >= 1 => i - 1 \in ((k - 1) + 1)..((j - 1) - 1))
        /\ i - 1 \in (0 + 1)..((j - 1) - 1) /\ (i - 1) + 1 = i
    BY <1>2, <1>4
  <2>2. wire'[i - 1] = wire[i]
    BY <2>1, Shifted
  <2> QED  BY <1>1, <1>2, <1>3, <2>1, <2>2 DEF Introduced
<1>5. CASE i = 1
  <2>1. ~(k >= 1)
    BY <1>2, <1>5
  <2> QED  BY <1>1, <1>3, <1>5, <2>1
<1> QED  BY <1>2, <1>4, <1>5

\* The last word behind a place is the last word behind every place before it.
LEMMA LastWordEarlier ==
    ASSUME NEW w, NEW f, NEW x, NEW v, NEW k \in Nat, NEW n \in Nat, k <= n, Len(w) \in Nat,
           LastWord(w, f, x, n, v)
    PROVE  LastWord(w, f, x, k, v)
<1>1. \A i \in (n + 1)..Len(w) : i \in (k + 1)..Len(w)
  OBVIOUS
<1> QED  BY <1>1 DEF LastWord

\* The same of an introduction.
LEMMA IntroducedEarlier ==
    ASSUME NEW w, NEW f, NEW k \in Nat, NEW n \in Nat, k <= n, NEW j \in Nat,
           Introduced(w, f, n, j)
    PROVE  Introduced(w, f, k, j)
<1>1. \A i \in (n + 1)..(j - 1) : i \in (k + 1)..(j - 1)
  OBVIOUS
<1> QED  BY <1>1 DEF Introduced

\* Nothing new is said of facet x of f.
Adds(f, x) == ~Silent(wire', f, x, Len(wire) + 1, Len(wire'))

\* What is appended leaves the silence before it alone,
LEMMA SilentGrows ==
    ASSUME Grows, NEW f, NEW x, NEW a \in Nat, a >= 1, NEW b \in Int, b <= Len(wire)
    PROVE  Silent(wire', f, x, a, b) <=> Silent(wire, f, x, a, b)
<1>1. \A i \in a..b : i \in 1..Len(wire) /\ wire'[i] = wire[i]
  BY DEF Grows
<1> QED  BY <1>1 DEF Silent

\* prolongs it if it does not tell,
LEMMA SilenceGrows ==
    ASSUME Grows, NEW f, NEW x, ~Adds(f, x), NEW a \in Nat, a >= 1,
           Silent(wire, f, x, a, Len(wire))
    PROVE  Silent(wire', f, x, a, Len(wire'))
<1>1. /\ Len(wire) \in Nat /\ Len(wire') \in Nat
      /\ \A i \in 1..Len(wire) : wire'[i] = wire[i]
  BY DEF Grows
<1>2. \A i \in a..Len(wire') : (i \in a..Len(wire) /\ i \in 1..Len(wire))
                                \/ i \in (Len(wire) + 1)..Len(wire')
  BY <1>1
<1> QED  BY <1>1, <1>2 DEF Silent, Adds

\* leaves the last word if it does not tell,
LEMMA LastWordGrows ==
    ASSUME Grows, NEW f, NEW x, ~Adds(f, x), NEW v, NEW k \in Nat, LastWord(wire, f, x, k, v)
    PROVE  LastWord(wire', f, x, k, v)
<1>1. PICK i \in (k + 1)..Len(wire) :
          Tells(wire[i], f, x) /\ Said(wire[i], x) = v /\ Silent(wire, f, x, i + 1, Len(wire))
  BY DEF LastWord
<1>2. Len(wire) \in Nat /\ Len(wire') \in Nat /\ Len(wire) <= Len(wire') /\ wire'[i] = wire[i]
      /\ i \in (k + 1)..Len(wire') /\ i + 1 \in Nat /\ i + 1 >= 1
  BY DEF Grows
<1>3. Silent(wire', f, x, i + 1, Len(wire'))
  BY <1>1, <1>2, SilenceGrows
<1> QED  BY <1>1, <1>2, <1>3 DEF LastWord

\* and never undoes an introduction.
LEMMA IntroducedGrows ==
    ASSUME Grows, NEW f, NEW k \in Nat, NEW j \in 1..Len(wire), Introduced(wire, f, k, j)
    PROVE  Introduced(wire', f, k, j)
<1>1. PICK i \in (k + 1)..(j - 1) :
          Tells(wire[i], f, "sid") /\ wire[i].sid = wire[j].sid
          /\ Silent(wire, f, "sid", i + 1, j - 1)
  BY DEF Introduced
<1>2. Len(wire) \in Nat /\ wire'[i] = wire[i] /\ wire'[j] = wire[j]
      /\ i + 1 \in Nat /\ i + 1 >= 1 /\ j - 1 \in Int /\ j - 1 <= Len(wire)
  BY DEF Grows
<1>3. Silent(wire', f, "sid", i + 1, j - 1)
  BY <1>1, <1>2, SilentGrows
<1> QED  BY <1>1, <1>2, <1>3 DEF Introduced

\* A new packet that uses the session of the last word.
LEMMA NewlyIntroduced ==
    ASSUME Grows, NEW f, NEW k \in Nat, Len(wire') = Len(wire) + 1,
           LastWord(wire, f, "sid", k, wire'[Len(wire) + 1].sid)
    PROVE  Introduced(wire', f, k, Len(wire) + 1)
<1>1. PICK i \in (k + 1)..Len(wire) :
          Tells(wire[i], f, "sid") /\ Said(wire[i], "sid") = wire'[Len(wire) + 1].sid
          /\ Silent(wire, f, "sid", i + 1, Len(wire))
  BY DEF LastWord
<1>2. Len(wire) \in Nat /\ wire'[i] = wire[i]
      /\ i + 1 \in Nat /\ i + 1 >= 1 /\ (Len(wire) + 1) - 1 = Len(wire)
  BY DEF Grows
<1>3. Silent(wire', f, "sid", i + 1, Len(wire))
  BY <1>1, <1>2, SilentGrows
<1>4. Said(wire[i], "sid") = wire[i].sid
  BY DEF Said
<1> QED  BY <1>1, <1>2, <1>3, <1>4 DEF Introduced

\* A new packet that is the last word.
LEMMA NewWord ==
    ASSUME Grows, NEW f, NEW x, Len(wire') = Len(wire) + 1, NEW k \in Nat, k <= Len(wire),
           Tells(wire'[Len(wire) + 1], f, x)
    PROVE  LastWord(wire', f, x, k, Said(wire'[Len(wire) + 1], x))
<1>1. Len(wire) \in Nat /\ Len(wire) + 1 \in (k + 1)..Len(wire')
  BY DEF Grows
<1>2. Silent(wire', f, x, (Len(wire) + 1) + 1, Len(wire'))
  BY <1>1 DEF Silent
<1> QED  BY <1>1, <1>2 DEF LastWord

--------------------------------------------------------------------------------
(* What the server says of friends, told by what it is about. *)

\* In which of the three parts each facet of a friend is told, and by which packet.
LEMMA AboutTells ==
    ASSUME Basic, NEW fs \in SUBSET Friends, NEW m \in Nat, NEW n \in Nat, m <= n,
           NEW a, Len(a) \in Nat, n <= Len(a), Described(a, fs, m, n), NEW f \in Friends
    PROVE  /\ \A i \in 1..m : Tells(a[i], f, "sid") \/ Tells(a[i], f, "status") =>
                 f \in Online(fs) /\ a[i] = Session(f, session[f])
           /\ \A i \in (m + 1)..n : Tells(a[i], f, "status") =>
                 f \in away \cap fs /\ a[i] = StatusMsg(f, session[f], TRUE)
           /\ \A i \in (n + 1)..Len(a) : Tells(a[i], f, "game") =>
                 f \in playing \cap fs /\ a[i] = GameInfo(f, session[f], plays[f])
           /\ \A i \in 1..Len(a) : Tells(a[i], f, "sid") => i \in 1..m
           /\ \A i \in 1..Len(a) : Tells(a[i], f, "status") => i \in 1..n
           /\ \A i \in 1..Len(a) : Tells(a[i], f, "game") => i \in (n + 1)..Len(a)
<1>1. /\ \A g \in Online(fs) : g \in Friends /\ session[g] \in 0..MaxEvents
      /\ \A g \in away \cup playing : g \in Friends /\ session[g] \in 1..MaxEvents
      /\ "sid" \in Facets /\ "status" \in Facets /\ "game" \in Facets
  BY DEF Basic, Typed, Online, Facets
<1>2. ASSUME NEW i \in 1..m
      PROVE  /\ ~Tells(a[i], f, "game")
             /\ Tells(a[i], f, "sid") \/ Tells(a[i], f, "status") =>
                   f \in Online(fs) /\ a[i] = Session(f, session[f])
  <2>1. PICK g \in Online(fs) : a[i] = Session(g, session[g])
    BY DEF Described
  <2>2. \A x \in Facets : Tells(a[i], f, x) <=> f = g /\ x \in {"sid", "status"}
    BY <1>1, <2>1, SessionTells
  <2> QED  BY <1>1, <2>1, <2>2
<1>3. ASSUME NEW i \in (m + 1)..n
      PROVE  /\ ~Tells(a[i], f, "game") /\ ~Tells(a[i], f, "sid")
             /\ Tells(a[i], f, "status") =>
                   f \in away \cap fs /\ a[i] = StatusMsg(f, session[f], TRUE)
  <2>1. PICK g \in away \cap fs : a[i] = StatusMsg(g, session[g], TRUE)
    BY DEF Described
  <2>2. a[i].type = "status" /\ a[i].sid = Sid(g, session[g])
    BY <2>1 DEF StatusMsg
  <2>3. \A x \in Facets : Tells(a[i], f, x) <=> f = g /\ x = "status"
    BY <1>1, <2>2, StatusTells
  <2> QED  BY <1>1, <2>1, <2>3
<1>4. ASSUME NEW i \in (n + 1)..Len(a)
      PROVE  /\ ~Tells(a[i], f, "status") /\ ~Tells(a[i], f, "sid")
             /\ Tells(a[i], f, "game") =>
                   f \in playing \cap fs /\ a[i] = GameInfo(f, session[f], plays[f])
  <2>1. PICK g \in playing \cap fs : a[i] = GameInfo(g, session[g], plays[g])
    BY DEF Described
  <2>2. a[i].type = "game" /\ a[i].sid = Sid(g, session[g])
    BY <2>1 DEF GameInfo
  <2>3. \A x \in Facets : Tells(a[i], f, x) <=> f = g /\ x = "game"
    BY <1>1, <2>2, GameTells
  <2> QED  BY <1>1, <2>1, <2>3
<1>5. \A i \in 1..Len(a) : i \in 1..m \/ i \in (m + 1)..n \/ i \in (n + 1)..Len(a)
  OBVIOUS
<1>6. \A i \in (m + 1)..n : i \in 1..n
  OBVIOUS
<1>7. \A i \in 1..m : i \in 1..n
  OBVIOUS
<1> QED  BY <1>2, <1>3, <1>4, <1>5, <1>6, <1>7

\* The last word on each friend in a description is the truth; what is not said is
\* not there to be told.
LEMMA AboutLastWord ==
    ASSUME Basic, NEW fs \in SUBSET Friends, NEW f \in fs, NEW x \in Facets
    PROVE  \/ \E i \in 1..Len(About(fs)) :
                /\ Tells(About(fs)[i], f, x) /\ Said(About(fs)[i], x) = Truth(f)[x]
                /\ \A j \in (i + 1)..Len(About(fs)) : ~Tells(About(fs)[j], f, x)
           \/ /\ \A i \in 1..Len(About(fs)) : ~Tells(About(fs)[i], f, x)
              /\ Truth(f)[x] = Nothing[x]
              /\ x \in {"sid", "status"} => session[f] = 0
              /\ x = "game" => f \notin playing
<1> DEFINE a == About(fs)
           Goal == \/ \E i \in 1..Len(a) :
                        /\ Tells(a[i], f, x) /\ Said(a[i], x) = Truth(f)[x]
                        /\ \A j \in (i + 1)..Len(a) : ~Tells(a[j], f, x)
                   \/ /\ \A i \in 1..Len(a) : ~Tells(a[i], f, x)
                      /\ Truth(f)[x] = Nothing[x]
                      /\ x \in {"sid", "status"} => session[f] = 0
                      /\ x = "game" => f \notin playing
<1> SUFFICES Goal
  OBVIOUS
<1>1. PICK m \in Nat, n \in Nat : m <= n /\ n <= Len(a) /\ Described(a, fs, m, n)
  BY AboutParts
<1>2. Len(a) \in Nat /\ f \in Friends
  BY AboutParts
<1> HIDE DEF a
<1>3. /\ \A i \in 1..m : Tells(a[i], f, "sid") \/ Tells(a[i], f, "status") =>
            f \in Online(fs) /\ a[i] = Session(f, session[f])
      /\ \A i \in (m + 1)..n : Tells(a[i], f, "status") =>
            f \in away \cap fs /\ a[i] = StatusMsg(f, session[f], TRUE)
      /\ \A i \in (n + 1)..Len(a) : Tells(a[i], f, "game") =>
            f \in playing \cap fs /\ a[i] = GameInfo(f, session[f], plays[f])
      /\ \A i \in 1..Len(a) : Tells(a[i], f, "sid") => i \in 1..m
      /\ \A i \in 1..Len(a) : Tells(a[i], f, "status") => i \in 1..n
      /\ \A i \in 1..Len(a) : Tells(a[i], f, "game") => i \in (n + 1)..Len(a)
  BY <1>1, <1>2, AboutTells
<1>4. /\ f \in Online(fs) <=> session[f] # 0
      /\ session[f] \in 0..MaxEvents
      /\ f \in away \cup playing => session[f] # 0
      /\ "sid" \in Facets /\ "status" \in Facets /\ "game" \in Facets
  BY DEF Basic, Typed, Online, Facets
<1>5. CASE x = "sid"
  <2>1. Truth(f)[x] = Sid(f, session[f]) /\ Nothing[x] = NoSid
    BY <1>5 DEF Truth, Nothing
  <2>2. CASE session[f] = 0
    <3>1. Truth(f)[x] = Nothing[x]
      BY <2>1, <2>2 DEF Sid
    <3>2. \A i \in 1..Len(a) : ~Tells(a[i], f, x)
      BY <1>3, <1>4, <1>5, <2>2
    <3> QED  BY <1>5, <2>2, <3>1, <3>2
  <2>3. CASE session[f] # 0
    <3>1. PICK i \in 1..m : a[i] = Session(f, session[f])
      BY <1>1, <1>4, <2>3 DEF Described
    <3>2. Tells(a[i], f, x) /\ Said(a[i], x) = Truth(f)[x]
      BY <1>2, <1>4, <1>5, <2>1, <3>1, SessionTells
    <3>3. ASSUME NEW j \in (i + 1)..Len(a), Tells(a[j], f, x)
          PROVE  FALSE
      <4>1. j \in 1..Len(a) /\ j # i
        BY <3>3
      <4>2. j \in 1..m /\ a[j] = a[i]
        BY <1>3, <1>5, <3>1, <3>3, <4>1
      <4> QED  BY <1>1, <3>1, <4>1, <4>2 DEF Described
    <3>4. i \in 1..Len(a)
      BY <1>1, <1>2
    <3> QED  BY <3>2, <3>3, <3>4
  <2> QED  BY <2>2, <2>3
<1>6. CASE x = "status"
  <2>1. /\ Truth(f)[x] = IF session[f] = 0 THEN "Offline" ELSE IF f \in away THEN "Away"
                         ELSE "Online"
        /\ Nothing[x] = "Offline"
    BY <1>6 DEF Truth, Nothing
  <2>2. CASE session[f] = 0
    <3>1. Truth(f)[x] = Nothing[x]
      BY <2>1, <2>2
    <3>2. ASSUME NEW i \in 1..Len(a)
          PROVE  ~Tells(a[i], f, x)
      <4>1. i \in 1..m \/ i \in (m + 1)..n \/ i \notin 1..n
        BY <1>1
      <4> QED  BY <1>3, <1>4, <1>6, <2>2, <4>1
    <3> QED  BY <1>6, <2>2, <3>1, <3>2
  <2>3. CASE f \in away
    <3>1. PICK i \in (m + 1)..n : a[i] = StatusMsg(f, session[f], TRUE)
      BY <1>1, <2>3 DEF Described
    <3>2. a[i].type = "status" /\ a[i].sid = Sid(f, session[f]) /\ a[i].afk
      BY <3>1 DEF StatusMsg
    <3>3. Tells(a[i], f, x) /\ Said(a[i], x) = "Away"
      BY <1>2, <1>4, <1>6, <2>3, <3>2, StatusTells
    <3>4. ASSUME NEW j \in (i + 1)..Len(a), Tells(a[j], f, x)
          PROVE  FALSE
      <4>1. j \in 1..Len(a) /\ j # i /\ j \notin 1..m
        BY <3>4
      <4>2. j \in (m + 1)..n
        BY <1>1, <1>3, <1>6, <3>4, <4>1
      <4>3. a[j] = a[i]
        BY <1>3, <1>6, <3>1, <3>4, <4>2
      <4> QED  BY <1>1, <3>1, <4>1, <4>2, <4>3 DEF Described
    <3>5. i \in 1..Len(a)
      BY <1>1, <1>2
    <3> QED  BY <1>4, <2>1, <2>3, <3>3, <3>4, <3>5
  <2>4. CASE session[f] # 0 /\ f \notin away
    <3>1. PICK i \in 1..m : a[i] = Session(f, session[f])
      BY <1>1, <1>4, <2>4 DEF Described
    <3>2. Tells(a[i], f, x) /\ Said(a[i], x) = "Online"
      BY <1>2, <1>4, <1>6, <2>4, <3>1, SessionTells
    <3>3. ASSUME NEW j \in (i + 1)..Len(a), Tells(a[j], f, x)
          PROVE  FALSE
      <4>1. j \in 1..Len(a) /\ j # i
        BY <3>3
      <4>2. j \in 1..m \/ j \in (m + 1)..n
        BY <1>1, <1>3, <1>6, <3>3, <4>1
      <4>3. j \in 1..m /\ a[j] = a[i]
        BY <1>3, <1>6, <2>4, <3>1, <3>3, <4>2
      <4> QED  BY <1>1, <3>1, <4>1, <4>3 DEF Described
    <3>4. i \in 1..Len(a)
      BY <1>1, <1>2
    <3> QED  BY <2>1, <2>4, <3>2, <3>3, <3>4
  <2> QED  BY <2>2, <2>3, <2>4
<1>7. CASE x = "game"
  <2>1. Truth(f)[x] = GameName(plays[f]) /\ Nothing[x] = NoGame
    BY <1>7 DEF Truth, Nothing
  <2>2. CASE f \notin playing
    <3>1. Truth(f)[x] = Nothing[x]
      <4>1. plays[f] = NoGame
        BY <1>2, <2>2, Players DEF Basic
      <4> QED  BY <2>1, <4>1, GameNames
    <3>2. \A i \in 1..Len(a) : ~Tells(a[i], f, x)
      BY <1>3, <1>7, <2>2
    <3> QED  BY <1>7, <2>2, <3>1, <3>2
  <2>3. CASE f \in playing
    <3>1. PICK i \in (n + 1)..Len(a) : a[i] = GameInfo(f, session[f], plays[f])
      BY <1>1, <2>3 DEF Described
    <3>2. a[i].type = "game" /\ a[i].sid = Sid(f, session[f]) /\ a[i].game = plays[f]
      BY <3>1 DEF GameInfo
    <3>3. Tells(a[i], f, x) /\ Said(a[i], x) = Truth(f)[x]
      <4>1. session[f] \in 1..MaxEvents
        BY <1>4, <2>3
      <4>2. Tells(a[i], f, "game") /\ Said(a[i], "game") = GameName(a[i].game)
        BY <1>2, <1>4, <3>2, <4>1, GameTells
      <4> QED  BY <1>7, <2>1, <2>3, <3>2, <4>2
    <3>4. ASSUME NEW j \in (i + 1)..Len(a), Tells(a[j], f, x)
          PROVE  FALSE
      <4>1. j \in 1..Len(a) /\ j # i /\ j \in (n + 1)..Len(a)
        BY <3>4
      <4>2. a[j] = a[i]
        BY <1>3, <1>7, <3>1, <3>4, <4>1
      <4> QED  BY <1>1, <3>1, <4>1, <4>2 DEF Described
    <3>5. i \in 1..Len(a)
      BY <1>1, <1>2
    <3> QED  BY <3>3, <3>4, <3>5
  <2> QED  BY <2>2, <2>3
<1> QED  BY <1>5, <1>6, <1>7 DEF Facets

\* Whatever uses a session comes behind the packet which brings it.
LEMMA AboutIntroduces ==
    ASSUME Basic, NEW fs \in SUBSET Friends, NEW f \in Friends, NEW j \in 1..Len(About(fs)),
           Uses(About(fs)[j], f)
    PROVE  \E i \in 1..(j - 1) :
              /\ Tells(About(fs)[i], f, "sid") /\ About(fs)[i].sid = About(fs)[j].sid
              /\ \A k \in (i + 1)..(j - 1) : ~Tells(About(fs)[k], f, "sid")
<1> DEFINE a == About(fs)
<1>1. PICK m \in Nat, n \in Nat : m <= n /\ n <= Len(a) /\ Described(a, fs, m, n)
  BY AboutParts
<1>2. Len(a) \in Nat
  BY AboutParts
<1>3. f \in fs /\ session[f] # 0 /\ a[j].sid = Sid(f, session[f])
  BY AboutSays
<1>4. Uses(a[j], f) /\ j \in 1..Len(a)
  OBVIOUS
<1> SUFFICES \E i \in 1..(j - 1) :
                /\ Tells(a[i], f, "sid") /\ a[i].sid = a[j].sid
                /\ \A k \in (i + 1)..(j - 1) : ~Tells(a[k], f, "sid")
  OBVIOUS
<1> HIDE DEF a
<1>5. f \in Online(fs) /\ session[f] \in 0..MaxEvents
      /\ \A g \in Online(fs) : g \in Friends /\ session[g] \in 0..MaxEvents
  BY <1>3 DEF Basic, Typed, Online
<1>6. j \notin 1..m
  <2> SUFFICES ASSUME j \in 1..m
               PROVE  FALSE
    OBVIOUS
  <2>1. PICK g \in Online(fs) : a[j] = Session(g, session[g])
    BY <1>1 DEF Described
  <2>2. a[j].type = "sid"
    BY <2>1 DEF Session
  <2> QED  BY <1>4, <2>2 DEF Uses
<1>11. /\ \A i \in 1..m : Tells(a[i], f, "sid") \/ Tells(a[i], f, "status") =>
             f \in Online(fs) /\ a[i] = Session(f, session[f])
       /\ \A i \in (m + 1)..n : Tells(a[i], f, "status") =>
             f \in away \cap fs /\ a[i] = StatusMsg(f, session[f], TRUE)
       /\ \A i \in (n + 1)..Len(a) : Tells(a[i], f, "game") =>
             f \in playing \cap fs /\ a[i] = GameInfo(f, session[f], plays[f])
       /\ \A i \in 1..Len(a) : Tells(a[i], f, "sid") => i \in 1..m
       /\ \A i \in 1..Len(a) : Tells(a[i], f, "status") => i \in 1..n
       /\ \A i \in 1..Len(a) : Tells(a[i], f, "game") => i \in (n + 1)..Len(a)
  BY <1>1, <1>2, AboutTells
<1>7. PICK i \in 1..m : a[i] = Session(f, session[f])
  BY <1>1, <1>5 DEF Described
<1>8. Tells(a[i], f, "sid") /\ a[i].sid = a[j].sid
  BY <1>3, <1>5, <1>7, SessionTells DEF Facets
<1>9. i \in 1..(j - 1)
  BY <1>2, <1>4, <1>6
<1>10. ASSUME NEW k \in (i + 1)..(j - 1), Tells(a[k], f, "sid")
       PROVE  FALSE
  <2>1. k \in 1..Len(a) /\ k # i
    BY <1>2, <1>4, <1>10
  <2>2. k \in 1..m
    BY <1>10, <1>11, <2>1
  <2>3. a[k] = Session(f, session[f])
    BY <1>10, <1>11, <2>2
  <2> QED  BY <1>1, <1>7, <2>1, <2>2, <2>3 DEF Described
<1> QED  BY <1>8, <1>9, <1>10

\* The same within a longer wire w, behind position o; what comes after is silent.
LEMMA AboutWithin ==
    ASSUME Basic, NEW fs \in SUBSET Friends, NEW w, Len(w) \in Nat, NEW o \in Nat,
           o + Len(About(fs)) <= Len(w),
           \A i \in 1..Len(About(fs)) : w[o + i] = About(fs)[i],
           NEW f \in Friends
    PROVE  /\ \A j \in 1..Len(About(fs)) : Uses(About(fs)[j], f) => Introduced(w, f, o, o + j)
           /\ \A x \in Facets :
                (\A i \in (o + Len(About(fs)) + 1)..Len(w) : ~Tells(w[i], f, x)) =>
                   /\ f \in fs => \/ LastWord(w, f, x, o, Truth(f)[x])
                                  \/ /\ Silent(w, f, x, o + 1, Len(w))
                                     /\ Truth(f)[x] = Nothing[x]
                                     /\ x \in {"sid", "status"} => session[f] = 0
                                     /\ x = "game" => f \notin playing
                   /\ f \notin fs => Silent(w, f, x, o + 1, Len(w))
<1> DEFINE a == About(fs)
<1>1. Len(a) \in Nat
  BY AboutParts
<1>2. /\ Len(w) \in Nat /\ o + Len(a) <= Len(w)
      /\ \A i \in 1..Len(a) : w[o + i] = a[i]
  OBVIOUS
<1>3. ASSUME NEW j \in 1..Len(a), Uses(a[j], f)
      PROVE  Introduced(w, f, o, o + j)
  <2>1. PICK i \in 1..(j - 1) :
            /\ Tells(a[i], f, "sid") /\ a[i].sid = a[j].sid
            /\ \A k \in (i + 1)..(j - 1) : ~Tells(a[k], f, "sid")
    BY <1>3, AboutIntroduces
  <2> HIDE DEF a
  <2>2. i \in 1..Len(a) /\ o + i \in (o + 1)..((o + j) - 1)
    BY <1>1
  <2>3. w[o + i] = a[i] /\ w[o + j] = a[j]
    BY <1>2, <2>2
  <2>4. ASSUME NEW k \in ((o + i) + 1)..((o + j) - 1)
        PROVE  ~Tells(w[k], f, "sid")
    <3> DEFINE l == k - o
    <3>1. l \in (i + 1)..(j - 1) /\ l \in 1..Len(a) /\ o + l = k
      BY <1>1, <2>2
    <3> HIDE DEF l
    <3> QED  BY <1>2, <2>1, <3>1
  <2> QED  BY <2>1, <2>2, <2>3, <2>4 DEF Introduced, Silent
<1>4. ASSUME NEW x \in Facets, \A i \in (o + Len(a) + 1)..Len(w) : ~Tells(w[i], f, x)
      PROVE  /\ f \in fs => \/ LastWord(w, f, x, o, Truth(f)[x])
                            \/ /\ Silent(w, f, x, o + 1, Len(w))
                               /\ Truth(f)[x] = Nothing[x]
                               /\ x \in {"sid", "status"} => session[f] = 0
                               /\ x = "game" => f \notin playing
             /\ f \notin fs => Silent(w, f, x, o + 1, Len(w))
  <2>1. ASSUME NEW b \in Nat, \A i \in (b + 1)..Len(a) : ~Tells(a[i], f, x)
        PROVE  Silent(w, f, x, (o + b) + 1, Len(w))
    <3> HIDE DEF a
    <3>1. ASSUME NEW k \in ((o + b) + 1)..Len(w)
          PROVE  ~Tells(w[k], f, x)
      <4>1. CASE k \in (o + Len(a) + 1)..Len(w)
        BY <1>4, <4>1
      <4>2. CASE k \notin (o + Len(a) + 1)..Len(w)
        <5> DEFINE l == k - o
        <5>1. l \in (b + 1)..Len(a) /\ l \in 1..Len(a) /\ o + l = k
          BY <1>1, <1>2, <4>2
        <5> HIDE DEF l
        <5> QED  BY <1>2, <2>1, <5>1
      <4> QED  BY <4>1, <4>2
    <3> QED  BY <3>1 DEF Silent
  <2>2. ASSUME \A i \in 1..Len(a) : ~Tells(a[i], f, x)
        PROVE  Silent(w, f, x, o + 1, Len(w))
    <3> DEFINE b == 0
    <3>1. b \in Nat /\ b + 1 = 1 /\ o + b = o
      OBVIOUS
    <3> HIDE DEF b, a
    <3> QED  BY <2>1, <2>2, <3>1
  <2>3. ASSUME f \in fs
        PROVE  \/ LastWord(w, f, x, o, Truth(f)[x])
               \/ /\ Silent(w, f, x, o + 1, Len(w))
                  /\ Truth(f)[x] = Nothing[x]
                  /\ x \in {"sid", "status"} => session[f] = 0
                  /\ x = "game" => f \notin playing
    <3>1. \/ \E i \in 1..Len(a) :
                /\ Tells(a[i], f, x) /\ Said(a[i], x) = Truth(f)[x]
                /\ \A j \in (i + 1)..Len(a) : ~Tells(a[j], f, x)
          \/ /\ \A i \in 1..Len(a) : ~Tells(a[i], f, x)
             /\ Truth(f)[x] = Nothing[x]
             /\ x \in {"sid", "status"} => session[f] = 0
             /\ x = "game" => f \notin playing
      BY <2>3, AboutLastWord
    <3> HIDE DEF a
    <3>2. ASSUME NEW i \in 1..Len(a), Tells(a[i], f, x), Said(a[i], x) = Truth(f)[x],
                 \A j \in (i + 1)..Len(a) : ~Tells(a[j], f, x)
          PROVE  LastWord(w, f, x, o, Truth(f)[x])
      <4>1. i \in Nat /\ o + i \in (o + 1)..Len(w) /\ w[o + i] = a[i]
        BY <1>1, <1>2
      <4>2. Silent(w, f, x, (o + i) + 1, Len(w))
        BY <2>1, <3>2, <4>1
      <4> QED  BY <3>2, <4>1, <4>2 DEF LastWord
    <3> QED  BY <2>2, <3>1, <3>2
  <2>4. ASSUME f \notin fs
        PROVE  Silent(w, f, x, o + 1, Len(w))
    <3>1. \A i \in 1..Len(a) : ~Tells(a[i], f, x)
      BY <2>4, AboutSays
    <3> HIDE DEF a
    <3> QED  BY <2>2, <3>1
  <2> QED  BY <2>3, <2>4
<1> QED  BY <1>3, <1>4

--------------------------------------------------------------------------------
(* What a packet does to a contact. *)

\* Handling a packet takes the first of wire and changes nothing that is true of friends.
LEMMA HandleShrinks ==
    ASSUME Basic, Handle
    PROVE  /\ Shrinks /\ wire[1] = Head(wire) /\ wire[1] \in Packets
           /\ UNCHANGED <<list, session, away, plays, clanFriends, up, ghosts, gameGhosts>>
<1>1. PICK t : Receive(t)
  BY DEF Handle, HandleFriends, HandleClan, HandleInvitations, HandleSid, HandleStatus,
         HandleGame, HandleChat
<1>2. wire \in Seq(Packets)
  BY DEF Basic, Typed
<1>3. Shrinks /\ wire[1] = Head(wire) /\ wire[1] \in Packets
  BY <1>1, <1>2, Received DEF Shrinks
<1>4. UNCHANGED <<list, session, away, plays, clanFriends, up, ghosts, gameGhosts>>
  BY DEF Handle, HandleFriends, HandleClan, HandleInvitations, HandleSid, HandleStatus,
         HandleGame, HandleChat, Handled, server
<1> QED  BY <1>3, <1>4

\* What the head of wire does to the contact of f.
HeadKeeps(f) == \A x \in Facets : ~Tells(wire[1], f, x) => contact'[f][x] = contact[f][x]
HeadSays(f) ==
    \A x \in Facets : Tells(wire[1], f, x) /\ Ready(f)
                      /\ (Uses(wire[1], f) => contact[f].sid = wire[1].sid)
                      => contact'[f][x] = Said(wire[1], x)
HeadNames(f) ==
    /\ Names(wire[1], f, clanFriends) => Ready(f)'
    /\ ~Names(wire[1], f, clanFriends) => (Ready(f)' <=> Ready(f)) /\ (f \in deleted' <=> f \in deleted)

\* What a list does to the contact of one friend: it names him or leaves him alone, and
\* shows nothing.
LEMMA HeadOfLists ==
    ASSUME Basic, HandleFriends \/ HandleClan \/ HandleInvitations, NEW f \in Friends
    PROVE  HeadKeeps(f) /\ HeadSays(f) /\ HeadNames(f)
<1> DEFINE p == wire[1]
<1>1. PICK t \in {"friends", "clan", "invitations"} :
          /\ Receive(t)
          /\ t = "friends" => HandleFriends
          /\ t = "clan" => HandleClan
          /\ t = "invitations" => HandleInvitations
  BY DEF HandleFriends, HandleClan, HandleInvitations, Receive
<1>2. p = Head(wire) /\ p \in Packets /\ p.type = t
  <2>1. wire \in Seq(Packets)
    BY DEF Basic, Typed
  <2> QED  BY <1>1, <2>1, Received
<1>3. p.friends \in SUBSET Friends /\ \A x \in Facets : ~Tells(p, f, x)
  BY <1>1, <1>2, PacketFields, ListTells
<1>4. clanFriends' = clanFriends
  BY DEF HandleFriends, HandleClan, HandleInvitations, Handled
<1>5. CASE Names(p, f, clanFriends) \/ t = "friends" \/ (t = "clan" /\ clanFriends)
  <2>1. NewContacts(p.friends) /\ deleted' = deleted \ p.friends
    BY <1>1, <1>2, <1>5 DEF Names, HandleFriends, HandleClan
  <2>2. /\ known' = known \cup p.friends
        /\ contact'[f].id = IF f \in p.friends THEN f ELSE contact[f].id
        /\ contact'[f].sid = contact[f].sid
        /\ contact'[f].status = contact[f].status
        /\ contact'[f].game = contact[f].game
    BY <1>3, <2>1, ListedContacts DEF Basic
  <2>3. HeadKeeps(f)
    BY <2>2 DEF HeadKeeps, Facets
  <2>4. HeadNames(f)
    BY <1>1, <1>2, <1>5, <2>1, <2>2 DEF HeadNames, Names, Ready
  <2> QED  BY <1>3, <2>3, <2>4 DEF HeadSays
<1>6. CASE ~Names(p, f, clanFriends) /\ t # "friends" /\ ~(t = "clan" /\ clanFriends)
  <2>1. UNCHANGED <<known, contact, deleted>>
    BY <1>1, <1>6 DEF HandleClan, HandleInvitations
  <2> QED  BY <1>3, <1>6, <2>1 DEF HeadKeeps, HeadSays, HeadNames, Ready
<1> QED  BY <1>5, <1>6

\* What another packet does to it: it shows what it says of a contact that it finds, and
\* finds no contact but his.
LEMMA HeadOfPresence ==
    ASSUME Basic, HandleSid \/ HandleStatus \/ HandleGame \/ HandleChat, ~mistaken',
           NEW f \in Friends
    PROVE  HeadKeeps(f) /\ HeadSays(f) /\ HeadNames(f)
<1> DEFINE p == wire[1]
<1>1. known \subseteq Friends /\ wire \in Seq(Packets) /\ Typed /\ contact[f] \in Contacts
      /\ known' = known /\ deleted' = deleted /\ ~mistaken
  BY DEF Basic, Typed, HandleSid, HandleStatus, HandleGame, HandleChat
<1>2. PICK t \in {"sid", "status", "game", "im"} :
          /\ Receive(t)
          /\ t = "sid" => HandleSid
          /\ t = "status" => HandleStatus
          /\ t = "game" => HandleGame
          /\ t = "im" => HandleChat
  BY DEF HandleSid, HandleStatus, HandleGame, HandleChat, Receive
<1>3. p = Head(wire) /\ p \in Packets /\ p.type = t
  BY <1>1, <1>2, Received
<1>4. HeadNames(f)
  <2>1. ~Names(p, f, clanFriends)
    BY <1>3 DEF Names
  <2>2. Ready(f)' <=> Ready(f)
    BY <1>1, PresenceIds DEF Ready
  <2> QED  BY <1>1, <2>1, <2>2 DEF HeadNames
<1>5. CASE t = "sid"
  <2>1. p.sid \in Sids /\ p.id \in Friends
    BY <1>3, <1>5, PacketFields DEF Sids
  <2>2. \A x \in Facets : Tells(p, f, x) <=> p.id = f /\ x \in {"sid", "status"}
    BY <1>3, <1>5 DEF Tells, Facets
  <2>3. Said(p, "sid") = p.sid /\ Said(p, "status") = StatusOf(p.sid)
    BY <1>3, <1>5 DEF Said
  <2>4. CASE FindById(p.id) = {} /\ contact' = contact
    <3>1. ~(Ready(f) /\ p.id = f)
      BY <2>4 DEF Ready, FindById
    <3> QED  BY <1>4, <2>2, <2>4, <3>1 DEF HeadKeeps, HeadSays
  <2>5. ASSUME NEW c \in FindById(p.id), UpdateSid(c, p.sid), c = p.id
        PROVE  HeadKeeps(f) /\ HeadSays(f)
    <3>1. c \in Friends
      BY <2>1, <2>5
    <3>2. /\ f # c => contact'[f] = contact[f]
          /\ contact'[c].game = contact[c].game
          /\ contact'[c].sid = p.sid /\ contact'[c].status = StatusOf(p.sid)
      BY <1>1, <2>1, <2>5, <3>1, SidContact
    <3> QED  BY <2>2, <2>3, <2>5, <3>2 DEF HeadKeeps, HeadSays, Facets
  <2> QED  BY <1>2, <1>3, <1>4, <1>5, <2>4, <2>5 DEF HandleSid
<1>6. CASE t = "im"
  <2>1. contact' = contact
    BY <1>2, <1>6 DEF HandleChat
  <2>2. \A x \in Facets : ~Tells(p, f, x)
    BY <1>3, <1>6 DEF Tells, Facets
  <2> QED  BY <1>4, <2>1, <2>2 DEF HeadKeeps, HeadSays
<1>7. CASE t \in {"status", "game"}
  <2>1. p.sid \in Present
    BY <1>3, <1>7, PacketFields
  <2>2. p.sid # NoSid
    BY <2>1, PresentSids
  <2>3. /\ \A x \in Facets : Tells(p, f, x) <=> p.sid[1] = f /\ x = t
        /\ Uses(p, f) <=> p.sid[1] = f
    BY <1>3, <1>7 DEF Tells, Facets, Uses
  <2>4. ASSUME FindBySid(p.sid) = {}, contact' = contact
        PROVE  HeadKeeps(f) /\ HeadSays(f)
    <3>1. ~(Ready(f) /\ contact[f].sid = p.sid)
      BY <2>4 DEF Ready, FindBySid
    <3> QED  BY <2>3, <2>4, <3>1 DEF HeadKeeps, HeadSays
  <2>5. ASSUME NEW c \in FindBySid(p.sid)
        PROVE  c \in Friends /\ p.sid[1] = c
    <3>1. c \in Friends /\ contact[c].sid = p.sid
      BY <1>1 DEF FindBySid
    <3> QED  BY <1>1, <2>2, <3>1 DEF Basic, Sane
  <2>6. ASSUME NEW c \in FindBySid(p.sid), SetStatus(c, p.afk), t = "status"
        PROVE  HeadKeeps(f) /\ HeadSays(f)
    <3>1. p.afk \in BOOLEAN
      BY <1>3, <2>6, PacketFields
    <3>2. /\ f # c => contact'[f] = contact[f]
          /\ contact'[c].game = contact[c].game /\ contact'[c].sid = contact[c].sid
          /\ contact'[c].status = IF p.afk THEN "Away" ELSE "Online"
      BY <1>1, <2>5, <2>6, <3>1, StatusContact
    <3>3. Said(p, "status") = IF p.afk THEN "Away" ELSE "Online"
      BY <1>3, <2>6 DEF Said
    <3> QED  BY <2>3, <2>5, <2>6, <3>2, <3>3 DEF HeadKeeps, HeadSays, Facets
  <2>7. ASSUME NEW c \in FindBySid(p.sid), UpdateGame(c, p.game), t = "game"
        PROVE  HeadKeeps(f) /\ HeadSays(f)
    <3>2. /\ f # c => contact'[f] = contact[f]
          /\ contact'[c].status = contact[c].status /\ contact'[c].sid = contact[c].sid
          /\ contact'[c].game = GameName(p.game)
      BY <1>1, <2>5, <2>7, GameContact
    <3>3. Said(p, "game") = GameName(p.game)
      BY DEF Said
    <3> QED  BY <2>3, <2>5, <2>7, <3>2, <3>3 DEF HeadKeeps, HeadSays, Facets
  <2>8. CASE t = "status"
    BY <1>2, <1>3, <1>4, <2>4, <2>6, <2>8 DEF HandleStatus
  <2>9. CASE t = "game"
    BY <1>2, <1>3, <1>4, <2>4, <2>7, <2>9 DEF HandleGame
  <2> QED  BY <1>7, <2>8, <2>9
<1> QED  BY <1>2, <1>5, <1>6, <1>7

--------------------------------------------------------------------------------
(* After a packet is handled. *)

\* A word behind k is a word behind 0.
LEMMA LastWordAnywhere ==
    ASSUME NEW w, Len(w) \in Nat, NEW f, NEW x, NEW v, NEW k \in Nat, LastWord(w, f, x, k, v)
    PROVE  LastWord(w, f, x, 0, v)
<1> DEFINE z == 0
<1>1. z \in Nat /\ z <= k
  OBVIOUS
<1> HIDE DEF z
<1>2. LastWord(w, f, x, z, v)
  BY <1>1, LastWordEarlier
<1> QED  BY <1>2 DEF z

\* An introduction behind some place is one in the whole sequence.
LEMMA IntroducedAnywhere ==
    ASSUME NEW w, NEW f, NEW k \in Nat, NEW j \in Nat, Introduced(w, f, k, j)
    PROVE  Introduced(w, f, 0, j)
<1> DEFINE z == 0
<1>1. z \in Nat /\ z <= k
  OBVIOUS
<1> HIDE DEF z
<1>2. Introduced(w, f, z, j)
  BY <1>1, IntroducedEarlier
<1> QED  BY <1>2 DEF z

\* If wire is silent, so are its first packet and the rest;
LEMMA SilentAll ==
    ASSUME Shrinks, NEW f, NEW x, Silent(wire, f, x, 1, Len(wire))
    PROVE  ~Tells(wire[1], f, x) /\ Silent(wire', f, x, 1, Len(wire'))
<1>1. 1 \in 1..Len(wire) /\ \A i \in 1..Len(wire') : i + 1 \in 1..Len(wire)
  BY Shifted
<1> QED  BY <1>1, Shifted DEF Silent

\* and the same of a part from the front.
LEMMA SilentBefore ==
    ASSUME Shrinks, NEW f, NEW x, NEW j \in 1..Len(wire'), Silent(wire, f, x, 1, (j + 1) - 1)
    PROVE  ~Tells(wire[1], f, x) /\ Silent(wire', f, x, 1, j - 1)
<1>1. /\ 1 \in 1..((j + 1) - 1)
      /\ \A i \in 1..(j - 1) : i + 1 \in 1..((j + 1) - 1) /\ i \in 1..Len(wire')
  BY Shifted
<1> QED  BY <1>1, Shifted DEF Silent

\* Handling a packet: if it was the last word, the contact shows it now (for it is found,
\* by Usable); else the last word is still to come.
LEMMA HandleFollows ==
    ASSUME Basic, Handle, ~mistaken', ~mistaken, NEW f \in Friends, Follows(f), Usable(f)
    PROVE  Follows(f)'
<1>1. /\ Shrinks
      /\ UNCHANGED <<list, session, away, plays, clanFriends, up, ghosts, gameGhosts>>
  BY HandleShrinks
<1>2. HeadKeeps(f) /\ HeadSays(f) /\ HeadNames(f)
  BY HeadOfLists, HeadOfPresence DEF Handle
<1>3. /\ Len(wire) \in Nat /\ Len(wire') \in Nat /\ Len(wire) = Len(wire') + 1
      /\ \A i \in 1..Len(wire') : i + 1 \in 2..Len(wire) /\ wire'[i] = wire[i + 1]
  BY <1>1, Shifted
<1>4. 1 \in 1..Len(wire) /\ 1 \in Nat /\ \A i \in 1..Len(wire') : (i + 1) - 1 = i
  BY <1>3
<1> SUFFICES ASSUME up', f \in Told', NEW x \in Facets, ~Excused(f, x)'
             PROVE  FollowsNamed(f, x)' /\ FollowsReady(f, x)'
  BY DEF Follows
<1>5. /\ up /\ f \in Told /\ FollowsNamed(f, x) /\ FollowsReady(f, x)
      /\ Truth(f)'[x] = Truth(f)[x] /\ Shown' = Shown
  BY <1>1 DEF Follows, Told, Excused, Truth, Shown
<1> DEFINE v == Truth(f)[x]
<1>6. FollowsNamed(f, x)'
  <2> SUFFICES ASSUME NEW k \in 1..Len(wire'), Names(wire'[k], f, clanFriends)
               PROVE  \/ LastWord(wire', f, x, k, v)
                      \/ /\ Silent(wire', f, x, 1, Len(wire'))
                         /\ contact'[f][x] = Nothing[x] /\ v = Nothing[x]
    BY <1>1, <1>5 DEF FollowsNamed
  <2>1. k + 1 \in 1..Len(wire) /\ k + 1 \in Nat /\ k + 1 >= 1 /\ (k + 1) - 1 = k
        /\ Names(wire[k + 1], f, clanFriends)
    BY <1>3
  <2>2. CASE LastWord(wire, f, x, k + 1, v)
    <3> HIDE DEF v
    <3>1. LastWord(wire', f, x, (k + 1) - 1, v)
      BY <1>1, <2>1, <2>2, LastWordShifted
    <3> QED  BY <2>1, <3>1
  <2>3. CASE Silent(wire, f, x, 1, Len(wire)) /\ contact[f][x] = Nothing[x] /\ v = Nothing[x]
    BY <1>1, <1>2, <2>3, SilentAll DEF HeadKeeps
  <2> QED  BY <1>5, <2>1, <2>2, <2>3 DEF FollowsNamed
<1>7. FollowsReady(f, x)'
  <2> SUFFICES ASSUME Ready(f)', f \in Shown
               PROVE  \/ LastWord(wire', f, x, 0, v)
                      \/ Silent(wire', f, x, 1, Len(wire')) /\ contact'[f][x] = v
    BY <1>5 DEF FollowsReady
  <2>1. ASSUME NEW k \in 1..Len(wire), Names(wire[k], f, clanFriends)
        PROVE  \/ LastWord(wire', f, x, 0, v)
               \/ /\ Silent(wire, f, x, 1, Len(wire))
                  /\ contact[f][x] = Nothing[x] /\ v = Nothing[x]
    <3>1. CASE LastWord(wire, f, x, k, v)
      <4> HIDE DEF v
      <4>1. k \in Nat /\ k >= 1 /\ k - 1 \in Nat
        OBVIOUS
      <4>2. LastWord(wire', f, x, k - 1, v)
        BY <1>1, <3>1, <4>1, LastWordShifted
      <4> QED  BY <1>3, <4>1, <4>2, LastWordAnywhere
    <3> QED  BY <1>5, <2>1, <3>1 DEF FollowsNamed
  <2>2. CASE Names(wire[1], f, clanFriends)
    <3>1. CASE /\ Silent(wire, f, x, 1, Len(wire))
               /\ contact[f][x] = Nothing[x] /\ v = Nothing[x]
      BY <1>1, <1>2, <3>1, SilentAll DEF HeadKeeps
    <3> QED  BY <1>4, <2>1, <2>2, <3>1
  <2>3. CASE ~Names(wire[1], f, clanFriends)
    <3>1. Ready(f)
      BY <1>2, <2>3 DEF HeadNames
    <3>2. CASE Silent(wire, f, x, 1, Len(wire)) /\ contact[f][x] = v
      BY <1>1, <1>2, <3>2, SilentAll DEF HeadKeeps
    <3>3. CASE LastWord(wire, f, x, 0, v)
      <4>1. CASE LastWord(wire', f, x, 0, v)
        BY <4>1
      <4>2. CASE Tells(wire[1], f, x) /\ Said(wire[1], x) = v /\ Silent(wire', f, x, 1, Len(wire'))
        <5>1. CASE ~Uses(wire[1], f) \/ contact[f].sid = wire[1].sid
          BY <1>2, <3>1, <4>2, <5>1 DEF HeadSays
        <5>2. CASE Uses(wire[1], f) /\ contact[f].sid # wire[1].sid
          <6>1. Found(f, 1)
            BY <1>4, <3>1, <5>2 DEF Usable
          <6>2. ~Introduced(wire, f, 0, 1)
            BY DEF Introduced
          <6>3. PICK k \in (1 + 1)..Len(wire) : Names(wire[k], f, clanFriends)
            BY <1>5, <5>2, <6>1, <6>2 DEF Found, Unwanted, Shown
          <6>4. k \in 1..Len(wire)
            BY <1>3
          <6>5. ~Silent(wire, f, x, 1, Len(wire))
            BY <1>4, <4>2 DEF Silent
          <6> QED  BY <2>1, <6>3, <6>4, <6>5
        <5> QED  BY <5>1, <5>2
      <4> HIDE DEF v
      <4>3. \A k \in Nat : k = 0 /\ LastWord(wire, f, x, k, v) =>
               \/ LastWord(wire', f, x, 0, v)
               \/ Tells(wire[1], f, x) /\ Said(wire[1], x) = v /\ Silent(wire', f, x, 1, Len(wire'))
        BY <1>1, LastWordShifted
      <4> QED  BY <3>3, <4>1, <4>2, <4>3
    <3> QED  BY <1>5, <3>1, <3>2, <3>3 DEF FollowsReady
  <2> QED  BY <2>2, <2>3
<1> QED  BY <1>6, <1>7

\* Handling a packet: a list makes the contact ready, and the session behind it is still to
\* come; a session packet gives the contact what the packets behind it use.
LEMMA HandleFinds ==
    ASSUME Basic, Handle, ~mistaken', ~mistaken, NEW f \in Friends,
           InOrder(f), Usable(f), NamedFirst(f)
    PROVE  InOrder(f)' /\ Usable(f)' /\ NamedFirst(f)'
<1>1. Shrinks /\ UNCHANGED <<list, clanFriends, up>>
  BY HandleShrinks
<1>2. HeadKeeps(f) /\ HeadSays(f) /\ HeadNames(f)
  BY HeadOfLists, HeadOfPresence DEF Handle
<1>3. /\ Len(wire) \in Nat /\ Len(wire') \in Nat /\ Len(wire) = Len(wire') + 1
      /\ \A i \in 1..Len(wire') : i + 1 \in 2..Len(wire) /\ wire'[i] = wire[i + 1]
      /\ \A i \in 2..Len(wire) : i - 1 \in 1..Len(wire') /\ wire'[i - 1] = wire[i]
  BY <1>1, Shifted
<1>4. "sid" \in Facets
  BY DEF Facets
<1>5. ASSUME NEW j \in 1..Len(wire')
      PROVE  /\ j + 1 \in 2..Len(wire) /\ j + 1 \in 1..Len(wire) /\ j + 1 \in Nat /\ j \in Nat
             /\ (j + 1) - 1 = j /\ wire'[j] = wire[j + 1]
  BY <1>3
<1>6. ASSUME NEW j \in 1..Len(wire'), NEW k \in 1..((j + 1) - 1), Introduced(wire, f, k, j + 1)
      PROVE  Introduced(wire', f, k - 1, j)
  <2>1. k \in Nat /\ k >= 1
    BY <1>5
  <2>2. Introduced(wire', f, k - 1, (j + 1) - 1)
    BY <1>1, <1>5, <1>6, <2>1, IntroducedShifted
  <2> QED  BY <1>5, <2>2
<1>7. InOrder(f)'
  <2> SUFFICES ASSUME NEW j \in 1..Len(wire'), Uses(wire'[j], f),
                      NEW k \in 1..(j - 1), Names(wire'[k], f, clanFriends)
               PROVE  Introduced(wire', f, k, j)
    BY <1>1 DEF InOrder
  <2>1. k \in 1..Len(wire') /\ k + 1 \in 1..((j + 1) - 1) /\ (k + 1) - 1 = k
    BY <1>3, SMTT(30)
  <2>2. Uses(wire[j + 1], f) /\ Names(wire[k + 1], f, clanFriends)
    BY <1>5, <2>1
  <2>3. Introduced(wire, f, k + 1, j + 1)
    BY <1>5, <2>1, <2>2 DEF InOrder
  <2>4. Introduced(wire', f, (k + 1) - 1, j)
    BY <1>6, <2>1, <2>3
  <2> QED  BY <2>1, <2>4
<1>8. Usable(f)'
  <2> SUFFICES ASSUME NEW j \in 1..Len(wire'), Uses(wire'[j], f), Ready(f)'
               PROVE  Found(f, j)'
    BY DEF Usable
  <2>1. Uses(wire[j + 1], f)
    BY <1>5
  <2>2. CASE Names(wire[1], f, clanFriends)
    <3>1. 1 \in 1..((j + 1) - 1) /\ 1 - 1 = 0
      BY <1>5
    <3>2. Introduced(wire, f, 1, j + 1)
      BY <1>5, <2>1, <2>2, <3>1 DEF InOrder
    <3>3. Introduced(wire', f, 1 - 1, j)
      BY <1>6, <3>1, <3>2
    <3> QED  BY <3>1, <3>3 DEF Found
  <2>3. CASE ~Names(wire[1], f, clanFriends)
    <3>1. Ready(f)
      BY <1>2, <2>3 DEF HeadNames
    <3>2. Found(f, j + 1)
      BY <1>5, <2>1, <3>1 DEF Usable
    <3>3. CASE Introduced(wire, f, 0, j + 1)
      <4>1. \/ Introduced(wire', f, 0, (j + 1) - 1)
            \/ /\ Tells(wire[1], f, "sid") /\ wire[1].sid = wire[j + 1].sid
               /\ Silent(wire', f, "sid", 1, ((j + 1) - 1) - 1)
        <5>1. \A k \in Nat : k = 0 /\ Introduced(wire, f, k, j + 1) =>
                \/ Introduced(wire', f, 0, (j + 1) - 1)
                \/ /\ Tells(wire[1], f, "sid") /\ wire[1].sid = wire[j + 1].sid
                   /\ Silent(wire', f, "sid", 1, ((j + 1) - 1) - 1)
          BY <1>1, <1>5, IntroducedShifted
        <5> QED  BY <3>3, <5>1
      <4>2. CASE /\ Tells(wire[1], f, "sid") /\ wire[1].sid = wire[j + 1].sid
                 /\ Silent(wire', f, "sid", 1, ((j + 1) - 1) - 1)
        <5>1. ~Uses(wire[1], f) /\ Said(wire[1], "sid") = wire[1].sid
          BY <4>2 DEF Uses, Tells, Said
        <5>2. contact'[f]["sid"] = Said(wire[1], "sid")
          BY <1>2, <1>4, <3>1, <4>2, <5>1 DEF HeadSays
        <5> QED  BY <1>5, <4>2, <5>1, <5>2 DEF Found
      <4> QED  BY <1>5, <4>1, <4>2 DEF Found
    <3>4. CASE Silent(wire, f, "sid", 1, (j + 1) - 1) /\ contact[f].sid = wire[j + 1].sid
      <4>1. ~Tells(wire[1], f, "sid") /\ Silent(wire', f, "sid", 1, j - 1)
        BY <1>1, <3>4, SilentBefore
      <4>2. contact'[f]["sid"] = contact[f]["sid"]
        BY <1>2, <1>4, <4>1 DEF HeadKeeps
      <4> QED  BY <1>5, <3>4, <4>1, <4>2 DEF Found
    <3>5. CASE Unwanted(f) /\ (f \notin list \/ ~up)
      BY <1>1, <3>5 DEF Found, Unwanted
    <3>6. ASSUME Unwanted(f), NEW k \in ((j + 1) + 1)..Len(wire), Names(wire[k], f, clanFriends)
          PROVE  Found(f, j)'
      <4>1. k \in 2..Len(wire) /\ k - 1 \in (j + 1)..Len(wire')
        BY <1>3
      <4>2. Names(wire'[k - 1], f, clanFriends)
        BY <1>3, <3>6, <4>1
      <4> QED  BY <1>1, <3>6, <4>1, <4>2 DEF Found, Unwanted
    <3> QED  BY <3>2, <3>3, <3>4, <3>5, <3>6 DEF Found
  <2> QED  BY <2>2, <2>3
<1>9. NamedFirst(f)'
  <2> SUFFICES ASSUME NEW j \in 1..Len(wire'), Uses(wire'[j], f)
               PROVE  \/ Ready(f)' \/ f \in deleted' \/ Unwanted(f)'
                      \/ \E k \in 1..(j - 1) : Names(wire'[k], f, clanFriends)
    BY <1>1 DEF NamedFirst
  <2>1. Uses(wire[j + 1], f)
    BY <1>5
  <2>2. Unwanted(f)' <=> Unwanted(f)
    BY <1>1 DEF Unwanted
  <2>3. ASSUME NEW k \in 1..((j + 1) - 1), Names(wire[k], f, clanFriends), k # 1
        PROVE  \E l \in 1..(j - 1) : Names(wire'[l], f, clanFriends)
    <3>1. k \in 2..Len(wire) /\ k - 1 \in 1..(j - 1)
      BY <1>3, <2>3
    <3> QED  BY <1>3, <2>3, <3>1
  <2>4. \/ Ready(f) \/ f \in deleted \/ Unwanted(f)
        \/ \E k \in 1..((j + 1) - 1) : Names(wire[k], f, clanFriends)
    BY <1>5, <2>1 DEF NamedFirst
  <2> QED  BY <1>2, <2>2, <2>3, <2>4 DEF HeadNames
<1> QED  BY <1>7, <1>8, <1>9

--------------------------------------------------------------------------------
(* After the server has said something, or nothing. *)

\* Nothing is done about f's contact, and he remains on the list, or off it.
Waits(f) ==
    /\ UNCHANGED <<clanFriends, up>> /\ contact'[f] = contact[f]
    /\ f \in known' <=> f \in known
    /\ f \in deleted' <=> f \in deleted
    /\ f \in list' <=> f \in list

\* The session of whoever is online has been told, or is shown.
LEMMA SessionFollows ==
    ASSUME Basic, NEW f \in Friends, up, f \in Told, session[f] # 0, Follows(f)
    PROVE  /\ \A k \in 1..Len(wire) : Names(wire[k], f, clanFriends) =>
                 LastWord(wire, f, "sid", k, Sid(f, session[f]))
           /\ Ready(f) /\ f \in Shown =>
                 \/ LastWord(wire, f, "sid", 0, Sid(f, session[f]))
                 \/ Silent(wire, f, "sid", 1, Len(wire)) /\ contact[f].sid = Sid(f, session[f])
<1>1. "sid" \in Facets /\ ~Excused(f, "sid")
  BY DEF Facets, Excused, Basic, Sane
<1>2. FollowsNamed(f, "sid") /\ FollowsReady(f, "sid")
  BY <1>1 DEF Follows
<1>3. Truth(f)["sid"] = Sid(f, session[f]) /\ Nothing["sid"] = NoSid
  BY DEF Truth, Nothing
<1>4. Sid(f, session[f]) # NoSid
  BY DEF Sid, NoSid
<1> QED  BY <1>2, <1>3, <1>4 DEF FollowsNamed, FollowsReady

\* Packets appended: the truth about f has not changed and they do not tell of it, or they
\* have the last word and tell the truth as it is now.
LEMMA GrownFollows ==
    ASSUME Basic, Grows, NEW f \in Friends, Waits(f), Follows(f),
           \A i \in (Len(wire) + 1)..Len(wire') : ~Names(wire'[i], f, clanFriends),
           up /\ f \in Told => \A x \in Facets : ~Excused(f, x)' =>
              \/ ~Adds(f, x) /\ Truth(f)'[x] = Truth(f)[x] /\ ~Excused(f, x)
              \/ \A k \in Nat : k <= Len(wire) => LastWord(wire', f, x, k, Truth(f)'[x])
    PROVE  Follows(f)'
<1>1. /\ Len(wire) \in Nat /\ Len(wire') \in Nat /\ 0 \in Nat /\ 0 <= Len(wire) /\ 1 \in Nat /\ 1 >= 1
      /\ \A i \in 1..Len(wire) : wire'[i] = wire[i]
      /\ \A i \in 1..Len(wire') : i \in 1..Len(wire) \/ i \in (Len(wire) + 1)..Len(wire')
      /\ \A i \in 1..Len(wire) : i \in Nat /\ i <= Len(wire)
  BY DEF Grows
<1> SUFFICES ASSUME up', f \in Told', NEW x \in Facets, ~Excused(f, x)'
             PROVE  FollowsNamed(f, x)' /\ FollowsReady(f, x)'
  BY DEF Follows
<1>2. /\ up /\ f \in Told /\ (f \in Shown' <=> f \in Shown) /\ (Ready(f)' <=> Ready(f))
      /\ clanFriends' = clanFriends /\ contact'[f] = contact[f]
  BY DEF Waits, Told, Shown, Ready
<1> DEFINE v == Truth(f)'[x]
<1>3. CASE \A k \in Nat : k <= Len(wire) => LastWord(wire', f, x, k, v)
  BY <1>1, <1>2, <1>3 DEF FollowsNamed, FollowsReady
<1>4. CASE ~Adds(f, x) /\ v = Truth(f)[x] /\ ~Excused(f, x)
  <2>1. FollowsNamed(f, x) /\ FollowsReady(f, x)
    BY <1>2, <1>4 DEF Follows
  <2>2. \A k \in Nat : LastWord(wire, f, x, k, v) => LastWord(wire', f, x, k, v)
    <3> HIDE DEF v
    <3> QED  BY <1>4, LastWordGrows
  <2>3. Silent(wire, f, x, 1, Len(wire)) => Silent(wire', f, x, 1, Len(wire'))
    <3>1. \A a \in Nat : a >= 1 /\ Silent(wire, f, x, a, Len(wire)) => Silent(wire', f, x, a, Len(wire'))
      BY <1>4, SilenceGrows
    <3> QED  BY <1>1, <3>1
  <2>4. FollowsNamed(f, x)'
    <3> SUFFICES ASSUME NEW k \in 1..Len(wire'), Names(wire'[k], f, clanFriends)
                 PROVE  \/ LastWord(wire', f, x, k, v)
                        \/ /\ Silent(wire', f, x, 1, Len(wire'))
                           /\ contact[f][x] = Nothing[x] /\ v = Nothing[x]
      BY <1>2 DEF FollowsNamed
    <3>1. k \in 1..Len(wire) /\ k \in Nat /\ Names(wire[k], f, clanFriends)
      BY <1>1
    <3> QED  BY <1>4, <2>1, <2>2, <2>3, <3>1 DEF FollowsNamed
  <2>5. FollowsReady(f, x)'
    BY <1>1, <1>2, <1>4, <2>1, <2>2, <2>3 DEF FollowsReady
  <2> QED  BY <2>4, <2>5
<1> QED  BY <1>2, <1>3, <1>4

\* What is found remains so, in a longer wire.
LEMMA GrownFound ==
    ASSUME Basic, Grows, NEW f \in Friends, NEW j \in 1..Len(wire),
           clanFriends' = clanFriends, contact'[f] = contact[f], Found(f, j)
    PROVE  Found(f, j)' \/ (Unwanted(f) /\ (f \notin list \/ ~up))
<1>1. /\ Len(wire) \in Nat /\ Len(wire') \in Nat /\ wire'[j] = wire[j] /\ j \in Nat
      /\ \A k \in (j + 1)..Len(wire) : k \in (j + 1)..Len(wire') /\ wire'[k] = wire[k]
      /\ j - 1 \in Int /\ j - 1 <= Len(wire) /\ 1 \in Nat /\ 1 >= 1
  BY DEF Grows
<1>2. CASE Introduced(wire, f, 0, j)
  <2>1. \A k \in Nat : Introduced(wire, f, k, j) => Introduced(wire', f, k, j)
    BY IntroducedGrows
  <2> QED  BY <1>2, <2>1 DEF Found
<1>3. CASE Silent(wire, f, "sid", 1, j - 1) /\ contact[f].sid = wire[j].sid
  <2>1. \A a \in Nat : a >= 1 => (Silent(wire', f, "sid", a, j - 1) <=> Silent(wire, f, "sid", a, j - 1))
    BY <1>1, SilentGrows
  <2>2. Silent(wire', f, "sid", 1, j - 1)
    BY <1>1, <1>3, <2>1
  <2> QED  BY <1>1, <1>3, <2>2 DEF Found
<1>4. CASE Unwanted(f) /\ \E k \in (j + 1)..Len(wire) : Names(wire[k], f, clanFriends)
  BY <1>1, <1>4 DEF Found, Unwanted
<1> QED  BY <1>2, <1>3, <1>4 DEF Found, Unwanted

\* Packets appended: at most one of them uses a session of f, the present one.
LEMMA GrownFinds ==
    ASSUME Basic, Grows, NEW f \in Friends, Waits(f), Agrees(f), Appear,
           \A i \in (Len(wire) + 1)..Len(wire') : Uses(wire'[i], f) =>
              /\ up /\ i = Len(wire) + 1 /\ Len(wire') = Len(wire) + 1
              /\ f \in Told /\ session[f] # 0 /\ wire'[i].sid = Sid(f, session[f])
    PROVE  InOrder(f)' /\ Usable(f)' /\ NamedFirst(f)'
<1> DEFINE n == Len(wire) + 1
<1>1. /\ Len(wire) \in Nat /\ Len(wire') \in Nat /\ n \in Nat /\ n - 1 = Len(wire)
      /\ \A i \in 1..Len(wire) : wire'[i] = wire[i]
      /\ \A j \in 1..Len(wire') : j \in 1..Len(wire) \/ j \in n..Len(wire')
      /\ \A j \in 1..Len(wire) : \A k \in 1..(j - 1) : k \in Nat /\ k \in 1..Len(wire)
      /\ \A k \in 1..(n - 1) : k \in 1..Len(wire) /\ k \in Nat
  BY DEF Grows
<1>2. /\ clanFriends' = clanFriends /\ contact'[f] = contact[f] /\ up' = up
      /\ (f \in list' <=> f \in list) /\ (f \in deleted' <=> f \in deleted)
      /\ (Ready(f)' <=> Ready(f)) /\ (Unwanted(f)' <=> Unwanted(f))
  BY DEF Waits, Ready, Unwanted
<1>3. Follows(f) /\ InOrder(f) /\ Usable(f) /\ NamedFirst(f)
  BY DEF Agrees
<1>4. ASSUME NEW j \in n..Len(wire'), Uses(wire'[j], f)
      PROVE  /\ up /\ j = n /\ Len(wire') = Len(wire) + 1
             /\ f \in Told /\ session[f] # 0 /\ wire'[n].sid = Sid(f, session[f])
  BY <1>4
<1>5. InOrder(f)'
  <2> SUFFICES ASSUME NEW j \in 1..Len(wire'), Uses(wire'[j], f),
                      NEW k \in 1..(j - 1), Names(wire'[k], f, clanFriends)
               PROVE  Introduced(wire', f, k, j)
    BY <1>2 DEF InOrder
  <2>1. CASE j \in 1..Len(wire)
    <3>1. Uses(wire[j], f) /\ Names(wire[k], f, clanFriends) /\ k \in Nat
      BY <1>1, <2>1
    <3>2. Introduced(wire, f, k, j)
      BY <1>3, <2>1, <3>1 DEF InOrder
    <3> QED  BY <2>1, <3>1, <3>2, IntroducedGrows
  <2>2. CASE j \in n..Len(wire')
    <3>1. /\ up /\ j = n /\ Len(wire') = Len(wire) + 1
          /\ f \in Told /\ session[f] # 0 /\ wire'[n].sid = Sid(f, session[f])
      BY <1>4, <2>2
    <3>2. k \in 1..Len(wire) /\ k \in Nat /\ Names(wire[k], f, clanFriends)
      BY <1>1, <3>1
    <3>3. LastWord(wire, f, "sid", k, wire'[Len(wire) + 1].sid)
      BY <1>3, <3>1, <3>2, SessionFollows
    <3> QED  BY <3>1, <3>2, <3>3, NewlyIntroduced
  <2> QED  BY <1>1, <2>1, <2>2
<1>6. Usable(f)'
  <2> SUFFICES ASSUME NEW j \in 1..Len(wire'), Uses(wire'[j], f), Ready(f)
               PROVE  Found(f, j)'
    BY <1>2 DEF Usable
  <2>1. CASE j \in 1..Len(wire)
    <3>1. Uses(wire[j], f)
      BY <1>1, <2>1
    <3>2. Found(f, j)
      BY <1>3, <2>1, <3>1 DEF Usable
    <3>3. Unwanted(f) /\ (f \notin list \/ ~up) => Found(f, j)'
      BY <1>2 DEF Found
    <3> QED  BY <1>2, <2>1, <3>2, <3>3, GrownFound
  <2>2. CASE j \in n..Len(wire')
    <3>1. /\ up /\ j = n /\ Len(wire') = Len(wire) + 1
          /\ f \in Told /\ session[f] # 0 /\ wire'[n].sid = Sid(f, session[f])
      BY <1>4, <2>2
    <3>2. CASE f \notin Shown
      BY <1>2, <3>1, <3>2 DEF Found, Unwanted, Shown, Told
    <3>3. CASE LastWord(wire, f, "sid", 0, wire'[Len(wire) + 1].sid)
      <4>1. \A k \in Nat : LastWord(wire, f, "sid", k, wire'[Len(wire) + 1].sid) =>
               Introduced(wire', f, k, Len(wire) + 1)
        BY <3>1, NewlyIntroduced
      <4> QED  BY <3>1, <3>3, <4>1 DEF Found
    <3>4. CASE Silent(wire, f, "sid", 1, Len(wire)) /\ contact[f].sid = Sid(f, session[f])
      <4>1. Silent(wire', f, "sid", 1, n - 1)
        BY <1>1, <3>4 DEF Silent
      <4> QED  BY <1>2, <3>1, <3>4, <4>1 DEF Found
    <3> QED  BY <1>3, <3>1, <3>2, <3>3, <3>4, SessionFollows
  <2> QED  BY <1>1, <2>1, <2>2
<1>7. NamedFirst(f)'
  <2> SUFFICES ASSUME NEW j \in 1..Len(wire'), Uses(wire'[j], f)
               PROVE  \/ Ready(f) \/ f \in deleted \/ Unwanted(f)
                      \/ \E k \in 1..(j - 1) : Names(wire'[k], f, clanFriends)
    BY <1>2 DEF NamedFirst
  <2>1. CASE j \in 1..Len(wire)
    <3>1. Uses(wire[j], f)
      BY <1>1, <2>1
    <3>2. \/ Ready(f) \/ f \in deleted \/ Unwanted(f)
          \/ \E k \in 1..(j - 1) : Names(wire[k], f, clanFriends)
      BY <1>3, <2>1, <3>1 DEF NamedFirst
    <3> QED  BY <1>1, <2>1, <3>2
  <2>2. CASE j \in n..Len(wire')
    <3>1. up /\ j = n /\ f \in Told
      BY <1>4, <2>2
    <3>2. CASE f \notin Shown
      BY <3>1, <3>2 DEF Unwanted, Shown, Told
    <3>3. CASE f \in Shown
      <4>1. Ready(f) \/ f \in deleted \/ \E k \in 1..Len(wire) : Names(wire[k], f, clanFriends)
        BY <3>1, <3>3 DEF Appear, Coming
      <4> QED  BY <1>1, <3>1, <4>1
    <3> QED  BY <3>2, <3>3
  <2> QED  BY <1>1, <2>1, <2>2
<1> QED  BY <1>5, <1>6, <1>7

--------------------------------------------------------------------------------
(* After the server has described friends. *)

\* Who is not a ghost is shown as someone the server says nothing of, and wire is silent.
LEMMA NoGhost ==
    ASSUME Basic, NEW f \in Friends, NEW x \in Facets, NEW fs, f \in fs,
           x # "game" => f \notin Ghosts(fs) /\ session[f] = 0,
           x = "game" => f \notin GameGhosts(fs) /\ f \notin playing
    PROVE  contact[f][x] = Nothing[x] /\ Silent(wire, f, x, 1, Len(wire))
<1>1. /\ ~Mentioned(f)
      /\ x # "game" => contact[f].status = "Offline"
      /\ x = "game" => contact[f].game = NoGame
  BY DEF Ghosts, GameGhosts
<1>2. Silent(wire, f, x, 1, Len(wire))
  BY <1>1 DEF Mentioned, Silent, Tells, Facets
<1>4. CASE x = "game"
  BY <1>1, <1>2, <1>4 DEF Nothing
<1>5. CASE x # "game"
  <2>1. contact[f].status = "Offline" /\ contact[f].sid = NoSid
    BY <1>1, <1>5 DEF Basic, Sane
  <2> QED  BY <1>2, <1>5, <2>1 DEF Nothing, Facets
<1> QED  BY <1>4, <1>5

\* f is among those who are described anew, from position o on.
LEMMA Redescribed ==
    ASSUME Basic, Grows, NEW f \in Friends, InOrder(f), Usable(f), NamedFirst(f),
           up', UNCHANGED <<session, away, plays, clanFriends, contact, known, deleted>>,
           NEW fs \in SUBSET Friends, f \in fs, NEW o \in Nat, Len(wire) < o,
           NEW e \in Nat, e = o + Len(About(fs)), e <= Len(wire'),
           \A i \in 1..Len(About(fs)) : wire'[o + i] = About(fs)[i],
           \A i \in (Len(wire) + 1)..o : ~Uses(wire'[i], f) /\ \A x \in Facets : ~Tells(wire'[i], f, x),
           \A i \in (e + 1)..Len(wire') :
              /\ ~Uses(wire'[i], f) /\ ~Names(wire'[i], f, clanFriends)
              /\ \A x \in Facets : ~Tells(wire'[i], f, x),
           \/ \E i \in (Len(wire) + 1)..o : Names(wire'[i], f, clanFriends)
           \/ Unwanted(f) /\ Len(wire) = 0,
           \A x \in Facets :
              /\ ~Excused(f, x)'
              /\ x # "game" => session[f] = 0
              /\ x = "game" => f \notin playing
              => contact[f][x] = Nothing[x] /\ Silent(wire, f, x, 1, Len(wire))
    PROVE  Agrees(f)'
<1> DEFINE a == About(fs)
<1>1. /\ Len(a) \in Nat /\ Len(wire) \in Nat /\ Len(wire') \in Nat /\ e = o + Len(a)
      /\ \A i \in 1..Len(wire) : wire'[i] = wire[i]
      /\ \A i \in 1..Len(a) : wire'[o + i] = a[i]
  BY AboutParts DEF Grows
<1>2. clanFriends \in BOOLEAN /\ clanFriends' = clanFriends /\ contact' = contact
      /\ (Ready(f)' <=> Ready(f)) /\ (Unwanted(f)' <=> Unwanted(f)) /\ Truth(f)' = Truth(f)
      /\ deleted' = deleted
  BY DEF Basic, Typed, Ready, Unwanted, Truth
<1>3. /\ \A j \in 1..Len(a) : Uses(a[j], f) => Introduced(wire', f, o, o + j)
      /\ \A x \in Facets :
           \/ LastWord(wire', f, x, o, Truth(f)[x])
           \/ /\ Silent(wire', f, x, o + 1, Len(wire')) /\ Truth(f)[x] = Nothing[x]
              /\ x # "game" => session[f] = 0
              /\ x = "game" => f \notin playing
  <2> DEFINE w == wire'
  <2>1. Len(w) \in Nat /\ o + Len(a) <= Len(w) /\ \A i \in 1..Len(a) : w[o + i] = a[i]
    BY <1>1
  <2>2. \A i \in (o + Len(a) + 1)..Len(w) : \A x \in Facets : ~Tells(w[i], f, x)
    BY <1>1
  <2> HIDE DEF w
  <2>3. /\ \A j \in 1..Len(a) : Uses(a[j], f) => Introduced(w, f, o, o + j)
        /\ \A x \in Facets :
             (\A i \in (o + Len(a) + 1)..Len(w) : ~Tells(w[i], f, x)) =>
                /\ f \in fs => \/ LastWord(w, f, x, o, Truth(f)[x])
                               \/ /\ Silent(w, f, x, o + 1, Len(w))
                                  /\ Truth(f)[x] = Nothing[x]
                                  /\ x \in {"sid", "status"} => session[f] = 0
                                  /\ x = "game" => f \notin playing
                /\ f \notin fs => Silent(w, f, x, o + 1, Len(w))
    BY <2>1, AboutWithin
  <2>4. ASSUME NEW x \in Facets
        PROVE  \/ LastWord(w, f, x, o, Truth(f)[x])
               \/ /\ Silent(w, f, x, o + 1, Len(w)) /\ Truth(f)[x] = Nothing[x]
                  /\ x # "game" => session[f] = 0
                  /\ x = "game" => f \notin playing
    <3>1. x # "game" => x \in {"sid", "status"}
      BY DEF Facets
    <3> QED  BY <2>2, <2>3, <3>1
  <2> QED  BY <2>3, <2>4 DEF w
\* Where things are.
<1>4. ASSUME NEW j \in 1..Len(wire')
      PROVE  \/ j \in 1..Len(wire) \/ j \in (Len(wire) + 1)..o \/ j \in (e + 1)..Len(wire')
             \/ \E i \in 1..Len(a) : j = o + i
  <2>1. CASE j \in (o + 1)..e
    <3>1. j - o \in 1..Len(a) /\ j = o + (j - o)
      BY <1>1, <2>1
    <3> QED  BY <3>1
  <2>2. Len(wire) \in Nat /\ Len(wire') \in Nat
    BY <1>1
  <2>3. \/ j \in 1..Len(wire) \/ j \in (Len(wire) + 1)..o \/ j \in (e + 1)..Len(wire')
        \/ j \in (o + 1)..e
    BY <2>2
  <2> QED  BY <2>1, <2>3
<1>5. ASSUME NEW i \in 1..Len(a)
      PROVE  ~Names(wire'[o + i], f, clanFriends)
  <2> DEFINE p == About(fs)[i]
  <2>2. p = About(fs)[i] /\ i \in 1..Len(About(fs))
    OBVIOUS
  <2> HIDE DEF p
  <2>3. \A c \in BOOLEAN : ~Names(p, f, c)
    BY <2>2, AboutSays
  <2>1. ~Names(a[i], f, clanFriends)
    BY <1>2, <2>3 DEF p
  <2> QED  BY <1>1, <2>1
<1>6. ASSUME NEW k \in 1..Len(wire'), Names(wire'[k], f, clanFriends)
      PROVE  k \in Nat /\ k <= o
  <2>1. k \in 1..Len(wire) \/ k \in (Len(wire) + 1)..o
    BY <1>4, <1>5, <1>6
  <2> QED  BY <1>1, <2>1
<1>7. ASSUME NEW j \in 1..Len(wire'), Uses(wire'[j], f)
      PROVE  \/ j \in 1..Len(wire) /\ Uses(wire[j], f)
             \/ \E i \in 1..Len(a) : j = o + i /\ Introduced(wire', f, o, j)
  <2>1. j \in 1..Len(wire) \/ \E i \in 1..Len(a) : j = o + i
    BY <1>4, <1>7
  <2> QED  BY <1>1, <1>3, <1>7, <2>1
<1>8. Follows(f)'
  <2> SUFFICES ASSUME NEW x \in Facets, ~Excused(f, x)'
               PROVE  FollowsNamed(f, x)' /\ FollowsReady(f, x)'
    BY DEF Follows
  <2> DEFINE v == Truth(f)[x]
  <2>1. CASE LastWord(wire', f, x, o, v)
    <3> HIDE DEF v
    <3>1. \A k \in Nat : k <= o => LastWord(wire', f, x, k, v)
      BY <1>1, <2>1, LastWordEarlier
    <3>2. LastWord(wire', f, x, 0, v)
      BY <1>1, <2>1, LastWordAnywhere
    <3> QED  BY <1>2, <1>6, <3>1, <3>2 DEF v, FollowsNamed, FollowsReady
  <2>2. CASE /\ Silent(wire', f, x, o + 1, Len(wire')) /\ v = Nothing[x]
             /\ x # "game" => session[f] = 0
             /\ x = "game" => f \notin playing
    <3>1. contact[f][x] = Nothing[x] /\ Silent(wire, f, x, 1, Len(wire))
      BY <2>2
    <3>2. Silent(wire', f, x, 1, Len(wire'))
      <4>1. ASSUME NEW i \in 1..Len(wire')
            PROVE  ~Tells(wire'[i], f, x)
        <5>1. i \in 1..Len(wire) \/ i \in (Len(wire) + 1)..o \/ i \in (o + 1)..Len(wire')
          BY <1>1
        <5> QED  BY <1>1, <2>2, <3>1, <5>1 DEF Silent
      <4> QED  BY <4>1 DEF Silent
    <3> QED  BY <1>2, <2>2, <3>1, <3>2 DEF FollowsNamed, FollowsReady
  <2> QED  BY <1>3, <2>1, <2>2
<1>9. InOrder(f)'
  <2> SUFFICES ASSUME NEW j \in 1..Len(wire'), Uses(wire'[j], f),
                      NEW k \in 1..(j - 1), Names(wire'[k], f, clanFriends)
               PROVE  Introduced(wire', f, k, j)
    BY <1>2 DEF InOrder
  <2>1. k \in 1..Len(wire') /\ k \in Nat /\ j \in Nat
    BY <1>1
  <2>2. CASE j \in 1..Len(wire) /\ Uses(wire[j], f)
    <3>1. Names(wire[k], f, clanFriends)
      <4>1. k \in 1..Len(wire)
        BY <1>1, <2>2
      <4> QED  BY <1>1, <4>1
    <3>2. Introduced(wire, f, k, j)
      BY <2>2, <3>1 DEF InOrder
    <3> QED  BY <2>1, <2>2, <3>2, IntroducedGrows
  <2>3. CASE Introduced(wire', f, o, j)
    <3>1. k <= o
      BY <1>6, <2>1
    <3> QED  BY <2>1, <2>3, <3>1, IntroducedEarlier
  <2> QED  BY <1>7, <2>2, <2>3
<1>10. Usable(f)'
  <2> SUFFICES ASSUME NEW j \in 1..Len(wire'), Uses(wire'[j], f), Ready(f)
               PROVE  Found(f, j)'
    BY <1>2 DEF Usable
  <2>1. CASE j \in 1..Len(wire) /\ Uses(wire[j], f)
    <3>1. Found(f, j)
      BY <2>1 DEF Usable
    <3>2. PICK i \in (Len(wire) + 1)..o : Names(wire'[i], f, clanFriends)
      BY <2>1
    <3>3. i \in (j + 1)..Len(wire')
      BY <1>1, <2>1, <3>2
    <3>4. Unwanted(f) => Found(f, j)'
      BY <1>2, <3>2, <3>3 DEF Found
    <3> QED  BY <1>2, <2>1, <3>1, <3>4, GrownFound
  <2>2. CASE Introduced(wire', f, o, j)
    <3>1. j \in Nat
      BY <1>1
    <3>2. Introduced(wire', f, 0, j)
      BY <2>2, <3>1, IntroducedAnywhere
    <3> QED  BY <3>2 DEF Found
  <2> QED  BY <1>7, <2>1, <2>2
<1>11. NamedFirst(f)'
  <2> SUFFICES ASSUME NEW j \in 1..Len(wire'), Uses(wire'[j], f)
               PROVE  \/ Ready(f) \/ f \in deleted \/ Unwanted(f)
                      \/ \E k \in 1..(j - 1) : Names(wire'[k], f, clanFriends)
    BY <1>2 DEF NamedFirst
  <2>1. CASE j \in 1..Len(wire) /\ Uses(wire[j], f)
    <3>1. \A k \in 1..(j - 1) : k \in 1..Len(wire)
      BY <1>1, <2>1
    <3>2. \A k \in 1..(j - 1) : wire'[k] = wire[k]
      BY <1>1, <3>1
    <3> QED  BY <2>1, <3>2 DEF NamedFirst
  <2>2. ASSUME NEW i \in 1..Len(a), j = o + i
        PROVE  Unwanted(f) \/ \E k \in 1..(j - 1) : Names(wire'[k], f, clanFriends)
    <3>1. \A k \in (Len(wire) + 1)..o : k \in 1..(j - 1)
      BY <1>1, <2>2
    <3> QED  BY <3>1
  <2> QED  BY <1>7, <2>1, <2>2
<1> QED  BY <1>8, <1>9, <1>10, <1>11 DEF Agrees

\* Nothing is said of f.
LEMMA KeptAgrees ==
    ASSUME Basic, Appear, Grows, NEW f \in Friends, Waits(f), Agrees(f),
           UNCHANGED <<session, away, plays>>,
           \A x \in Facets : Excused(f, x) => Excused(f, x)',
           \A i \in (Len(wire) + 1)..Len(wire') :
              /\ ~Uses(wire'[i], f) /\ ~Names(wire'[i], f, clanFriends)
              /\ \A x \in Facets : ~Tells(wire'[i], f, x)
    PROVE  Agrees(f)'
<1>1. Truth(f)' = Truth(f)
  BY DEF Truth
<1>2. \A x \in Facets : ~Adds(f, x)
  BY DEF Adds, Silent
<1>3. Follows(f)'
  <2>1. Follows(f)
    BY DEF Agrees
  <2>2. \A x \in Facets : ~Excused(f, x)' =>
           ~Adds(f, x) /\ Truth(f)'[x] = Truth(f)[x] /\ ~Excused(f, x)
    BY <1>1, <1>2
  <2>3. \A i \in (Len(wire) + 1)..Len(wire') : ~Names(wire'[i], f, clanFriends)
    OBVIOUS
  <2> QED  BY <2>1, <2>2, <2>3, GrownFollows
<1>4. InOrder(f)' /\ Usable(f)' /\ NamedFirst(f)'
  <2>1. \A i \in (Len(wire) + 1)..Len(wire') : ~Uses(wire'[i], f)
    OBVIOUS
  <2> QED  BY <2>1, GrownFinds
<1> QED  BY <1>3, <1>4 DEF Agrees

\* A wire that stays is one that grew by nothing.
LEMMA StillGrows ==
    ASSUME Basic, wire' = wire
    PROVE  Grows /\ \A i : i \notin (Len(wire) + 1)..Len(wire')
<1>1. Len(wire) \in Nat
  BY LenProperties DEF Basic, Typed
<1> QED  BY <1>1 DEF Grows

\* A new friend is listed and described in one go; what is known of others stays.
LEMMA BefriendedAgrees ==
    ASSUME Basic, Appear, NEW f \in Friends, MakesFriend(f), f \notin list,
           UNCHANGED <<session, away, plays, clanFriends, up, known, contact, deleted>>,
           NEW g \in Friends, Agrees(g)
    PROVE  Agrees(g)'
<1>1. /\ list' = list \cup {f}
      /\ ghosts' = (ghosts \ {f}) \cup Ghosts({f})
      /\ gameGhosts' = (gameGhosts \ {f}) \cup GameGhosts({f})
  BY DEF MakesFriend
<1>2. wire \in Seq(Packets) /\ clanFriends \in BOOLEAN
  BY DEF Basic, Typed
<1>3. CASE ~up
  <2>1. wire' = wire
    BY <1>3 DEF MakesFriend, Tell
  <2>2. Follows(g)'
    BY <1>3 DEF Follows
  <2>3. InOrder(g)' /\ NamedFirst(g)' /\ Usable(g)'
    <3>1. Ready(g)' <=> Ready(g)
      BY DEF Ready
    <3>2. \A j \in 1..Len(wire) : Found(g, j) => Found(g, j)'
      BY <1>3, <2>1 DEF Found, Unwanted, Introduced, Silent
    <3>3. InOrder(g)' /\ NamedFirst(g)'
      BY <2>1, <3>1 DEF Agrees, InOrder, NamedFirst, Introduced, Silent, Unwanted
    <3>4. Usable(g)'
      BY <2>1, <3>1, <3>2 DEF Agrees, Usable
    <3> QED  BY <3>3, <3>4
  <2> QED  BY <2>2, <2>3 DEF Agrees
<1>4. CASE up
  <2> DEFINE fs == {f}
             a == About(fs)
             o == Len(wire) + 1
  <2>1. /\ Len(wire) \in Nat /\ Len(a) \in Nat /\ Len(wire') = o + Len(a)
        /\ wire'[o] = Listed(fs) /\ \A i \in 1..Len(a) : wire'[o + i] = a[i]
    BY <1>4, MadeFriend
  <2>2. Grows
    BY <1>4, FriendGrows
  <2>3. /\ Listed(fs) \in Packets /\ Listed(fs).type = "friends"
        /\ Listed(fs).friends = fs
    BY PacketsMade DEF Listed
  <2>4. \A h \in Friends : ~Uses(wire'[o], h) /\ \A x \in Facets : ~Tells(wire'[o], h, x)
    BY <2>1, <2>3, ListTells
  <2>5. \A h : Names(wire'[o], h, clanFriends) <=> h = f
    BY <2>1, <2>3 DEF Names
  <2>6. CASE g = f
    <3> DEFINE e == o + Len(a)
    <3>1. /\ fs \in SUBSET Friends /\ f \in fs /\ o \in Nat /\ Len(wire) < o /\ e \in Nat
          /\ e <= Len(wire')
          /\ \A i \in (Len(wire) + 1)..o : i = o
          /\ o \in (Len(wire) + 1)..o
          /\ \A i : i \notin (e + 1)..Len(wire')
      BY <2>1
    <3>2. ASSUME NEW x \in Facets, ~Excused(f, x)',
                 x # "game" => session[f] = 0,
                 x = "game" => f \notin playing
          PROVE  contact[f][x] = Nothing[x] /\ Silent(wire, f, x, 1, Len(wire))
      <4>1. (x # "game" => f \notin Ghosts(fs)) /\ (x = "game" => f \notin GameGhosts(fs))
        BY <1>1, <3>2 DEF Excused
      <4> QED  BY <3>2, <4>1, NoGhost
    <3>3. InOrder(f) /\ Usable(f) /\ NamedFirst(f)
      BY <2>6 DEF Agrees
    <3>4. Names(wire'[o], f, clanFriends)
      BY <2>5
    <3>5. e = o + Len(About(fs)) /\ \A i \in 1..Len(About(fs)) : wire'[o + i] = About(fs)[i]
      BY <2>1
    <3>6. ~Uses(wire'[o], f) /\ \A x \in Facets : ~Tells(wire'[o], f, x)
      BY <2>4
    <3> HIDE DEF a, o, e, fs
    <3>7. Agrees(f)'
      <4>1. \A i \in (Len(wire) + 1)..o : ~Uses(wire'[i], f) /\ \A x \in Facets : ~Tells(wire'[i], f, x)
        BY <3>1, <3>6
      <4>2. \E i \in (Len(wire) + 1)..o : Names(wire'[i], f, clanFriends)
        BY <3>1, <3>4
      <4>3. \A i \in (e + 1)..Len(wire') :
              /\ ~Uses(wire'[i], f) /\ ~Names(wire'[i], f, clanFriends)
              /\ \A x \in Facets : ~Tells(wire'[i], f, x)
        BY <3>1
      <4>4. \A x \in Facets :
              /\ ~Excused(f, x)'
              /\ x # "game" => session[f] = 0
              /\ x = "game" => f \notin playing
              => contact[f][x] = Nothing[x] /\ Silent(wire, f, x, 1, Len(wire))
        BY <3>2
      <4> QED  BY <1>4, <2>2, <3>1, <3>3, <3>5, <4>1, <4>2, <4>3, <4>4, Redescribed
    <3> QED  BY <2>6, <3>7
  <2>7. CASE g # f
    <3>1. ASSUME NEW i \in (Len(wire) + 1)..Len(wire')
          PROVE  /\ ~Uses(wire'[i], g) /\ ~Names(wire'[i], g, clanFriends)
                 /\ \A x \in Facets : ~Tells(wire'[i], g, x)
      <4>1. CASE i = o
        BY <2>4, <2>5, <2>7, <4>1
      <4>2. CASE i # o
        <5> DEFINE l == i - o
        <5>1. l \in 1..Len(a) /\ o + l = i
          BY <2>1, <4>2
        <5>2. wire'[i] = a[l]
          BY <2>1, <5>1
        <5> HIDE DEF l
        <5>3. /\ ~Uses(a[l], g) /\ ~Names(a[l], g, clanFriends)
              /\ \A x \in Facets : ~Tells(a[l], g, x)
          <6>1. g \notin fs /\ fs \in SUBSET Friends
            BY <2>7
          <6> HIDE DEF fs
          <6> QED  BY <1>2, <5>1, <6>1, AboutSays
        <5> QED  BY <5>2, <5>3
      <4> QED  BY <4>1, <4>2
    <3>2. Waits(g)
      BY <1>1, <2>7 DEF Waits
    <3>3. \A x \in Facets : Excused(g, x) => Excused(g, x)'
      BY <1>1, <2>7 DEF Excused
    <3> HIDE DEF a, o, fs
    <3> QED  BY <2>2, <3>1, <3>2, <3>3, KeptAgrees
  <2> QED  BY <2>6, <2>7
<1> QED  BY <1>3, <1>4

\* A login describes every friend who is online, and who is not shows nothing or is excused.
LEMMA LoginAgrees ==
    ASSUME Basic, LogsIn, NEW f \in Friends, Agrees(f)
    PROVE  Agrees(f)'
<1> DEFINE fs == Told
           a == About(fs)
           o == 2
           e == o + Len(a)
<1>1. /\ up' /\ wire = <<>>
      /\ UNCHANGED <<list, session, away, plays, clanFriends, contact, known, deleted>>
      /\ ghosts' = Ghosts(Friends) /\ gameGhosts' = GameGhosts(Friends)
  BY DEF LogsIn, server, client
<1>2. /\ Len(a) \in Nat /\ Len(wire') = Len(a) + 3
      /\ wire'[1] = Listed(list) /\ wire'[2] = ClanListed
      /\ \A i \in 1..Len(a) : wire'[i + 2] = a[i]
      /\ wire'[Len(a) + 3] = Invitations(pending)
  BY LoggedIn
<1>3. /\ list \in SUBSET Friends /\ pending \in SUBSET Friends /\ clanFriends \in BOOLEAN
      /\ fs \in SUBSET Friends /\ Len(wire) = 0
  BY <1>1 DEF Basic, Typed, Told
<1>9. /\ Listed(list) \in Packets /\ ClanListed \in Packets /\ Invitations(pending) \in Packets
      /\ Listed(list).type = "friends" /\ Listed(list).friends = list
      /\ ClanListed.type = "clan" /\ ClanListed.friends = Clan
      /\ Invitations(pending).type = "invitations"
  BY <1>3, PacketsMade DEF Listed, ClanListed, Invitations
<1>4. /\ \A i \in {1, 2, Len(a) + 3} :
            wire'[i] \in Packets /\ wire'[i].type \in {"friends", "clan", "invitations"}
      /\ Names(wire'[1], f, clanFriends) <=> f \in list
      /\ Names(wire'[2], f, clanFriends) <=> f \in Clan /\ clanFriends
      /\ ~Names(wire'[Len(a) + 3], f, clanFriends)
  <2>1. /\ Names(wire'[1], f, clanFriends) <=> f \in list
        /\ Names(wire'[2], f, clanFriends) <=> f \in Clan /\ clanFriends
        /\ ~Names(wire'[Len(a) + 3], f, clanFriends)
    BY <1>2, <1>9 DEF Names
  <2> QED  BY <1>2, <1>9, <2>1
<1>5. \A i \in {1, 2, Len(a) + 3} : ~Uses(wire'[i], f) /\ \A x \in Facets : ~Tells(wire'[i], f, x)
  BY <1>4, ListTells
<1>6. Grows
  BY <1>2, <1>3 DEF Grows
<1>7. CASE f \in fs
  <2>1. /\ o \in Nat /\ Len(wire) < o /\ e \in Nat /\ e <= Len(wire')
        /\ \A i \in (Len(wire) + 1)..o : i \in {1, 2}
        /\ \A i \in (e + 1)..Len(wire') : i = Len(a) + 3
        /\ 1 \in (Len(wire) + 1)..o /\ 2 \in (Len(wire) + 1)..o
    BY <1>2, <1>3
  <2>2. \A i \in 1..Len(a) : wire'[o + i] = a[i]
    <3>1. \A i \in 1..Len(a) : o + i = i + 2
      OBVIOUS
    <3> QED  BY <1>2, <3>1
  <2>3. \/ \E i \in (Len(wire) + 1)..o : Names(wire'[i], f, clanFriends)
        \/ Unwanted(f) /\ Len(wire) = 0
    BY <1>3, <1>4, <1>7, <2>1 DEF Told, Unwanted
  <2>4. ASSUME NEW x \in Facets, ~Excused(f, x)',
               x # "game" => session[f] = 0,
               x = "game" => f \notin playing
        PROVE  contact[f][x] = Nothing[x] /\ Silent(wire, f, x, 1, Len(wire))
    <3>1. (x # "game" => f \notin Ghosts(Friends)) /\ (x = "game" => f \notin GameGhosts(Friends))
      BY <1>1, <2>4 DEF Excused
    <3> QED  BY <2>4, <3>1, NoGhost
  <2>5. InOrder(f) /\ Usable(f) /\ NamedFirst(f)
    BY DEF Agrees
  <2>6. e = o + Len(About(fs)) /\ \A i \in 1..Len(About(fs)) : wire'[o + i] = About(fs)[i]
    BY <2>2
  <2>7. \A i \in (Len(wire) + 1)..o : ~Uses(wire'[i], f) /\ \A x \in Facets : ~Tells(wire'[i], f, x)
    BY <1>5, <2>1
  <2>8. \A i \in (e + 1)..Len(wire') :
          /\ ~Uses(wire'[i], f) /\ ~Names(wire'[i], f, clanFriends)
          /\ \A x \in Facets : ~Tells(wire'[i], f, x)
    BY <1>4, <1>5, <2>1
  <2>9. \A x \in Facets :
          /\ ~Excused(f, x)'
          /\ x # "game" => session[f] = 0
          /\ x = "game" => f \notin playing
          => contact[f][x] = Nothing[x] /\ Silent(wire, f, x, 1, Len(wire))
    BY <2>4
  <2> HIDE DEF a, o, e, fs
  <2> QED  BY <1>1, <1>3, <1>6, <1>7, <2>1, <2>3, <2>5, <2>6, <2>7, <2>8, <2>9, Redescribed
<1>8. CASE f \notin fs
  <2>1. f \notin Told'
    BY <1>1, <1>8 DEF Told
  <2>2. ASSUME NEW j \in 1..Len(wire')
        PROVE  ~Uses(wire'[j], f)
    <3>1. CASE j \in {1, 2, Len(a) + 3}
      BY <1>5, <3>1
    <3>2. CASE j \notin {1, 2, Len(a) + 3}
      <4> DEFINE l == j - 2
      <4>1. l \in 1..Len(a) /\ l + 2 = j
        BY <1>2, <3>2
      <4>2. wire'[j] = a[l]
        BY <1>2, <4>1
      <4> HIDE DEF l
      <4>3. ~Uses(a[l], f)
        <5> HIDE DEF fs
        <5> QED  BY <1>3, <1>8, <4>1, AboutSays
      <4> QED  BY <4>2, <4>3
    <3> QED  BY <3>1, <3>2
  <2> QED  BY <2>1, <2>2 DEF Agrees, Follows, InOrder, Usable, NamedFirst
<1> QED  BY <1>7, <1>8

\* Without a connection nothing is promised of what is shown, and the packets that are still
\* handled are the first ones, in order.
LEMMA DisconnectAgrees ==
    ASSUME Basic, Disconnects, NEW f \in Friends, Agrees(f)
    PROVE  Agrees(f)'
<1>1. UNCHANGED <<list, clanFriends, contact, known, deleted>> /\ ~up'
  BY DEF Disconnects, server, client
<1>2. wire \in Seq(Packets) /\ Len(wire) \in Nat
  BY LenProperties DEF Basic, Typed
<1>3. PICK n \in 0..Len(wire) : wire' = SubSeq(wire, 1, n)
  BY DEF Disconnects
<1>4. Len(wire') = n /\ \A i \in 1..n : wire'[i] = wire[i] /\ i \in 1..Len(wire)
  BY <1>2, <1>3, SubSeqProperties
<1>5. \A j \in 1..n : \A k \in 1..(j - 1) : k \in 1..n
  BY <1>2
<1>6. ASSUME NEW j \in 1..n, NEW k \in Nat
      PROVE  Introduced(wire, f, k, j) => Introduced(wire', f, k, j)
  <2>1. \A i \in (k + 1)..(j - 1) : i \in 1..n /\ \A l \in (i + 1)..(j - 1) : l \in 1..n
    OBVIOUS
  <2> QED  BY <1>4, <2>1 DEF Introduced, Silent
<1>7. (Ready(f)' <=> Ready(f)) /\ (Unwanted(f)' <=> Unwanted(f))
  BY <1>1 DEF Ready, Unwanted
<1>8. Follows(f)'
  BY <1>1 DEF Follows
<1>9. InOrder(f)'
  <2> SUFFICES ASSUME NEW j \in 1..n, Uses(wire'[j], f), NEW k \in 1..(j - 1),
                      Names(wire'[k], f, clanFriends)
               PROVE  Introduced(wire', f, k, j)
    BY <1>1, <1>4 DEF InOrder
  <2>1. k \in 1..n /\ k \in Nat
    BY <1>5
  <2>2. Introduced(wire, f, k, j)
    BY <1>4, <2>1 DEF Agrees, InOrder
  <2> QED  BY <1>6, <2>1, <2>2
<1>10. Usable(f)'
  <2> SUFFICES ASSUME NEW j \in 1..n, Uses(wire'[j], f), Ready(f)
               PROVE  Found(f, j)'
    BY <1>4, <1>7 DEF Usable
  <2>1. Found(f, j)
    BY <1>4 DEF Agrees, Usable
  <2>2. CASE Introduced(wire, f, 0, j)
    <3>1. Introduced(wire', f, 0, j)
      BY <1>6, <2>2
    <3> QED  BY <3>1 DEF Found
  <2>3. CASE Silent(wire, f, "sid", 1, j - 1) /\ contact[f].sid = wire[j].sid
    <3>1. Silent(wire', f, "sid", 1, j - 1)
      BY <1>4, <1>5, <2>3 DEF Silent
    <3> QED  BY <1>1, <1>4, <2>3, <3>1 DEF Found
  <2>4. CASE Unwanted(f)
    BY <1>1, <1>7, <2>4 DEF Found
  <2> QED  BY <2>1, <2>2, <2>3, <2>4 DEF Found
<1>11. NamedFirst(f)'
  <2> SUFFICES ASSUME NEW j \in 1..n, Uses(wire'[j], f)
               PROVE  \/ Ready(f) \/ f \in deleted \/ Unwanted(f)
                      \/ \E k \in 1..(j - 1) : Names(wire'[k], f, clanFriends)
    BY <1>1, <1>4, <1>7 DEF NamedFirst
  <2>1. \/ Ready(f) \/ f \in deleted \/ Unwanted(f)
        \/ \E k \in 1..(j - 1) : Names(wire[k], f, clanFriends)
    BY <1>4 DEF Agrees, NamedFirst
  <2> QED  BY <1>4, <1>5, <2>1
<1> QED  BY <1>8, <1>9, <1>10, <1>11 DEF Agrees

\* An invitation creates a contact with the id found in memory; if he is in the list, the
\* packet with the list is still to be handled.
LEMMA InviteAgrees ==
    ASSUME Basic, Appear, ~mistaken, NEW f \in Friends, Invite(f), NEW g \in Friends, Agrees(g)
    PROVE  Agrees(g)'
<1>1. /\ UNCHANGED <<list, session, away, plays, wire, up, clanFriends, deleted, ghosts, gameGhosts>>
      /\ f \notin known /\ known' = known \cup {f} /\ up
  BY DEF Invite, Acts, server
<1>2. PICK garbage \in Ids : contact' = [contact EXCEPT ![f] = Fresh(garbage)]
  BY DEF Invite, Ids
<1>3. contact \in [Friends -> Contacts] /\ Len(wire) \in Nat
  BY LenProperties DEF Basic, Typed
<1>4. CASE g # f
  <2>1. Waits(g)
    BY <1>1, <1>2, <1>3, <1>4 DEF Waits
  <2>2. \A x \in Facets : Excused(g, x) => Excused(g, x)'
    BY <1>1 DEF Excused
  <2> QED  BY <1>1, <2>1, <2>2, StillGrows, KeptAgrees
<1>5. CASE g = f
  <2>1. Fresh(garbage).sid = NoSid /\ Fresh(garbage).status = "Offline" /\ Fresh(garbage).game = NoGame
    BY FreshContact
  <2>2. contact'[f] = Fresh(garbage)
    BY <1>2, <1>3
  <2>3. contact[f].sid = NoSid /\ contact[f].status = "Offline" /\ contact[f].game = NoGame
    BY <1>1 DEF Basic, Sane
  <2>4. \A x \in Facets : contact'[f][x] = contact[f][x]
    BY <2>1, <2>2, <2>3 DEF Facets
  <2>5. ~Ready(f) /\ (Unwanted(f)' <=> Unwanted(f)) /\ (f \in Shown' <=> f \in Shown)
    BY <1>1 DEF Ready, Unwanted, Shown
  <2>6. InOrder(f)'
    BY <1>1, <1>5 DEF Agrees, InOrder
  <2>7. NamedFirst(f)'
    BY <1>1, <1>5, <2>5 DEF Agrees, NamedFirst
  <2>8. Usable(f)'
    <3> SUFFICES ASSUME NEW j \in 1..Len(wire), Uses(wire[j], f), Ready(f)'
                 PROVE  Found(f, j)'
      BY <1>1 DEF Usable
    <3>1. Unwanted(f) \/ \E k \in 1..(j - 1) : Names(wire[k], f, clanFriends)
      BY <1>1, <1>5, <2>5 DEF Agrees, NamedFirst, Ready
    <3>3. ASSUME NEW k \in 1..(j - 1), Names(wire[k], f, clanFriends)
          PROVE  Found(f, j)'
      <4>1. Introduced(wire, f, k, j)
        BY <1>5, <3>3 DEF Agrees, InOrder
      <4>2. k \in Nat /\ j \in Nat
        BY <1>3
      <4>3. Introduced(wire, f, 0, j)
        BY <4>1, <4>2, IntroducedAnywhere
      <4> QED  BY <1>1, <4>3 DEF Found
    <3>4. CASE Unwanted(f) /\ f \notin list
      BY <1>1, <2>5, <3>4 DEF Found
    <3>5. CASE Unwanted(f) /\ f \in list
      <4>1. PICK k \in 1..Len(wire) : Names(wire[k], f, clanFriends)
        BY <1>1, <3>5 DEF Appear, Coming
      <4>2. CASE k \in 1..(j - 1)
        BY <3>3, <4>1, <4>2
      <4>3. CASE k \in (j + 1)..Len(wire)
        BY <1>1, <2>5, <3>5, <4>1, <4>3 DEF Found
      <4>4. k # j
        BY <4>1 DEF Uses, Names
      <4> QED  BY <1>3, <4>2, <4>3, <4>4
    <3> QED  BY <3>1, <3>3, <3>4, <3>5
  <2>9. Follows(f)'
    <3> SUFFICES ASSUME up', f \in Told', NEW x \in Facets, ~Excused(f, x)'
                 PROVE  FollowsNamed(f, x)' /\ FollowsReady(f, x)'
      BY DEF Follows
    <3>1. up /\ f \in Told /\ ~Excused(f, x) /\ Truth(f)' = Truth(f)
      BY <1>1 DEF Told, Excused, Truth
    <3>2. FollowsNamed(f, x)
      BY <1>5, <3>1 DEF Agrees, Follows
    <3>3. FollowsNamed(f, x)'
      BY <1>1, <2>4, <3>1, <3>2 DEF FollowsNamed
    <3>4. FollowsReady(f, x)'
      <4> DEFINE v == Truth(f)[x]
      <4> SUFFICES ASSUME Ready(f)', f \in Shown
                   PROVE  \/ LastWord(wire, f, x, 0, v)
                          \/ Silent(wire, f, x, 1, Len(wire)) /\ contact'[f][x] = v
        BY <1>1, <2>5, <3>1 DEF FollowsReady
      <4>1. PICK k \in 1..Len(wire) : Names(wire[k], f, clanFriends)
        BY <1>1, <2>5, <3>1 DEF Appear, Ready, Coming
      <4>2. CASE LastWord(wire, f, x, k, v)
        <5> HIDE DEF v
        <5>1. k \in Nat
          OBVIOUS
        <5> QED  BY <1>3, <4>2, <5>1, LastWordAnywhere
      <4>3. CASE /\ Silent(wire, f, x, 1, Len(wire))
                 /\ contact[f][x] = Nothing[x] /\ v = Nothing[x]
        BY <2>4, <4>3
      <4> QED  BY <3>2, <4>1, <4>2, <4>3 DEF FollowsNamed
    <3> QED  BY <3>3, <3>4
  <2> QED  BY <1>5, <2>6, <2>7, <2>8, <2>9 DEF Agrees
<1> QED  BY <1>4, <1>5

\* Of a deleted contact nothing is promised.
LEMMA DeleteAgrees ==
    ASSUME Basic, Appear, NEW f \in Friends, DeleteContact(f), ~mistaken',
           NEW g \in Friends, Agrees(g)
    PROVE  Agrees(g)'
<1>1. /\ UNCHANGED <<session, away, plays, wire, up, clanFriends, ghosts, gameGhosts>>
      /\ known' = known \ {f} /\ deleted' = deleted \cup {f} /\ list' = list \ {f}
      /\ contact' = [contact EXCEPT ![f] = Fresh(NoId)]
  BY DEF DeleteContact, SendFriendRemoval
<1>2. contact \in [Friends -> Contacts]
  BY DEF Basic, Typed
<1>3. CASE g # f
  <2>1. Waits(g)
    BY <1>1, <1>2, <1>3 DEF Waits
  <2>2. \A x \in Facets : Excused(g, x) => Excused(g, x)'
    BY <1>1 DEF Excused
  <2> QED  BY <1>1, <2>1, <2>2, StillGrows, KeptAgrees
<1>4. CASE g = f
  <2>1. \A x \in Facets : contact'[f][x] = Nothing[x]
    <3>1. NoId \in Ids
      BY DEF Ids
    <3>2. contact'[f] = Fresh(NoId)
      BY <1>1, <1>2
    <3>3. /\ Fresh(NoId).sid = NoSid /\ Fresh(NoId).status = "Offline"
          /\ Fresh(NoId).game = NoGame
      BY <3>1, FreshContact
    <3>4. Nothing.sid = NoSid /\ Nothing.status = "Offline" /\ Nothing.game = NoGame
      BY DEF Nothing
    <3>5. \A x \in Facets : Fresh(NoId)[x] = Nothing[x]
      BY <3>3, <3>4 DEF Facets
    <3> QED  BY <3>2, <3>5
  <2>2. ~Ready(f)' /\ f \in deleted'
    BY <1>1 DEF Ready
  <2>3. InOrder(f)' /\ Usable(f)' /\ NamedFirst(f)'
    BY <1>1, <1>4, <2>2 DEF Agrees, InOrder, Usable, NamedFirst
  <2>4. Follows(f)'
    <3> SUFFICES ASSUME up', f \in Told', NEW x \in Facets, ~Excused(f, x)'
                 PROVE  FollowsNamed(f, x)' /\ FollowsReady(f, x)'
      BY DEF Follows
    <3>1. up /\ f \in Told /\ ~Excused(f, x) /\ Truth(f)' = Truth(f)
      BY <1>1 DEF Told, Excused, Truth
    <3>2. FollowsNamed(f, x)
      BY <1>4, <3>1 DEF Agrees, Follows
    <3> QED  BY <1>1, <2>1, <2>2, <3>1, <3>2 DEF FollowsNamed, FollowsReady
  <2> QED  BY <1>4, <2>3, <2>4 DEF Agrees
<1> QED  BY <1>3, <1>4

\* Accepting makes a friend, if connected; refusing shows nothing.
LEMMA AnswerAgrees ==
    ASSUME Basic, Appear, NEW f \in Friends, Answer(f), NEW g \in Friends, Agrees(g)
    PROVE  Agrees(g)'
<1>1. UNCHANGED <<session, away, plays, up, clanFriends, known, contact, deleted>>
  BY DEF Answer
<1>2. CASE MakesFriend(f) /\ f \in pending
  <2>1. f \notin list
    BY <1>2 DEF Basic, Typed
  <2> QED  BY <1>1, <1>2, <2>1, BefriendedAgrees
<1>3. CASE UNCHANGED <<list, wire, ghosts, gameGhosts>>
  <2>1. Waits(g)
    BY <1>1, <1>3 DEF Waits
  <2>2. \A x \in Facets : Excused(g, x) => Excused(g, x)'
    BY <1>3 DEF Excused
  <2> QED  BY <1>1, <1>3, <2>1, <2>2, StillGrows, KeptAgrees
<1> QED  BY <1>2, <1>3 DEF Answer, SendFriendInvitationResponse, ServerAccepts

\* The server says p of f, if it tells of him at all.
LEMMA PresenceAgrees ==
    ASSUME Basic, Appear, UNCHANGED <<list, clanFriends, up, known, contact, deleted>>,
           NEW f \in Friends, NEW p \in Packets,
           IF f \in Told THEN Tell(<< p >>) ELSE UNCHANGED wire,
           p.type \in {"sid", "status", "game", "im"},
           \A h \in Friends : h # f => ~Uses(p, h) /\ \A x \in Facets : ~Tells(p, h, x),
           Uses(p, f) => session[f] # 0 /\ p.sid = Sid(f, session[f]),
           \A x \in Facets : ~Excused(f, x)' =>
              IF Tells(p, f, x) THEN Said(p, x) = Truth(f)'[x]
              ELSE Truth(f)'[x] = Truth(f)[x] /\ ~Excused(f, x),
           \A h \in Friends : h # f =>
              Truth(h)' = Truth(h) /\ \A x \in Facets : Excused(h, x) => Excused(h, x)',
           NEW g \in Friends, Agrees(g)
    PROVE  Agrees(g)'
<1>1. wire \in Seq(Packets) /\ Len(wire) \in Nat
  BY LenProperties DEF Basic, Typed
<1>2. Waits(g) /\ Follows(g)
  BY DEF Waits, Agrees
<1>3. CASE wire' = wire /\ (~up \/ f \notin Told)
  <2>1. Grows /\ \A i : i \notin (Len(wire) + 1)..Len(wire')
    BY <1>3, StillGrows
  <2>2. \A x : ~Adds(g, x)
    BY <2>1 DEF Adds, Silent
  <2>3. up /\ g \in Told => \A x \in Facets : ~Excused(g, x)' =>
           ~Adds(g, x) /\ Truth(g)'[x] = Truth(g)[x] /\ ~Excused(g, x)
    BY <1>3, <2>2
  <2>4. Follows(g)'
    BY <1>2, <2>1, <2>3, GrownFollows
  <2>5. InOrder(g)' /\ Usable(g)' /\ NamedFirst(g)'
    BY <1>2, <2>1, GrownFinds
  <2> QED  BY <2>4, <2>5 DEF Agrees
<1>4. CASE up /\ f \in Told
  <2> DEFINE n == Len(wire) + 1
  <2>1. Grows /\ Len(wire') = n /\ wire'[n] = p /\ n \in Nat
    BY <1>1, <1>4, SaidOne
  <2>2. \A i \in n..Len(wire') : i = n /\ wire'[i] = p
    BY <2>1
  <2>3. \A i \in n..Len(wire') : ~Names(wire'[i], g, clanFriends)
    BY <2>2 DEF Names
  <2>4. ASSUME NEW x \in Facets, ~Tells(p, g, x)
        PROVE  ~Adds(g, x)
    BY <2>2, <2>4 DEF Adds, Silent
  <2>5. ASSUME NEW x \in Facets, ~Excused(g, x)'
        PROVE  \/ ~Adds(g, x) /\ Truth(g)'[x] = Truth(g)[x] /\ ~Excused(g, x)
               \/ \A k \in Nat : k <= Len(wire) => LastWord(wire', g, x, k, Truth(g)'[x])
    <3>1. CASE Tells(p, g, x)
      <4>1. g = f /\ Said(p, x) = Truth(g)'[x]
        BY <2>5, <3>1
      <4>2. Tells(wire'[Len(wire) + 1], g, x) /\ Len(wire') = Len(wire) + 1
            /\ wire'[Len(wire) + 1] = p
        BY <2>1, <3>1
      <4>3. \A k \in Nat : k <= Len(wire) => LastWord(wire', g, x, k, Said(wire'[Len(wire) + 1], x))
        BY <2>1, <4>2, NewWord
      <4> QED  BY <4>1, <4>2, <4>3
    <3>2. CASE ~Tells(p, g, x)
      <4>1. Truth(g)'[x] = Truth(g)[x] /\ ~Excused(g, x)
        BY <2>5, <3>2
      <4> QED  BY <2>4, <3>2, <4>1
    <3> QED  BY <3>1, <3>2
  <2>6. Follows(g)'
    BY <1>2, <2>1, <2>3, <2>5, GrownFollows
  <2>7. ASSUME NEW i \in n..Len(wire'), Uses(wire'[i], g)
        PROVE  /\ up /\ i = Len(wire) + 1 /\ Len(wire') = Len(wire) + 1
               /\ g \in Told /\ session[g] # 0 /\ wire'[i].sid = Sid(g, session[g])
    <3>1. i = n /\ wire'[i] = p
      BY <2>2
    <3>2. g = f
      BY <2>7, <3>1
    <3> QED  BY <1>4, <2>1, <2>7, <3>1, <3>2
  <2>8. InOrder(g)' /\ Usable(g)' /\ NamedFirst(g)'
    BY <1>2, <2>1, <2>7, GrownFinds
  <2> QED  BY <2>6, <2>8 DEF Agrees
<1> QED  BY <1>3, <1>4 DEF Tell

\* Whatever friends do, the server tells it, behind what it told before.
LEMMA EnvironmentAgrees ==
    ASSUME Basic, Appear, NEW f \in Friends, Environment(f), NEW g \in Friends, Agrees(g)
    PROVE  Agrees(g)'
<1>1. UNCHANGED <<clanFriends, up, known, contact, deleted>>
  BY DEF Environment, Befriend, Invites, ComesOnline, GoesOffline, ChangesStatus, ChangesGame,
         Writes, Elsewhere, client
<1>2. /\ session[f] \in 0..MaxEvents /\ sessions[f] \in 0..MaxEvents
      /\ events \in Nat /\ sessions[f] <= events /\ events < MaxEvents
      /\ session \in [Friends -> 0..MaxEvents]
      /\ f \in away \cup playing => session[f] # 0
      /\ f \in ghosts => session[f] = 0
  BY DEF Environment, Befriend, Invites, ComesOnline, GoesOffline, ChangesStatus, ChangesGame,
         Writes, FriendActs, Basic, Typed, Counted, Sane, Online
<1>3. CASE Befriend(f)
  BY <1>1, <1>3, BefriendedAgrees DEF Befriend
<1>4. CASE Invites(f)
  <2>1. UNCHANGED <<list, session, away, plays, ghosts, gameGhosts>> /\ Tell(<< Invitations({f}) >>)
    BY <1>4 DEF Invites
  <2>2. Invitations({f}) \in Packets /\ Invitations({f}).type = "invitations"
    BY PacketsMade DEF Invitations
  <2>3. Waits(g) /\ \A x \in Facets : Excused(g, x) => Excused(g, x)'
    BY <1>1, <2>1 DEF Waits, Excused
  <2>4. CASE up
    <3> DEFINE p == Invitations({f})
    <3>1. wire \in Seq(Packets) /\ Len(wire) \in Nat
      BY LenProperties DEF Basic, Typed
    <3>2. Grows /\ Len(wire') = Len(wire) + 1 /\ wire'[Len(wire) + 1] = p
      BY <2>1, <2>2, <2>4, <3>1, SaidOne
    <3>3. ~Uses(p, g) /\ ~Names(p, g, clanFriends) /\ \A x \in Facets : ~Tells(p, g, x)
      BY <2>2, ListTells DEF Names
    <3> HIDE DEF p
    <3>4. \A i \in (Len(wire) + 1)..Len(wire') :
              /\ ~Uses(wire'[i], g) /\ ~Names(wire'[i], g, clanFriends)
              /\ \A x \in Facets : ~Tells(wire'[i], g, x)
      <4>1. \A i \in (Len(wire) + 1)..Len(wire') : i = Len(wire) + 1
        BY <3>1, <3>2
      <4> QED  BY <3>2, <3>3, <4>1
    <3> QED  BY <2>1, <2>3, <3>2, <3>4, KeptAgrees
  <2>5. CASE ~up
    <3>1. wire' = wire
      BY <2>1, <2>5 DEF Tell
    <3> QED  BY <2>1, <2>3, <3>1, StillGrows, KeptAgrees
  <2> QED  BY <2>4, <2>5
<1>5. CASE ComesOnline(f)
  <2> DEFINE n == sessions[f] + 1
             p == Session(f, n)
  <2>1. /\ n \in 0..MaxEvents /\ n # 0 /\ session' = [session EXCEPT ![f] = n]
        /\ UNCHANGED <<list, away, plays, gameGhosts>> /\ ghosts' = ghosts \ {f}
        /\ IF f \in Told THEN Tell(<< p >>) ELSE UNCHANGED wire
        /\ f \notin away
    BY <1>2, <1>5 DEF ComesOnline
  <2> HIDE DEF n
  <2>2. /\ \A h \in Friends, x \in Facets : Tells(p, h, x) <=> h = f /\ x \in {"sid", "status"}
        /\ Said(p, "sid") = Sid(f, n) /\ p.type = "sid"
        /\ Said(p, "status") = "Online"
        /\ \A h \in Friends : ~Uses(p, h)
    BY <2>1, SessionTells
  <2>3. p \in Packets
    BY <2>1, PacketsMade
  <2>4. ASSUME NEW x \in Facets, ~Excused(f, x)'
        PROVE  IF Tells(p, f, x) THEN Said(p, x) = Truth(f)'[x]
               ELSE Truth(f)'[x] = Truth(f)[x] /\ ~Excused(f, x)
    <3>1. session'[f] = n
      BY <1>2, <2>1
    <3>2. CASE x = "sid"
      BY <2>1, <2>2, <3>1, <3>2 DEF Truth
    <3>3. CASE x = "status"
      BY <2>1, <2>2, <3>1, <3>3 DEF Truth
    <3>4. CASE x = "game"
      BY <2>1, <2>2, <2>4, <3>4 DEF Truth, Excused
    <3> QED  BY <3>2, <3>3, <3>4 DEF Facets
  <2>5. ASSUME NEW h \in Friends, h # f
        PROVE  Truth(h)' = Truth(h) /\ \A x \in Facets : Excused(h, x) => Excused(h, x)'
    <3>1. session'[h] = session[h]
      BY <1>2, <2>1, <2>5
    <3> QED  BY <2>1, <2>5, <3>1 DEF Truth, Excused
  <2>6. p.type \in {"sid", "status", "game", "im"}
        /\ \A h \in Friends : h # f => ~Uses(p, h) /\ \A x \in Facets : ~Tells(p, h, x)
    BY <2>2
  <2>7. ~Uses(p, f)
    BY <2>2
  <2> HIDE DEF p
  <2> QED  BY <1>1, <2>1, <2>3, <2>4, <2>5, <2>6, <2>7, PresenceAgrees
<1>6. CASE GoesOffline(f)
  <2> DEFINE n == 0
             p == Session(f, n)
  <2>1. /\ session' = [session EXCEPT ![f] = n] /\ n = 0 /\ n \in 0..MaxEvents
        /\ UNCHANGED <<list, ghosts>> /\ away' = away \ {f}
        /\ plays' = [plays EXCEPT ![f] = NoGame]
        /\ gameGhosts' = IF f \in playing THEN gameGhosts \cup {f} ELSE gameGhosts
        /\ IF f \in Told THEN Tell(<< p >>) ELSE UNCHANGED wire
    BY <1>6 DEF GoesOffline
  <2> HIDE DEF n
  <2>2. /\ \A h \in Friends, x \in Facets : Tells(p, h, x) <=> h = f /\ x \in {"sid", "status"}
        /\ Said(p, "sid") = Sid(f, n) /\ p.type = "sid"
        /\ Said(p, "status") = "Offline"
        /\ \A h \in Friends : ~Uses(p, h)
    BY <2>1, SessionTells
  <2>3. p \in Packets
    BY <2>1, PacketsMade
  <2>4. ASSUME NEW x \in Facets, ~Excused(f, x)'
        PROVE  IF Tells(p, f, x) THEN Said(p, x) = Truth(f)'[x]
               ELSE Truth(f)'[x] = Truth(f)[x] /\ ~Excused(f, x)
    <3>1. session'[f] = n
      BY <1>2, <2>1
    <3>2. CASE x = "sid"
      BY <2>1, <2>2, <3>1, <3>2 DEF Truth
    <3>3. CASE x = "status"
      BY <2>1, <2>2, <3>1, <3>3 DEF Truth
    <3>4. CASE x = "game"
      <4>1. f \notin playing /\ ~Excused(f, x) /\ ~Tells(p, f, x)
        BY <2>1, <2>2, <2>4, <3>4 DEF Excused
      <4>2. plays[f] = NoGame /\ plays'[f] = plays[f]
        BY <2>1, <4>1, Players DEF Basic
      <4> QED  BY <3>4, <4>1, <4>2 DEF Truth
    <3> QED  BY <3>2, <3>3, <3>4 DEF Facets
  <2>5. ASSUME NEW h \in Friends, h # f
        PROVE  Truth(h)' = Truth(h) /\ \A x \in Facets : Excused(h, x) => Excused(h, x)'
    <3>1. session'[h] = session[h]
      BY <1>2, <2>1, <2>5
    <3>2. (h \in away' <=> h \in away) /\ plays'[h] = plays[h]
      BY <2>1, <2>5, Players DEF Basic
    <3>3. Truth(h)' = Truth(h)
      BY <3>1, <3>2 DEF Truth
    <3> QED  BY <2>1, <2>5, <3>3 DEF Excused
  <2>6. p.type \in {"sid", "status", "game", "im"}
        /\ \A h \in Friends : h # f => ~Uses(p, h) /\ \A x \in Facets : ~Tells(p, h, x)
    BY <2>2
  <2>7. ~Uses(p, f)
    BY <2>2
  <2> HIDE DEF p
  <2> QED  BY <1>1, <2>1, <2>3, <2>4, <2>5, <2>6, <2>7, PresenceAgrees
<1>7. CASE ChangesStatus(f)
  <2> DEFINE b == f \notin away
             p == StatusMsg(f, session[f], b)
  <2>1. /\ session[f] \in 1..MaxEvents /\ b \in BOOLEAN
        /\ UNCHANGED <<list, session, plays, ghosts, gameGhosts>>
        /\ away' = IF f \in away THEN away \ {f} ELSE away \cup {f}
        /\ IF f \in Told THEN Tell(<< p >>) ELSE UNCHANGED wire
    BY <1>2, <1>7 DEF ChangesStatus
  <2>2. p.type = "status" /\ p.sid = Sid(f, session[f]) /\ p.afk = b
    BY DEF StatusMsg
  <2>3. p \in Packets
    BY <2>1, PacketsMade
  <2>8. f \in away' <=> b
    BY <2>1
  <2> HIDE DEF p, b
  <2>4. /\ \A h \in Friends, x \in Facets : Tells(p, h, x) <=> h = f /\ x = "status"
        /\ Said(p, "status") = IF p.afk THEN "Away" ELSE "Online"
        /\ \A h \in Friends : Uses(p, h) <=> h = f
    BY <2>1, <2>2, StatusTells
  <2>5. ASSUME NEW x \in Facets, ~Excused(f, x)'
        PROVE  IF Tells(p, f, x) THEN Said(p, x) = Truth(f)'[x]
               ELSE Truth(f)'[x] = Truth(f)[x] /\ ~Excused(f, x)
    <3>1. CASE x = "status"
      BY <2>1, <2>2, <2>4, <2>8, <3>1 DEF Truth
    <3>2. CASE x # "status"
      <4>1. ~Excused(f, x) /\ ~Tells(p, f, x)
        BY <2>1, <2>4, <2>5, <3>2 DEF Excused
      <4>2. Truth(f)'[x] = Truth(f)[x]
        BY <2>1, <3>2 DEF Truth, Facets
      <4> QED  BY <4>1, <4>2
    <3> QED  BY <3>1, <3>2
  <2>6. ASSUME NEW h \in Friends, h # f
        PROVE  Truth(h)' = Truth(h) /\ \A x \in Facets : Excused(h, x) => Excused(h, x)'
    <3>1. h \in away' <=> h \in away
      BY <2>1, <2>6
    <3> QED  BY <2>1, <3>1 DEF Truth, Excused
  <2>7. p.type \in {"sid", "status", "game", "im"}
        /\ \A h \in Friends : h # f => ~Uses(p, h) /\ \A x \in Facets : ~Tells(p, h, x)
    BY <2>2, <2>4
  <2>9. session[f] # 0 /\ p.sid = Sid(f, session[f])
    BY <2>1, <2>2
  <2> QED  BY <1>1, <2>1, <2>3, <2>5, <2>6, <2>7, <2>9, PresenceAgrees
<1>8. CASE ChangesGame(f)
  <2>1. PICK n \in Playable :
           /\ plays' = [plays EXCEPT ![f] = n]
           /\ IF f \in Told THEN Tell(<< GameInfo(f, session[f], n) >>) ELSE UNCHANGED wire
    BY <1>8 DEF ChangesGame, Playable
  <2>2. /\ session[f] \in 1..MaxEvents
        /\ UNCHANGED <<list, session, away, ghosts>> /\ gameGhosts' = gameGhosts \ {f}
        /\ plays'[f] = n /\ \A h \in Friends : h # f => plays'[h] = plays[h]
    BY <1>2, <1>8, <2>1, Players DEF ChangesGame, Basic
  <2> DEFINE p == GameInfo(f, session[f], n)
  <2>3. p.type = "game" /\ p.sid = Sid(f, session[f]) /\ p.game = n /\ p \in Packets
    BY <2>2, PacketsMade DEF GameInfo
  <2>8. IF f \in Told THEN Tell(<< p >>) ELSE UNCHANGED wire
    BY <2>1
  <2> HIDE DEF p
  <2>4. /\ \A h \in Friends, x \in Facets : Tells(p, h, x) <=> h = f /\ x = "game"
        /\ Said(p, "game") = GameName(n)
        /\ \A h \in Friends : Uses(p, h) <=> h = f
    BY <2>2, <2>3, GameTells
  <2>5. ASSUME NEW x \in Facets, ~Excused(f, x)'
        PROVE  IF Tells(p, f, x) THEN Said(p, x) = Truth(f)'[x]
               ELSE Truth(f)'[x] = Truth(f)[x] /\ ~Excused(f, x)
    <3>1. CASE x = "game"
      <4>1. Truth(f)'[x] = GameName(n)
        BY <2>2, <3>1 DEF Truth
      <4>2. Tells(p, f, x) /\ Said(p, x) = GameName(n)
        BY <2>4, <3>1
      <4> QED  BY <4>1, <4>2
    <3>2. CASE x # "game"
      <4>1. ~Excused(f, x) /\ ~Tells(p, f, x)
        BY <2>2, <2>4, <2>5, <3>2 DEF Excused
      <4>2. Truth(f)'[x] = Truth(f)[x]
        BY <2>2, <3>2 DEF Truth, Facets
      <4> QED  BY <4>1, <4>2
    <3> QED  BY <3>1, <3>2
  <2>6. ASSUME NEW h \in Friends, h # f
        PROVE  Truth(h)' = Truth(h) /\ \A x \in Facets : Excused(h, x) => Excused(h, x)'
    <3>2. Truth(h)' = Truth(h)
      BY <2>2, <2>6 DEF Truth
    <3> QED  BY <2>2, <2>6, <3>2 DEF Excused
  <2>7. p.type \in {"sid", "status", "game", "im"}
        /\ \A h \in Friends : h # f => ~Uses(p, h) /\ \A x \in Facets : ~Tells(p, h, x)
    BY <2>3, <2>4
  <2>9. session[f] # 0 /\ p.sid = Sid(f, session[f])
    BY <2>2, <2>3
  <2> QED  BY <1>1, <2>2, <2>3, <2>5, <2>6, <2>7, <2>8, <2>9, PresenceAgrees
<1>9. CASE Writes(f)
  <2> DEFINE p == Chat(f, session[f])
  <2>1. /\ session[f] \in 1..MaxEvents /\ f \in Told /\ Tell(<< p >>)
        /\ UNCHANGED <<list, session, away, plays, ghosts, gameGhosts>>
    BY <1>2, <1>9 DEF Writes
  <2>3. p \in Packets
    BY <2>1, PacketsMade
  <2>4. /\ \A h \in Friends, x \in Facets : ~Tells(p, h, x)
        /\ p.sid = Sid(f, session[f]) /\ p.type = "im"
        /\ \A h \in Friends : Uses(p, h) <=> h = f
    BY <2>1, ChatTells
  <2> HIDE DEF p
  <2>5. Truth(f)' = Truth(f)
    BY <2>1 DEF Truth
  <2>6. \A h \in Friends : Truth(h)' = Truth(h) /\ \A x \in Facets : Excused(h, x) <=> Excused(h, x)'
    BY <2>1 DEF Truth, Excused
  <2>7. p.type \in {"sid", "status", "game", "im"}
        /\ \A h \in Friends : h # f => ~Uses(p, h) /\ \A x \in Facets : ~Tells(p, h, x)
    BY <2>4
  <2>9. session[f] # 0
    BY <2>1
  <2> QED  BY <1>1, <2>1, <2>3, <2>4, <2>5, <2>6, <2>7, <2>9, PresenceAgrees
<1> QED  BY <1>3, <1>4, <1>5, <1>6, <1>7, <1>8, <1>9 DEF Environment

--------------------------------------------------------------------------------
(* What is shown, and in whose chat. *)

\* Agreed holds in every state.
LEMMA AgreedInductive ==
    /\ Init => Agreed
    /\ Basic /\ Appear /\ Agreed /\ [Next]_vars => Agreed'
<1>1. ASSUME Init
      PROVE  Agreed
  <2>1. ~up /\ \A j : j \notin 1..Len(wire)
    BY <1>1 DEF Init
  <2> QED  BY <2>1 DEF Agreed, Agrees, Follows, InOrder, Usable, NamedFirst
<1> SUFFICES ASSUME Basic, Appear, Agreed, [Next]_vars, ~mistaken', NEW g \in Friends
             PROVE  Agrees(g)'
  BY <1>1 DEF Agreed
<1>2. ~mistaken /\ Agrees(g)
  BY NoMistake DEF Agreed
<1>3. CASE Handle
  <2>1. Follows(g)'
    BY <1>2, <1>3, HandleFollows DEF Agrees
  <2>2. InOrder(g)' /\ Usable(g)' /\ NamedFirst(g)'
    BY <1>2, <1>3, HandleFinds DEF Agrees
  <2> QED  BY <2>1, <2>2 DEF Agrees
<1>4. CASE LogsIn \/ Disconnects
  BY <1>2, <1>4, LoginAgrees, DisconnectAgrees
<1>5. ASSUME NEW f \in Friends, Invite(f) \/ DeleteContact(f) \/ Answer(f) \/ Environment(f)
      PROVE  Agrees(g)'
  BY <1>2, <1>5, InviteAgrees, DeleteAgrees, AnswerAgrees, EnvironmentAgrees
<1>6. CASE UNCHANGED vars
  <2>1. /\ wire' = wire
        /\ UNCHANGED <<list, session, away, plays, clanFriends, up, known, contact, deleted,
                       ghosts, gameGhosts>>
    BY <1>6 DEF vars, server, client
  <2>2. Waits(g) /\ \A x \in Facets : Excused(g, x) => Excused(g, x)'
    BY <2>1 DEF Waits, Excused
  <2> QED  BY <1>2, <2>1, <2>2, StillGrows, KeptAgrees
<1> QED  BY <1>3, <1>4, <1>5, <1>6 DEF Next, InviteContact

\* Once everything the server said is handled, each contact has his friend's present
\* session, status and game (if it has a name), across sessions and reconnects, except what
\* no packet will correct (updateContactSID, setStatus, updateContactGameInformation), for
\* any friends and any games.
THEOREM WhatIsShownIsTrue == Spec => []Settled
<1>1. Basic /\ Appear /\ Agreed => Settled
  <2> SUFFICES ASSUME Basic, Appear, Agreed, up, wire = <<>>, ~mistaken,
                      NEW f \in Friends, f \in Shown, f \in known, f \notin deleted
               PROVE  /\ f \notin ghosts =>
                           /\ contact[f].sid = Sid(f, session[f])
                           /\ contact[f].status = IF session[f] = 0 THEN "Offline"
                                                  ELSE IF f \in away THEN "Away" ELSE "Online"
                      /\ f \notin gameGhosts => contact[f].game = GameName(plays[f])
    BY DEF Settled, Drained, Basic, Typed
  <2>1. \A k : k \notin 1..Len(wire)
    OBVIOUS
  <2>2. ~Coming(f) /\ \A x, v : ~LastWord(wire, f, x, 0, v)
    BY <2>1 DEF Coming, LastWord
  <2>3. Ready(f)
    BY <2>2 DEF Appear
  <2>4. \A x \in Facets : ~Excused(f, x) => contact[f][x] = Truth(f)[x]
    BY <2>2, <2>3 DEF Agreed, Agrees, Follows, FollowsReady, Told, Shown
  <2>5. f \notin ghosts => contact[f].sid = Truth(f).sid /\ contact[f].status = Truth(f).status
    BY <2>4 DEF Excused, Facets
  <2>6. f \notin gameGhosts => contact[f].game = Truth(f).game
    BY <2>4 DEF Excused, Facets
  <2> QED  BY <2>5, <2>6 DEF Truth
<1> QED  BY <1>1, BasicInductive, AppearInductive, AgreedInductive, PTL DEF Spec

\* Only handling a packet takes it from wire, as long as the connection lasts.
LEMMA OnlyHandled ==
    ASSUME Basic, [Next]_vars, up' = up, wire # <<>>, wire' = Tail(wire)
    PROVE  Handle
<1>1. wire \in Seq(Packets) /\ Len(wire) \in Nat
  BY LenProperties DEF Basic, Typed
<1>2. Len(wire') = Len(wire) - 1
  BY <1>1, HeadTailProperties
<1>3. ~Grows
  BY <1>1, <1>2 DEF Grows
<1>4. wire' # wire
  BY <1>3, StillGrows
<1>5. ~UNCHANGED vars
  BY <1>4 DEF vars
<1>6. ~LogsIn /\ ~Disconnects
  BY DEF LogsIn, Disconnects
<1>7. ASSUME NEW f \in Friends
      PROVE  ~Invite(f) /\ ~DeleteContact(f) /\ ~Answer(f) /\ ~Environment(f)
  <2>1. ~Invite(f) /\ ~DeleteContact(f)
    BY <1>4 DEF Invite, DeleteContact
  <2>2. ~Answer(f)
    BY <1>3, <1>4, FriendGrows DEF Answer, SendFriendInvitationResponse, ServerAccepts
  <2>3. ~Environment(f)
    <3>1. CASE up
      BY <1>3, <3>1, EnvironmentGrows
    <3>2. CASE ~up
      BY <1>4, <3>2 DEF Environment, Befriend, MakesFriend, Invites, ComesOnline, GoesOffline,
                        ChangesStatus, ChangesGame, Writes, Tell
    <3> QED  BY <3>1, <3>2
  <2> QED  BY <2>1, <2>2, <2>3
<1> QED  BY <1>5, <1>6, <1>7 DEF Next, InviteContact

\* A message that is handled appears in the chat of the one who wrote it, and nowhere
\* else, unless the user deleted that contact meanwhile or does not want those of the
\* clan (handlePacket, case 0x0085; XfireContact::receivedMessage), for any friends.
THEOREM EveryMessageDelivered == Spec => ChatsDelivered
<1> DEFINE Delivered(f) ==
             /\ up' = up /\ wire # <<>> /\ wire' = Tail(wire) /\ ~mistaken
             /\ Head(wire).type = "im" /\ Head(wire).sid[1] = f
             => \/ chat' = [chat EXCEPT ![f] = @ + 1]
                \/ chat' = chat /\ f \in deleted
                \/ chat' = chat /\ f \in Clan /\ ~clanFriends
<1>1. ASSUME Basic, Agreed, [Next]_vars, NEW f \in Friends
      PROVE  Delivered(f)
  <2> SUFFICES ASSUME up' = up, wire # <<>>, wire' = Tail(wire), ~mistaken,
                      Head(wire).type = "im", Head(wire).sid[1] = f
               PROVE  \/ chat' = [chat EXCEPT ![f] = @ + 1]
                      \/ chat' = chat /\ f \in deleted
                      \/ chat' = chat /\ f \in Clan /\ ~clanFriends
    OBVIOUS
  <2> DEFINE p == Head(wire)
  <2>1. Handle
    BY <1>1, OnlyHandled
  <2>2. HandleChat
    BY <2>1 DEF Handle, HandleFriends, HandleClan, HandleInvitations, HandleSid, HandleStatus,
                HandleGame, Receive
  <2>3. /\ wire \in Seq(Packets) /\ Len(wire) \in Nat \ {0} /\ p \in Packets /\ p = wire[1]
        /\ known \subseteq Friends
    <3>1. wire \in Seq(Packets) /\ known \subseteq Friends
      BY <1>1 DEF Basic, Typed
    <3>2. Receive("im")
      BY <2>2 DEF HandleChat
    <3> QED  BY <3>1, <3>2, Received
  <2>4. p.sid # NoSid
    BY <2>3, PacketFields, PresentSids
  <2>5. ASSUME NEW c \in FindBySid(p.sid)
        PROVE  c = f
    <3>1. c \in Friends /\ contact[c].sid = p.sid
      BY <2>3 DEF FindBySid
    <3> QED  BY <1>1, <2>4, <3>1 DEF Basic, Sane
  <2>6. CASE \E c \in FindBySid(p.sid) : ReceivedMessage(c)
    BY <2>5, <2>6 DEF ReceivedMessage
  <2>7. CASE FindBySid(p.sid) = {} /\ chat' = chat
    <3>1. 1 \in 1..Len(wire) /\ Uses(wire[1], f) /\ \A k : k \notin 1..(1 - 1)
      BY <2>3 DEF Uses
    <3>2. Ready(f) \/ f \in deleted \/ Unwanted(f)
      BY <1>1, <3>1 DEF Agreed, Agrees, NamedFirst
    <3>3. CASE Ready(f)
      <4>1. Found(f, 1)
        BY <1>1, <3>1, <3>3 DEF Agreed, Agrees, Usable
      <4>2. ~Introduced(wire, f, 0, 1)
        BY DEF Introduced
      <4>3. ~(contact[f].sid = wire[1].sid)
        BY <2>3, <2>7, <3>3 DEF FindBySid, Ready
      <4> QED  BY <2>7, <4>1, <4>2, <4>3 DEF Found, Unwanted
    <3> QED  BY <2>7, <3>2, <3>3 DEF Unwanted
  <2> QED  BY <2>2, <2>6, <2>7 DEF HandleChat
<1>2. Basic /\ Agreed /\ [Next]_vars => [\A f \in Friends : Delivered(f)]_vars
  BY <1>1
<1> QED  BY <1>2, BasicInductive, AppearInductive, AgreedInductive, PTL DEF Spec, ChatsDelivered
================================================================================
