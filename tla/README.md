# Kopete-Xfire in TLA+

Kopete-Xfire is a plugin that lets the KDE messenger Kopete log in to the Xfire
network: friends list, chat, game detection, and peer to peer sessions with file
transfers. This directory holds TLA+ models of it, TLC configurations that check
them, and TLAPS proofs. Paths below are those of the repository; `xf_*.cpp` are in
`src/src/`, `Xfire*.cpp` (the packet library) in `src/libxfire/`.

1. [The system](#the-system) · 2. [Modules](#modules) · 3. [Runs](#runs) ·
4. [Fairness](#fairness) · 5. [Proofs](#proofs) · 6. [Findings](#findings) ·
7. [Not modelled, and other observations](#not-modelled) · 8. [Plan](#plan)

## The system

The plugin lives in Kopete's event loop. One slot runs to its end before the next
one starts, so the interleavings that matter are those of *slots* — user actions,
timers, replies of the web server, datagrams, bytes of the TCP stream — with one
exception: a slot that closes a socket or emits a signal runs other slots inside
itself. Game detection starts a thread, but its slots run in the main one.

| component | source | state | operations | correct when |
|---|---|---|---|---|
| account and login | `xf_account.cpp` | status shown, Kopete's password and reconnect timers, downloads under way | go online, away, offline; password answered; games list ready; log off | the status shown is that of one session with the server; every login ends |
| server connection | `xf_server.cpp` | socket, heartbeat timer, connection timeout | connect, login, heartbeat, handlers of packets 0x80–0x91 | timers belong to a session; a dead link is noticed; a closed connection is quiet |
| packet framing | `xf_server.cpp:126`, `XfirePacket.cpp` | `m_buffer` | `socketRead`, `requiredLen`, `parseData` | packets are handled once, in order, and none waits |
| packet codec | `libxfire` | — (pure) | attributes to bytes and back | reading gives back what was written |
| friends list, chat | `xf_contact.cpp`, `xf_account.cpp:200–332` | contacts: id, session id, status, game, chat; invitations shown | packets 0x83, 0x84, 0x85, 0x87, 0x8a, 0x9a, 0x9e, 0x9f; invite, delete, answer an invitation | contacts agree with the friends; messages reach the right chat; no invitation is forgotten |
| direct messages | `xf_contact.cpp:147`, `xf_p2p_session.cpp:132`, `xf_server.cpp:408` | whether a session's handshake is done | send directly or over the server, show, confirm | messages are shown as written, or vanish for a reason of the design |
| peer to peer negotiation | `xf_server.cpp:469`, `xf_p2p.cpp`, `xf_p2p_session.cpp` | session, ability and request flags of a contact | request, answer, deny, ping, pong, retry, remove | a handshake is with the same session of a compatible peer; it ends |
| file transfer | `xf_p2p_filetransfer.cpp`, `xf_p2p.cpp:173` | transfers, current chunk, file | accept, refuse, chunk information, chunk data | what is written is the peer's file; chunks complete |
| NAT check | `xf_p2p_natcheck.cpp` | addresses reported, stage, verdict | answers of three servers | the verdict is that of the mapping, whatever the order |
| games list | `xf_games_list.cpp` | file, list, requests under way | update, version received, list received | every attempt to connect goes on, once |
| game detection | `xf_game_detection.cpp`, `xf_account.cpp:117` | a detector for every login, its current game | poll, status of game | detectors and server end up with the game that runs |
| games manager | `xf_games_manager.cpp`, `xf_games_list.cpp:149–238` | document and file of configured games, tree of games | apply, disable, fill the tree | the configuration stays what the user applied |
| dialogs, plugin registration | `xf_edit_account.cpp`, `xf_add_contact.cpp`, `xf_protocol.cpp` | widgets | — | — |

How they interact: an attempt to connect (account) fetches the games list, whose
`gamesListReady` calls `slotContinueConnecting`, which connects the server object.
Bytes become packets (framing), packets become calls on account, contacts and peer
to peer sessions (`handlePacket`). P2P information travels over the Xfire server,
everything else between peers over one UDP socket. Errors and timeouts of the
socket call `logOff`, which tells Kopete, whose timers start the next attempt.
The same `gamesListReady` makes a game detector and fills the games manager's tree;
`slotUpdate` reads the configured games again, which detectors look through and the
games manager edits. A message the user sends asks for a peer to peer session and
takes it once its handshake is done.

What is hard here: overlapping attempts to connect; a connection closed from inside
the read loop that feeds on it; packets whose meaning depends on the packets before
them; both friends requesting a session at once over a network that loses,
duplicates and reorders; chunks whose packets are counted and not identified;
timers, pointers, sessions and detectors that outlive what they belong to. The full list with lines is
under `hazards` in `PROJECT.json`.

## Modules

| module | models | proofs |
|---|---|---|
| `PacketChannel` | what a packet stream promises: in order, at most once, and in the end | |
| `XfireStream` (`MCXfireStream`) | `m_buffer` and the loop of `socketRead`; implements `PacketChannel` | `XfireStreamProofs` |
| `AccountSession` | what an account promises: the status of one session | |
| `XfireConnection` | account, server object, Kopete, web and Xfire server; implements `AccountSession` until attempts overlap or packets are left behind a log off | `XfireConnectionProofs` |
| `XfireContacts` | friends, clan and invitations at the server, the packets about them, the contacts shown | `XfireContactsProofs` |
| `XfireP2PNegotiation` | sessions of two peers that run this code, the relaying server, UDP, logins | `XfireNegotiationProofs` |
| `XfireMessages` (`MC…`) | extends it: the messages they exchange, and the next-state relation of both | `XfireMessagesProofs` |
| `XfireFileTransfer` (`MC…`) | receiving files over a session | `XfireFileTransferProofs` |
| `XfireCodec`, `MCXfireCodec` | packets as bytes, written and read | |
| `XfireNatCheck` | the check of the NAT type | `XfireNatCheckProofs` |
| `XfireGamesList` | version and list of the games, the local file | in `XfireGameDetectionProofs` |
| `XfireGameDetection` | extends it: detectors, configured games, games manager, the game announced | `XfireGameDetectionProofs` |

In every module an action is a slot or a handler with every call it makes; variables
carry the names of the members they stand for, or say which in their comment. What
the environment does (server, peers, network, Kopete, user) is marked external in
`PROJECT.json`. An operator that continues the name of the one below it
(`CompleteStrict`, `Complete`) is a plausible fault of that operator: no
specification uses it, and putting it in the operator's place must break a property.

* **XfireStream** counts bytes instead of storing them. One connection's stream is a
  sequence of frames; `written`, `arrived` and `parsed` are positions in it. Reads
  end at any byte, inside the length field too. One step is one turn of the read
  loop. `leftover` says whether `m_buffer`, which `closeConnection` does not clear,
  held bytes when the connection opened: then nothing is promised of that connection,
  and `ReadStale` lets its buffer parse to anything. All properties but
  `AllAvailableParsed` speak of connections that opened on an empty buffer.
* **XfireConnection** has packets as tokens, in order, and the read loop as a counter
  (`reading`) so that what a handler's `logOff` does to the rest of the loop is
  visible: the packets behind are handled on a socket that is closed. Only a frame
  that `parseData` rejects (`"invalid"`) ends the loop. Packets that lack an attribute
  their handler asks for are tokens of their own (`"badsalt"`, `"noreason"`,
  `"badclient"`, `"badversion"`). The server may send packets (`Trailing`) behind its
  last word — a verdict that is no, a new version, a login elsewhere — and then hangs
  up. Kopete's part — the password dialog, the reconnect timers by reason, the
  remembered status — is modelled from `Kopete::PasswordedAccount` and
  `Kopete::Account` as this code uses them. Two history variables say where the code
  leaves its course: `behind`, that packets were left behind a log off in the same
  read and the account has not been at rest since; `strayed`, that this happened, or
  that two attempts overlapped (which nothing prevents, see Findings), or that Away was
  shown without a connection, as `slotGoAway` does. What Connecting and Online promise
  is claimed of behaviours before `strayed`, what the timers promise except while
  `behind`, the rest of all.
* **XfireContacts** keeps the truth about friends at the server and a FIFO `wire` of
  what was told and not handled yet. A contact created by an invitation or from the
  saved list, which may be of anybody, has no id: `Fresh(garbage)` with any value, a
  friend's id included, because `m_id` is never initialised. Anybody may be invited;
  whoever is a contact already stays the contact he is. `mistaken` says that such an id was used;
  everything may go wrong from there, so the properties and the run (`IdsRight`, a
  constraint) stop at it. `ghosts` and `gameGhosts` are contacts that still show
  something of an earlier connection which no packet will correct: `logOff` leaves
  contacts alone and the login's packets name only friends who are online. Members of
  the clan are told about like friends and have contacts if the user wants them
  (`clanFriends`); the groups the clan packets make are left out. Invitations from
  others are shown at once and at every login, and an answer given while offline is
  lost. Lists of several entries are packets of one entry each. A friend `plays` one of
  `Games`; the client shows it if its list has the name (`Named`).
* **XfireP2PNegotiation** has two peers, each with one contact for the other, and
  the server's packets to each in one queue: information, the other's sessions, and
  messages. A program may end and log in again; the other side's contact then keeps
  its session and learns only the new session id (`HandleSession`).
  `world` picks the circumstances: how much each user writes, who has peer to peer
  enabled, who is reachable, whether UDP is bad, whether anything takes 50 seconds,
  whether programs end and come back. Salts are named by who drew them, a moniker is
  a peer, his login and a salt, and monikers are taken to be distinct. `status->Int32`
  in `xf_server.cpp:479` is an enumerator with the value 2, and so is `natType` here.
  A session deleted in `xf_server.cpp:509` without clearing the pointer becomes
  `Dangling`; using it sets `fault`, after which nothing is said any more.
* **XfireMessages** adds the messages. `written` remembers which way each was sent,
  `shown` and `confirmed` what became of it. A direct message names the receiver's
  session id, and the receiver looks for a contact with that id, which is himself:
  `listed` says whether the server's lists made him one. Datagrams with messages are
  apart from pings and pongs; one that UDP repeats is bounded by what it shows
  (`MaxShown`). Acknowledgements are only logged by the code and not modelled.
* **XfireFileTransfer** has files as sequences of numbered bytes, so a byte in the
  wrong place shows. The buffer of a chunk is a sequence with `resize`, `insert` and
  `replace` as QByteArray has them. `Wrap` is the 2^32 at which the size in a request
  wraps when duplicates made the count of bytes exceed the file. The network holds a set of answers and may
  deliver some twice. `Accept` and `Refuse` apply to every transfer that waits,
  because all of them hear Kopete's transfer manager.
* **XfireCodec** is the bytes of `libxfire`: every attribute type with its real width,
  both id types, lists, nested attributes, both packet headers. Reading functions
  return a set, empty on failure, so that a chain of early returns is a union of
  sets. Numbers are sequences of bytes, which are reversed on the wire. A text is the
  sequence of its UTF-8 bytes, and reading one is `FromUtf8`: bytes that are no
  character become U+FFFD, and a byte order mark in front goes. The state is
  a packet that is composed, written with something behind it, and perhaps changed
  in one byte. `XfireStream` uses of it that a frame states its length.
* **XfireNatCheck** has the NAT as `mapped`, the address under which each server sees
  the client. Which answers from other ports pass is chosen at the start. Addresses
  no answer set are read as they lie in memory: any value.
* **XfireGamesList** has lists as version numbers, 0 for what a failed request or a
  damaged file counts as. Crashes cut a save in two.
* **XfireGameDetection** adds a detector for each `gamesListReady`; all of them poll,
  the account points to the last. `Memory` is what `m_currentGame` may hold before it
  is set. The document of configured games and its file are sequences of games with
  the path to detect each by. A text saved empty comes back as no text (`"bare"`),
  which an update does not find; a document without root element (never read, or
  read from a file a crash cut) accepts no game. `wanted` is what the user applied and
  `excused` the games for which one of these reasons lost it. The timer of a detector
  belongs to the main thread and is started from the detector's; where Qt lets it
  start, polls run in the main thread, one slot at a time, and that is what `Poll` is.
  Connecting, logged in and closed are the states of the connection here; its life is
  `XfireConnection`'s.

## Runs

| run | shows | bounds, and why they do |
|---|---|---|
| `Stream` | packets are handled in order and the buffer starts at one (`InOrder`), no complete packet waits (`NoPacketWaits`), and `PacketChannel` is implemented, with its promise that every packet is handled (`ImplementsChannel`) | 3 packets, 2 connections, a header of 3 bytes, frames of 1 (invalid), 3 and 4 bytes: a read can end in the length, the header, the payload and at a boundary; the proofs lift all bounds |
| `StreamStale` ✗ | a connection lost in the middle of a packet leaves bytes that the next connection's packet is taken for the rest of: it is complete and never handled | 2 packets, 2 connections |
| `Conn` | timers belong to a session (`TimersBelongToSession`), a dead link is noticed (`DeadLinkNoticed`), offline is quiet; until attempts overlap or packets are left behind a log off, status and connection agree (`StatusAgrees`), logins end (`LoginSettles`), `AccountSession` is implemented | 2 downloads, 1 dialog, 2 reconnect timers, 3 packets under way, every user action, all five verdicts of a login, both malformed greetings; behind the packet that logs off come a client information, an answer to a heartbeat, a rejected frame: attempts overlap, and what is left in a read shows Online, starts either timer or logs off again |
| `ConnTwoAttempts` ✗ | an attempt goes on while the account is online | 2 downloads |
| `ConnVersion` ✗ | the reconnect the user is told of does not come | 1 download |
| `Contacts` | friends and clan are listed and invitations shown (`ListsShown`), presence and games settle (`Settled`), chats are delivered to the right contact | 2 friends, one of them in the clan, 2 games, one of them not in the list, 2 connections, 4 acts of friends and user: enough to log in, change session and reconnect with a message in flight; saved contacts of anybody, invitations to those who are listed too; an uninitialised id that is one friend's, so his own by luck and wrong for the other; both settings of the clan |
| `P2P` | see the properties below | 2 peers, 2 logins each, 1 ping retry (10 in the code; the count is only compared), up to 3 messages, 10 worlds: bad, slow and good networks, a slow one that loses nothing, one or both writing, a peer who cannot be reached, who has peer to peer disabled, who does not list himself, who ends, who comes back |
| `FileTransfer` | requests tile the chunk and chunks follow each other (`RequestsTile`), written bytes are right, chunks complete | packets of 2, chunks of 5 bytes (1024 and 51200): short last packet and short last chunk; files of 13, of 8 with a datagram twice, of 3 and 2 at once; a request that wrapped asks for more than any file has, as with 2^32 |
| `FileEarlyEnd` ✗ | a file is reported as finished with chunks missing | one file, 2 chunks of 3 packets |
| `Codec` | packets are read back (`RoundTrip`), missing bytes are waited for (`PrefixesWait`), accepted bytes are those of the packet read, but for what `FromUtf8` replaced or dropped (`NothingIgnored`) | 2 attributes of 18 kinds for each id type, texts and a name with a character of two bytes, one with a byte order mark, an id of 256 bytes, a string of 258, lists of 257 and 255 children so that every length field reaches its second byte or its limit; one of the first 16 bytes, where the lengths and types are, is changed, to a value that cuts a character or is a type or a length. Packets of 64 KiB are not reached |
| `Nat` | the verdict agrees with the mapping; a fourth answer ends the check | 2 addresses, 2 ports, all mappings, all orders |
| `Games` | every attempt goes on, once, and without failures with a list; the configuration is kept (`ConfigurationKept`); detectors and server agree in the end (`GameSettles`) | 2 attempts, 2 versions, one game and the manager's heading, one path and the empty one, 2 edits, 2 starts or ends of programs, 2 failures, 2 crashes, at most 3 of these events together: two detectors overlap a new list, an edit or a crash |

✗ marks runs in which TLC finds the property violated (see [Findings](#findings)).
Deadlock is not checked: every model is bounded by the user's and the environment's
acts, and an idle client is a legal state.

The properties of `P2P`: a finished handshake is with the peer's session of the same
salt, pings go only to contacts found compatible, and handshakes need two compatible
peers (`HandshakeAgrees`); in a network that loses nothing and is in time, a handshake
that one side finished is kept by both, neither timer gives the session up
(`HandshakeIsMutual`); compatible peers stop answering each other (`NegotiationEnds`); a session with a peer, or a login
of his, that is gone and that waits for a pong is dropped (`DeadPeerRemoved`); when
one side asks and nothing is lost, both handshakes complete (`HandshakeCompletes`).
Of the messages: nothing is shown that was not written or confirmed that was not
shown, the server's keep their order, and none comes twice unless UDP repeats
(`ShownAsWritten`); a direct message of the present session disappears only because
UDP lost it, a program ended, the receiver does not list himself, or, where pongs
take longer than the pings are repeated, his timer gave the session up although the
sender had finished his handshake (`VanishesForAReason`); between programs that stay
up, all others arrive (`MessageArrives`).

## Fairness

Weak fairness is assumed of what Qt and the kernel deliver while it is possible:
slots of timers that run, replies of requests (an error is a reply), bytes and
datagrams that have arrived, turns of a loop. It is assumed of the Xfire server's
answers to what it received, not of a server behind a broken link, and of Kopete's
reconnect timers. Nothing is assumed of the user, of friends, of what may be lost,
of crashes, or of a link that breaks. A server that has said its last word hangs up in
the end (strong fairness, since a link that dies in between makes it wait).
`LoginSettles` excludes a link that dies during
the login because the code has no timeout for it; `DeadLinkNoticed` starts from a
running timeout because only an answer to a heartbeat (0x90) starts it.
`GameSettles` assumes that a detector's timer was started, which a Qt with its checks
compiled in refuses to do from another thread, and says nothing otherwise.

## Proofs

The theorems hold for every value of the constants that satisfies the modules'
`ASSUME`s, and assume nothing else. Each is of the form `Spec => []P`, or
`Spec => Abstract`, and none of the properties is inductive by itself; what follows
says, for each module, what the inductive invariant (`IndInv`, `DetectionInv`, or the
parts named below) adds and why. One lemma per action, or per kind of step, shows that it is kept.

**`XfireStreamProofs`**: `TypeCorrect`, `DeliveredInOrder` (`InOrder`), `NothingWaits`
(`NoPacketWaits`), and `ImplementsChannelSafety`, that a
connection implements the safety part of `PacketChannel`. The invariant says how
packets lie in the stream — each starts where the one before ends (`Layout`) — and
that `parsed` is the start of packet `Len(handled)+1` (`Progress`), and that outside
the loop the packet in front is incomplete or was rejected (`Settled`). `FrontIsNext`
derives from it that the loop always looks at the next packet, which is also what the
refinement needs: a turn of the loop that hands over a packet is the channel's
`Deliver`, and everything else a stutter or a close.

**`XfireConnectionProofs`**, any number of downloads, dialogs, timers and packets under
way: `TypeCorrect`, `StatusOfConnection` (`StatusAgrees`), `TimersOfSession`
(`TimersBelongToSession`) and `Implementation` (`ImplementsSession`). What the
properties leave out is the wire: `Conversation` says what may be on it by how far the
server is with this connection — nothing before the client's greeting, one greeting,
no answer to a login before there was one, none to a heartbeat before there is a
session. Without it an answer to a login could be handled on a connection that is only
being made, and start the heartbeat there. `WatchInv` gives what `behind` and `strayed`
remember of a step: a packet handled on a closed socket is always one left `behind`.
`OnCourse` says that the history variable `strayed` is set once it must be. The
refinement goes through the invariant of both states of a step: a step shows a status
change of `AccountSession`, or leaves the three variables it sees alone, or `strayed`
is set, from where nothing is promised.

**`XfireNegotiationProofs`**, every world, any number of pings and messages:
`TypeCorrect`, `HandshakeIsOneSession`
(`HandshakeAgrees`). The invariant is a chain. `News`: packets tell of the other
side's logins in order, and each comes while the login it is of is known.
`SaltsKnown`, `NetKnown`, `UpToDate`: whose salt it is that a session, a packet or a
datagram carries, and that none is of a login to come. `Fitting`, `NoDangling`:
addresses, timers and handshakes exist only after compatibility was found, and
compatible peers delete no session under a pointer. `Fresh`, `Pinged`, `Unheard`: of a
peer who neither asked nor heard, nobody knows anything but the one request with which
the other began. `Crossing`: when both asked, each keeps its own salt, so the pings of
one are never for the session of the other. `Agreed`: therefore, once a pong is on its
way, every session, packet and datagram between the present logins has one salt. The
handlers are first reduced to eight kinds of steps (`Does`, `StepDoes`) that say only
what these facts see. `Before`, `Heard` and `Leads` with their lemmas on `Append` and
`Tail` carry the queues.

**`XfireMessagesProofs`**, on top of it: `EveryMessageAsWritten` (`ShownAsWritten`).
`Talk` is the conversation in one direction: written, shown, confirmed, and the
messages and confirmations under way on either path; what is under way over the server
is above everything the server brought before, and what is under way directly was not
shown, unless UDP repeats. Six lemmas say how a `Talk` goes on, and each action is one
of them in one direction and one in the other.

`NoMessageVanishes` (`VanishesForAReason`) and `HandshakeHasPartner`
(`HandshakeIsMutual`) need more than the salts of present sessions, since the datagram
of an old one may still be under way. `DeliveryInv` adds to `Agreed`: a salt that any
packet, session or datagram carries is of the past or one that everything between the
present logins carries (`Bygone`, `Meeting`, and `ImsMet` for direct messages), so a
receiver who has a session at all finds the message's. That he has one is the harder
half. A timer gives up only if a pong is needed and ten pings were repeated, and on a
network that is in time a ping is repeated only when nothing is under way (`Late`); so
a finished handshake has a partner with a session and a running timer, who either
finished too, or whose ping is on its way to be answered, or whose pong is on its way
to him (`Reached`, `Answered`, `Held`, `Kept`). On a slow network this fails, and the
message is lost: `VanishesForAReason` and `MessageArrives` were first stated without
that case, the attempted proof showed them false, and the world in which it happens is
now one of the run's.

**`XfireNatCheckProofs`**, any addresses and ports: `TypeCorrect` and `VerdictRight`
(`VerdictFollowsMapping`), which needs that the fourth answer, and no other, decides
(`CountDecides`) and that what is recorded is what the servers saw.

**`XfireGameDetectionProofs`**, any number of versions, attempts, failures and crashes,
any games, paths, edits and detectors. First the games list: `OneReadyPerUpdate`
(`ReadyOncePerUpdate`) and the types of `XfireGamesList`: requests under way and
`gamesListReady` signals add up to the attempts, and types alone are not inductive,
since nothing else bounds the signals. `AttemptsHaveList` (`ListPresent`) needs that
without failures list and file are the same from the first version check or signal on
(`ListKept`). Then what is built on it: `DetectionTypeCorrect` (`TypesOK`),
`ConfigurationStays` (`ConfigurationKept`) and `ListUnderDetection`, which lifts the
theorems of the games list to the composed specification. The invariant adds that no
game is in a document twice (`Once`) and that a file which was never made has no
games; its lemmas say what reading, saving, updating and removing an entry do to the
setting of every game.

**`XfireContactsProofs`**, any friends and clan, any number of events and connections,
and, like the run, until an id that was never set is used: `TypeCorrect`,
`EveryoneIsShown` (`ListsShown`), `WhatIsShownIsTrue` (`Settled`) and
`EveryMessageDelivered` (`ChatsDelivered`). `Friends` is assumed to be finite, because
what the server says of a set of friends is a sequence of packets. What is shown lags
behind the truth by what is in `wire`, so the invariant is about that difference. It
has four parts, each inductive with the ones before it. `Basic`: types, counts, and
what one contact can show. `Written`: messages shown and under way are no more than
were written. `Appear`: whoever is listed has a contact or gets one from a list in
`wire`, and an invitation is shown or under way. `Agreed` says of each friend and each
of his session, status and game that the last word on it in `wire` is the truth, or
`wire` is silent on it and the truth is shown already (`Follows`); that the contact
without an id gets it before anything is looked up by a session (`NamedFirst`), and
after it the session itself (`InOrder`); and that a session that is looked up is by
then the contact's, from now on or through an earlier packet (`Usable`). So no status,
game or message is lost or goes to another contact. `GrownFollows`, `GrownFound` and
`GrownFinds` say how these facts survive packets appended to `wire`, `HandleFollows`,
`HandleFinds` and `SessionFollows` how they survive a packet handled, and `KeptAgrees`
that a step which leaves a friend, his contact and the packets about him alone keeps
them.

**`XfireFileTransferProofs`**, any files, sizes of files, chunks and packets, and any
number of duplicates: `TypeCorrect`, `RequestsTiled` (`RequestsTile`) and
`WrittenIsRight` (`WrittenRight`). `PieceIs` and `PieceOf` are the arithmetic of
`start()`: every byte of a chunk is in one packet, no packet leaves the chunk, and
there are as many as `m_packetsCount` says (`PacketsAre`). `ReplaceOverwrites` shows
that QByteArray's `replace`, `resize` and `insert` together write over what is there
as a file does. The invariant says what is in the network, where one file is offered
and nothing comes twice (`InTurn`): between chunks at most one answer about a chunk
(`Calm`), else exactly the packets whose bytes are not in the buffer yet, as many as
the count misses (`Fetches`). So the last packet counted is the last one missing.

These stay with TLC:

* all liveness properties, the liveness of `ImplementsChannel` included: fairness and
  `ENABLED` are beyond the prover;
* `XfireCodec`: nested attributes are read with recursive operators, and what they
  compute for every packet is an induction over data.

## Findings

Each is a run in which the property, taken from a comment or a message of the
program, does not hold of what the code does.

* `StreamStale`, `xf_server.cpp:128`: bytes of a lost connection stay in `m_buffer`, in
  front of the next connection's, whose packet is complete and not handled ("Parse all
  available packets").
* `ConnTwoAttempts`, `xf_account.cpp:90`: the status is tested before the games list
  is fetched, not after ("Don't attempt to connect when already online").
* `ConnVersion`, `xf_server.cpp:573`: log off with reason Manual, after which Kopete
  does not reconnect ("… you will be reconnected").
* `FileEarlyEnd`, `xf_p2p_filetransfer.cpp:72`: a count of packets is compared with a
  number of chunks ("Check if file transfer is finished").

## Not modelled

Not modelled: typing notices, avatars, nicknames and the groups contacts are in, which
no other state depends on; what other accounts show of a game; acknowledgements,
bad-CRC answers and the checksum of data packets (numbers of 32 bits, beyond TLC's);
the moment of a login before the NAT check is over, when `requestP2P` reads what is
not there yet (`xf_contact.cpp:176`); how the executable of a process is found; the
dialogs and the plugin's registration, which are widgets and configuration without
interleavings; generated forms and build files.

Seen while modelling, part of the models but without a run of their own:

* A rejected login runs on into case 0x82 (`xf_server.cpp:337`) and logs off twice,
  so Kopete may reconnect twice.
* Packets behind a log off in the same read are still handled (`xf_server.cpp:132`):
  they start the heartbeat (`:354`) or the timeout (`:802`) of the closed connection,
  although closing it was to "Remove unneeded timers" (`:121`), or show Online without
  one. Such a timeout logs off whatever connection there is when it fires.
  `StatusAgrees` and `TimersBelongToSession` name this as their exception (`behind`);
  without it TLC finds both violated.
* A frame that `parseData` rejects stays in front of `m_buffer` (`xf_server.cpp:143`),
  so the next connection is logged off at its first read.
* A login that is answered by a 0x81 without a reason is not ended (`xf_server.cpp:308`):
  it lasts until the server hangs up.
* `slotGoAway` shows Away while offline (`xf_account.cpp:190`).
* A login has no timeout, and a link that dies before the first 0x90 is not noticed.
* Contacts keep presence and game of an earlier connection (`xf_account.cpp:141`);
  a friend who left meanwhile is shown online after a reconnect.
* An uninitialised `m_id` can take another friend's packets, and `deleteContact` can
  remove another friend (`xf_contact.cpp:247`).
* A contact deleted while a friends list is in flight is created again.
* `xf_server.cpp:509, 531` delete a session and keep the pointer.
* `natType = status->Int32` (`xf_server.cpp:479`): the peer's NAT type is not read;
  the port of every peer is rectified.
* Two peers that both request with their own salts finish no handshake; two peers
  that deny keep denying each other.
* A chunk's buffer is resized to the size of the chunk before it
  (`xf_p2p_filetransfer.cpp:156`); duplicates count as packets (`:135`); a file may
  never be reported as finished (`:72`); an accepted transfer starts all that wait.
* A failed download of the games list is saved as the list and announced as the
  latest version (`xf_games_list.cpp:113`).
* Elements of an Int64 list are read through the Int32 pointer, four bytes of eight,
  and elements of an unknown type through a pointer nobody set
  (`XfireAttribute.cpp:528, 543`); no packet the handlers use has such lists.
* A packet of 64 KiB or more states its length modulo 65536 (`XfirePacket.cpp:105`);
  an attribute with an empty name and one byte of data is refused at the end of a
  packet (`XfireAttribute.cpp:29`).
* A friend whose program ended after the handshake is not noticed: the session has no
  keep-alive (`xf_p2p_session.cpp:103`), and messages to him are lost until he asks
  for a session himself.
* A handshake does not tell that the other side's is done: a peer whose pings are
  answered too late, or never, removes the session that the first one goes on to send
  messages to (`xf_p2p_session.cpp:94`).
* A direct message is shown only by a receiver who has himself among his contacts
  (`xf_server.cpp:423`).
* Every ping sets the peer's address again and is answered by a ping and a pong
  (`xf_p2p.cpp:91`), and every time the check timer is connected once more
  (`xf_p2p_session.cpp:85`), so that several checks run each second.
* A typing notice shows `msgtype`, which is 3, so typing never ends
  (`xf_server.cpp:541`).
* A game found before the login is done is not announced in that session, and the
  newest detector's uninitialised game may be, until its first poll
  (`xf_account.cpp:119`). After a failed download a configured game is announced as
  number -1 (`xf_games_list.cpp:146`).
* Apply saves the configured games before they were read, and so empties the file
  (`xf_games_manager.cpp:164`); a crash while saving leaves a file that is never
  repaired (`xf_games_list.cpp:49`); a path saved empty cannot be changed after the
  next reload (`xf_games_list.cpp:200`).
* A game configured without a path is found whenever a process runs whose executable
  was deleted (`xf_game_detection.cpp:71`).
* Avatar downloads are not ordered (`xf_contact.cpp:107`).
* The NAT check needs a fourth answer from three servers, asks nothing again, and a
  datagram of another size ends `readyRead` for good (`xf_p2p_natcheck.cpp:55`).

## Plan

Left to do: the frames `XfireStream` takes (`Extent`, `Valid`) from `XfireCodec`'s
packets, so that the byte stream and the codec are one model.
