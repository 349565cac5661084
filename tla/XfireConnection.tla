---------------------------- MODULE XfireConnection ----------------------------
(***************************************************************************)
(* XfireAccount and XfireServer: the life of a connection, from the user's *)
(* click through the games list download, the TCP connection, the login    *)
(* and the heartbeats to the log off, together with the parts of the       *)
(* environment they answer to: Kopete (password prompt, reconnect timers), *)
(* the web server of the games list and the Xfire server.                  *)
(*                                                                         *)
(* The plugin lives in one event loop.  A slot runs to its end before the  *)
(* next one, so a slot is one action, except socketRead: its loop handles  *)
(* the `reading' first packets of `wire' one step at a time, and no other  *)
(* slot of the account runs until they are done.  A handler that logs off  *)
(* does not stop that loop: the packets behind it are handled on a socket  *)
(* that is closed.  Only a frame that is no packet ends it.                *)
(*                                                                         *)
(* A definition named after another one plus a fault (GoOnlineBlind) is a  *)
(* plausible mistake in that code, there to see that a property notices.   *)
(***************************************************************************)
EXTENDS Integers, Sequences

\* What reaches handlePacket: 0x80, 0x81, 0x82, 0x86, 0x90 and 0x91, the first
\* four also in forms without the attribute their handlers ask for, and a frame
\* that parseData rejects.
Packets == {"salt", "badsalt", "reject", "error", "noreason", "client", "badclient",
            "version", "badversion", "pong", "other", "invalid"}

CONSTANTS UserActions,     \* what the user asks for: online, away, offline
          Verdicts,        \* the server's answers to a login
          Malformed,       \* forms of its greetings the client cannot use
          Trailing,        \* what it may say behind its last word in a session
          MaxDownloads,    \* bound: games list downloads under way at once
          MaxPrompts,      \* bound: password prompts open at once
          MaxRetries,      \* bound: reconnect timers of Kopete running at once
          MaxWire          \* bound: packets on the way to the client

ASSUME UserAssumption == UserActions \subseteq {"online", "away", "offline"}
ASSUME VerdictAssumption ==
    Verdicts \subseteq {"client", "badclient", "reject", "error", "noreason"}
ASSUME MalformedAssumption == Malformed \subseteq {"badsalt", "badversion"}
ASSUME TrailingAssumption == Trailing \subseteq Packets
ASSUME BoundsAssumption ==
    MaxDownloads \in Nat /\ MaxPrompts \in Nat /\ MaxRetries \in Nat /\ MaxWire \in Nat

VARIABLES
    status,      \* myself()->onlineStatus()
    restore,     \* Kopete's restoreStatus, the status a reconnect asks for
    downloads,   \* requests of XfireGamesList under way
    cached,      \* Kopete holds a password it believes in
    prompts,     \* password dialogs of Kopete that are open
    retries,     \* single shot timers of Kopete that will reconnect
    promised,    \* "you will be reconnected" was shown and nothing came of it yet
    sock,        \* state of m_connection
    alive,       \* the link carries data; FALSE: silently broken
    heartBeat,   \* m_heartBeat runs
    timeout,     \* m_connectionTimeout runs
    wire,        \* packets from the server, oldest first
    reading,     \* how many of them socketRead is going through
    srv,         \* the server's view of this connection
    owed,        \* the server has a heartbeat it did not answer yet
    outdated,    \* the protocol version we send is refused
    behind,      \* history: packets were left behind a log off, no rest since
    strayed      \* history: attempts overlapped, packets were left behind a log
                 \* off, or Away was shown while offline

kopete == <<restore, cached, prompts, retries>>
client == <<status, downloads, promised, sock, heartBeat, timeout, reading>>
server == <<alive, wire, srv, owed, outdated>>
moves == <<kopete, client, server>>
vars == <<moves, behind, strayed>>

\* Kopete::Account::isConnected.
isConnected == status \in {"Online", "Away"}

Idle == reading = 0

Min2(a, b) == IF a < b THEN a ELSE b

--------------------------------------------------------------------------------
(* The pieces the slots are made of. *)

\* myself()->setOnlineStatus; Kopete remembers the last status that was online.
SetStatus(s) ==
    /\ status' = s
    /\ restore' = IF s \in {"Online", "Away"} THEN s ELSE restore

\* XfireAccount::connectWithPassword with a password: only when offline, and
\* the status stays Offline until the download ends.
ConnectWithPassword ==
    IF status # "Offline" THEN UNCHANGED downloads
    ELSE downloads < MaxDownloads /\ downloads' = downloads + 1

\* Kopete::PasswordedAccount::connect (external): uses the password it has, or
\* opens a dialog and returns.
KopeteConnect ==
    IF cached THEN ConnectWithPassword /\ UNCHANGED prompts
    ELSE prompts < MaxPrompts /\ prompts' = prompts + 1 /\ UNCHANGED downloads

\* Kopete::Account::disconnected (external): how many reconnect timers one call
\* starts.  A wrong password starts one at once; another involuntary loss starts
\* one in 10 s if the user's settings and the number of tries allow it.
Timers(reason) ==
    CASE reason = "BadPassword" -> {1}
      [] reason \in {"ConnectionReset", "Unknown"} -> {0, 1}
      [] reason \in {"Manual", "OtherClient"} -> {0}

\* The other end of closing a socket: unread packets are lost, except those
\* socketRead is going through (`left'), and the server's session is over.
SocketClosed(left) ==
    /\ sock' = "unconnected"
    /\ wire' = left
    /\ srv' = "none" /\ owed' = FALSE /\ alive' = TRUE

\* XfireServer::closeConnection: the socket and both timers.
CloseConnectionKeepsHeartBeat(left) ==
    SocketClosed(left) /\ timeout' = FALSE /\ UNCHANGED heartBeat
CloseConnection(left) ==
    SocketClosed(left) /\ heartBeat' = FALSE /\ timeout' = FALSE

\* XfireAccount::logOff, called once for every reason in turn; the handlers of
\* login errors call it twice.
LogOffSilently(reasons, left) ==
    /\ CloseConnection(left)
    /\ UNCHANGED <<status, restore, retries>>
LogOff(reasons, left) ==
    /\ CloseConnection(left)
    /\ SetStatus("Offline")
    /\ IF Len(reasons) = 1
       THEN \E t \in Timers(reasons[1]) : retries' = Min2(retries + t, MaxRetries)
       ELSE \E t \in Timers(reasons[1]), u \in Timers(reasons[2]) :
                retries' = Min2(retries + t + u, MaxRetries)

--------------------------------------------------------------------------------
(* The user and Kopete. *)

\* XfireAccount::slotGoOnline.
GoOnlineBlind == SetStatus("Online") /\ UNCHANGED <<downloads, prompts>>
GoOnline ==
    IF isConnected
    THEN SetStatus("Online") /\ UNCHANGED <<downloads, prompts>>
    ELSE KopeteConnect /\ UNCHANGED <<status, restore>>

\* XfireAccount::slotGoAway: the status becomes Away whatever connect() did.
GoAway ==
    /\ IF isConnected THEN UNCHANGED <<downloads, prompts>> ELSE KopeteConnect
    /\ SetStatus("Away")

\* XfireAccount::slotGoOffline: nothing to do while only a download is under way.
GoOffline ==
    IF isConnected \/ status = "Connecting"
    THEN LogOff(<<"Manual">>, <<>>)
    ELSE UNCHANGED <<status, restore, sock, heartBeat, timeout, wire, srv, owed,
                     alive, retries>>

UserGoesOnline ==
    /\ Idle /\ "online" \in UserActions
    /\ GoOnline
    /\ UNCHANGED <<cached, retries, promised, sock, heartBeat, timeout, reading, server>>

UserGoesAway ==
    /\ Idle /\ "away" \in UserActions
    /\ GoAway
    /\ UNCHANGED <<cached, retries, promised, sock, heartBeat, timeout, reading, server>>

UserGoesOffline ==
    /\ Idle /\ "offline" \in UserActions
    /\ GoOffline
    /\ UNCHANGED <<downloads, cached, prompts, promised, reading, outdated>>

\* A reconnect timer of Kopete fires: setOnlineStatus(restoreStatus).
Reconnect ==
    /\ Idle /\ retries > 0
    /\ retries' = retries - 1
    /\ IF restore = "Away" THEN GoAway ELSE GoOnline
    /\ UNCHANGED <<cached, promised, sock, heartBeat, timeout, reading, server>>

\* The user types a password into the dialog.
PromptAnswered ==
    /\ Idle /\ prompts > 0
    /\ prompts' = prompts - 1
    /\ cached' = TRUE
    /\ ConnectWithPassword
    /\ UNCHANGED <<status, restore, retries, promised, sock, heartBeat, timeout,
                   reading, server>>

\* The user closes the dialog: connectWithPassword(""), which goes offline.
PromptCancelled ==
    /\ Idle /\ prompts > 0
    /\ prompts' = prompts - 1
    /\ GoOffline
    /\ UNCHANGED <<downloads, cached, promised, reading, outdated>>

--------------------------------------------------------------------------------
(* The slots of the account and of the server object. *)

\* XfireServer::connectToServer, with no look at the status.  QAbstractSocket
\* ignores connectToHost unless it is unconnected.
ConnectToServer ==
    /\ SetStatus("Connecting")
    /\ sock' = IF sock = "unconnected" THEN "connecting" ELSE sock

\* gamesListReady: slotContinueConnecting.
GamesListReady ==
    /\ Idle /\ downloads > 0
    /\ downloads' = downloads - 1
    /\ promised' = FALSE
    /\ ConnectToServer
    /\ UNCHANGED <<cached, prompts, retries, heartBeat, timeout, reading, server>>

\* slotConnected: "UA01" and our protocol version.
SocketConnected ==
    /\ Idle /\ sock = "connecting"
    /\ sock' = "connected"
    /\ srv' = "greeted"
    /\ UNCHANGED <<kopete, status, downloads, promised, heartBeat, timeout, reading,
                   alive, wire, owed, outdated>>

\* slotConnected when waitForConnected fails after all.
SocketFailed ==
    /\ Idle /\ sock = "connecting"
    /\ LogOff(<<"Unknown">>, <<>>)
    /\ UNCHANGED <<downloads, cached, prompts, promised, reading, outdated>>

\* slotConnectionInterrupted from the socket's error signal.
ConnectionError ==
    /\ Idle /\ sock # "unconnected"
    /\ LogOff(<<"ConnectionReset">>, <<>>)
    /\ UNCHANGED <<downloads, cached, prompts, promised, reading, outdated>>

\* slotConnectionInterrupted from m_connectionTimeout.
ConnectionTimeout ==
    /\ Idle /\ timeout
    /\ LogOff(<<"ConnectionReset">>, <<>>)
    /\ UNCHANGED <<downloads, cached, prompts, promised, reading, outdated>>

\* slotSendHeartBeat.
SendHeartBeatDisarms ==
    /\ Idle /\ heartBeat
    /\ timeout' = FALSE
    /\ owed' = (owed \/ (srv = "session" /\ alive))
    /\ UNCHANGED <<kopete, status, downloads, promised, sock, heartBeat, reading,
                   alive, wire, srv, outdated>>
SendHeartBeat ==
    /\ Idle /\ heartBeat
    /\ owed' = (owed \/ (srv = "session" /\ alive))
    /\ UNCHANGED <<kopete, client, alive, wire, srv, outdated>>

\* readyRead: socketRead takes the n packets that are complete by now.
SocketRead(n) ==
    /\ Idle /\ sock = "connected" /\ alive
    /\ reading' = n
    /\ UNCHANGED <<kopete, status, downloads, promised, sock, heartBeat, timeout, server>>

\* One turn of socketRead's loop: the packet p in front goes to handlePacket.
HandlingAgain(p) ==
    /\ reading > 0
    /\ Head(wire) = p
    /\ UNCHANGED reading
Handling(p) ==
    /\ reading > 0
    /\ Head(wire) = p
    /\ reading' = reading - 1

Rest == SubSeq(wire, 2, reading)

\* login() writes the credentials, if the socket is still open.
Login == srv' = IF srv = "salted" /\ alive THEN "asked" ELSE srv

\* 0x80: the salt of the login.
HandleSalt ==
    /\ Handling("salt")
    /\ wire' = Tail(wire)
    /\ Login
    /\ UNCHANGED <<kopete, status, downloads, promised, sock, heartBeat, timeout,
                   alive, owed, outdated>>

\* 0x80 without a salt.
HandleBadSalt ==
    /\ Handling("badsalt")
    /\ LogOff(<<"Unknown">>, Rest)
    /\ UNCHANGED <<downloads, cached, prompts, promised, outdated>>

\* The packet is dropped and nothing done about it.
Ignore ==
    /\ wire' = Tail(wire)
    /\ UNCHANGED <<kopete, status, downloads, promised, sock, heartBeat, timeout,
                   alive, srv, owed, outdated>>

\* 0x81 without a reason: the handler returns.
HandleNoReason == Handling("noreason") /\ Ignore

\* 0x81, reason 0: the password is marked wrong and the account logged off; the
\* case has no break, and 0x82's handler logs off again for want of a userid.
HandleReject ==
    /\ Handling("reject")
    /\ cached' = FALSE
    /\ LogOff(<<"BadPassword", "Unknown">>, Rest)
    /\ UNCHANGED <<downloads, prompts, promised, outdated>>

\* 0x81, any other reason: likewise twice.
HandleError ==
    /\ Handling("error")
    /\ LogOff(<<"Unknown", "Unknown">>, Rest)
    /\ UNCHANGED <<downloads, cached, prompts, promised, outdated>>

\* 0x82: logged in.
HandleClientUnshown ==
    /\ Handling("client")
    /\ wire' = Tail(wire)
    /\ heartBeat' = TRUE
    /\ UNCHANGED <<kopete, status, downloads, promised, sock, timeout,
                   alive, srv, owed, outdated>>
HandleClient ==
    /\ Handling("client")
    /\ wire' = Tail(wire)
    /\ heartBeat' = TRUE
    /\ SetStatus("Online")
    /\ UNCHANGED <<cached, prompts, retries, downloads, promised, sock, timeout,
                   alive, srv, owed, outdated>>

\* 0x82 without the user's id, session id or nickname.
HandleBadClient ==
    /\ Handling("badclient")
    /\ LogOff(<<"Unknown">>, Rest)
    /\ UNCHANGED <<downloads, cached, prompts, promised, outdated>>

\* slotVersionUpdated tells the user he will be reconnected, and no more.
VersionUpdated == promised' = TRUE

\* 0x86: stores the version, tells the user, logs off.
HandleVersion ==
    /\ Handling("version")
    /\ VersionUpdated
    /\ outdated' = FALSE
    /\ LogOff(<<"Manual">>, Rest)
    /\ UNCHANGED <<downloads, cached, prompts>>

\* 0x86 without a list of versions.
HandleBadVersion == Handling("badversion") /\ Ignore

\* 0x90: (re)starts m_connectionTimeout.
HandlePong ==
    /\ Handling("pong")
    /\ wire' = Tail(wire)
    /\ timeout' = TRUE
    /\ UNCHANGED <<kopete, status, downloads, promised, sock, heartBeat, alive, srv,
                   owed, outdated>>

\* 0x91: logged in somewhere else.
HandleOther ==
    /\ Handling("other")
    /\ LogOff(<<"OtherClient">>, Rest)
    /\ UNCHANGED <<downloads, cached, prompts, promised, outdated>>

\* A frame parseData rejects: log off and return, with the frame left in front of
\* m_buffer.  Every later read is rejected likewise, as if the server had sent the
\* frame again (XfireStream has the buffer).
HandleInvalid ==
    /\ reading > 0 /\ Head(wire) = "invalid"
    /\ reading' = 0
    /\ LogOff(<<"Unknown">>, <<>>)
    /\ UNCHANGED <<downloads, cached, prompts, promised, outdated>>

HandlePacket ==
    \/ HandleSalt \/ HandleBadSalt
    \/ HandleReject \/ HandleError \/ HandleNoReason
    \/ HandleClient \/ HandleBadClient
    \/ HandleVersion \/ HandleBadVersion
    \/ HandlePong \/ HandleOther \/ HandleInvalid

--------------------------------------------------------------------------------
(* The Xfire server and the network.  When srv is closing, the server has said *)
(* what ends the conversation: packets may still follow, and then it hangs up.  *)

Sends(p, s) ==
    /\ alive /\ Len(wire) < MaxWire
    /\ wire' = Append(wire, p)
    /\ srv' = s
    /\ UNCHANGED <<kopete, client, alive, outdated>>

OrBad(p, bad) == {p} \cup ({bad} \cap Malformed)

ServerGreets ==
    /\ srv = "greeted"
    /\ IF outdated THEN \E p \in OrBad("version", "badversion") : Sends(p, "closing")
                   ELSE \E p \in OrBad("salt", "badsalt") : Sends(p, "salted")
    /\ UNCHANGED owed

ServerJudges ==
    /\ srv = "asked"
    /\ \E v \in Verdicts : Sends(v, IF v = "client" THEN "session" ELSE "closing")
    /\ UNCHANGED owed

ServerPongs ==
    /\ owed /\ srv = "session"
    /\ Sends("pong", srv)
    /\ owed' = FALSE

\* The user logs in somewhere else.
ServerKicks ==
    /\ srv = "session"
    /\ Sends("other", "closing")
    /\ UNCHANGED owed

ServerTrails ==
    /\ srv = "closing"
    /\ \E p \in Trailing : Sends(p, srv)
    /\ UNCHANGED owed

ServerCloses == srv = "closing" /\ alive /\ ConnectionError

\* The network swallows everything from now on, and nobody is told.
LinkDies ==
    /\ sock = "connected" /\ alive
    /\ alive' = FALSE
    /\ UNCHANGED <<kopete, client, wire, srv, owed, outdated>>

--------------------------------------------------------------------------------

Init ==
    /\ status = "Offline" /\ restore = "Online"
    /\ downloads = 0
    /\ cached \in BOOLEAN
    /\ prompts = 0 /\ retries = 0
    /\ promised = FALSE
    /\ sock = "unconnected" /\ alive = TRUE
    /\ heartBeat = FALSE /\ timeout = FALSE
    /\ wire = <<>> /\ reading = 0
    /\ srv = "none" /\ owed = FALSE
    /\ outdated \in BOOLEAN
    /\ behind = FALSE /\ strayed = FALSE

Server == ServerGreets \/ ServerJudges \/ ServerPongs

\* Packets are left that socketRead handles on a socket that is closed.
Behind == reading > 0 /\ sock # "connected"

\* Whatever was left behind is over.
AtRest == status = "Offline" /\ Idle /\ ~heartBeat /\ ~timeout

\* connectWithPassword tests the status and slotContinueConnecting does not, so a
\* second attempt can begin before the first one connects; slotGoAway shows Away
\* whether there is a connection or not; and packets left behind may show Online.
Astray ==
    \/ downloads > 1 \/ (downloads > 0 /\ status # "Offline")
    \/ status = "Away" /\ ~heartBeat
    \/ Behind

Watch ==
    /\ behind' = (Behind' \/ (behind /\ ~AtRest'))
    /\ strayed' = (strayed \/ Astray')

Moves ==
    \/ UserGoesOnline \/ UserGoesAway \/ UserGoesOffline
    \/ Reconnect \/ PromptAnswered \/ PromptCancelled
    \/ GamesListReady \/ SocketConnected \/ SocketFailed
    \/ ConnectionError \/ ConnectionTimeout \/ SendHeartBeat
    \/ \E n \in 1..Len(wire) : SocketRead(n)
    \/ HandleSalt \/ HandleBadSalt
    \/ HandleReject \/ HandleError \/ HandleNoReason
    \/ HandleClient \/ HandleBadClient
    \/ HandleVersion \/ HandleBadVersion
    \/ HandlePong \/ HandleOther \/ HandleInvalid
    \/ ServerGreets \/ ServerJudges \/ ServerPongs \/ ServerKicks \/ ServerTrails
    \/ LinkDies

Next == Moves /\ Watch

Spec == Init /\ [][Next]_vars

\* Qt's event loop serves timers, replies and the socket; a server that can be
\* reached answers, and hangs up when it has said its last; Kopete's timers fire.
\* Nothing makes the user act.
Fairness ==
    /\ WF_moves(GamesListReady) /\ WF_moves(SocketConnected)
    /\ WF_moves(ConnectionTimeout) /\ WF_moves(SendHeartBeat)
    /\ WF_moves(\E n \in 1..Len(wire) : SocketRead(n))
    /\ WF_moves(HandlePacket) /\ WF_moves(Server) /\ SF_moves(ServerCloses)
    /\ WF_moves(Reconnect)

FairSpec == Spec /\ Fairness

--------------------------------------------------------------------------------

TypeOK ==
    /\ status \in {"Offline", "Connecting", "Online", "Away"}
    /\ restore \in {"Online", "Away"}
    /\ downloads \in Nat /\ prompts \in Nat /\ retries \in Nat
    /\ cached \in BOOLEAN /\ promised \in BOOLEAN
    /\ sock \in {"unconnected", "connecting", "connected"}
    /\ alive \in BOOLEAN /\ heartBeat \in BOOLEAN /\ timeout \in BOOLEAN
    /\ wire \in Seq(Packets)
    /\ reading \in 0..Len(wire)
    /\ srv \in {"none", "greeted", "salted", "asked", "session", "closing"}
    /\ owed \in BOOLEAN /\ outdated \in BOOLEAN
    /\ behind \in BOOLEAN /\ strayed \in BOOLEAN

\* An account that shows Offline has no socket, and once socketRead is through with
\* what it read, no packet to handle and no timer, so nothing but an attempt to
\* connect can change it: unless packets were left behind a log off, which may have
\* started a timer (logOff and closeConnection, xf_account.cpp:141 and
\* xf_server.cpp:117).
OfflineIsQuiet ==
    status = "Offline" =>
        /\ sock = "unconnected" /\ Len(wire) = reading
        /\ heartBeat \/ timeout \/ reading > 0 => behind

\* The heartbeat and its timeout run only on a connection the server accepted,
\* never on one that is still logging in or on none (xf_server.cpp:117, :355, :651).
\* The exception is behind a log off in the middle of a read, whose other packets
\* are still handled and may start them (xf_server.cpp:146).
TimersBelongToSession ==
    heartBeat \/ timeout => behind \/ (sock = "connected" /\ srv \in {"session", "closing"})

\* The account shows Online only while the server holds a session for it, and
\* then the heartbeat that keeps the session runs, until attempts overlap or packets
\* are left behind a log off (handlePacket, xf_server.cpp:354).
OnlineMeansSession ==
    isConnected /\ ~strayed =>
        /\ sock = "connected" /\ srv \in {"session", "closing"}
        /\ heartBeat

\* An account that shows Connecting has a connection that is being made or on
\* which the login is not answered yet, with the same exceptions (connectToServer,
\* xf_server.cpp:63).
ConnectingMeansLogin ==
    status = "Connecting" /\ ~strayed =>
        /\ sock # "unconnected" /\ ~heartBeat
        /\ srv = "session" => \E i \in DOMAIN wire : wire[i] = "client"

\* Offline, Connecting and Online each say what connection there is (logOff,
\* connectToServer and the handler of 0x82).
StatusAgrees == OfflineIsQuiet /\ ConnectingMeansLogin /\ OnlineMeansSession

\* A login comes to an end, Online or Offline, unless the link dies under it (it
\* has no timeout) or another attempt or packets left behind a log off interfere (slotConnected,
\* handlePacket).
LoginSettles ==
    (status = "Connecting" /\ ~strayed) ~> (status # "Connecting" \/ ~alive \/ strayed)

\* A link that dies after the first heartbeat reply is found out: the account
\* goes offline (m_connectionTimeout, xf_server.cpp:651).
DeadLinkNoticed == (timeout /\ ~alive) ~> status = "Offline"

\* "Don't attempt to connect when already online" (xf_account.cpp:89): a login
\* sequence starts only from Offline.
NoAttemptWhileOnline ==
    [][downloads' < downloads => status = "Offline"]_vars

\* "The Xfire version has been updated and you will be reconnected."
\* (xf_account.cpp:441): the reconnect that was announced happens.
ReconnectAsPromised == promised ~> ~promised

Session == INSTANCE AccountSession
    WITH status <- IF strayed THEN "Offline" ELSE status,
         session <- ~strayed /\ (heartBeat \/ \E i \in DOMAIN wire : wire[i] = "client")

\* Until attempts overlap or packets are left behind a log off, the account's status
\* is that of one session.
ImplementsSession == Session!Spec
================================================================================
