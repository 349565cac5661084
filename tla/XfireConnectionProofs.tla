------------------------- MODULE XfireConnectionProofs -------------------------
(***************************************************************************)
(* The life of a connection, for any number of downloads, prompts, timers  *)
(* and packets under way, behind a log off too: heartbeat and timeout      *)
(* belong to a session or were started behind a log off, the status agrees *)
(* with the connection, and the account implements AccountSession.         *)
(*                                                                         *)
(* What the checked invariants leave out is what the packets on the wire   *)
(* say of the server, and how many of them are still to be handled on a    *)
(* closed socket.  Without it a login answer could be handled on a         *)
(* connection that is being made, and start the heartbeat there.           *)
(***************************************************************************)
EXTENDS XfireConnection, SequenceTheorems, TLAPS

\* What the server sends in a session: its answer to the login first, and then
\* nothing but answers to heartbeats.
InSession(i) == wire[i] = "pong" \/ (i = 1 /\ wire[i] = "client")

\* What is on the wire, by how far the server is with this connection.  Where there
\* is no connection, it is what socketRead is still going through; once the server
\* has said its last, anything may follow.
Conversation ==
    /\ sock = "connected" <=> srv # "none"
    /\ srv = "none" => Len(wire) = reading
    /\ sock = "connecting" => reading = 0
    /\ srv \in {"greeted", "asked"} => Len(wire) = 0
    /\ srv = "salted" => Len(wire) \in {0, 1} /\ (Len(wire) = 1 => wire[1] \in {"salt", "badsalt"})
    /\ srv = "session" => \A i \in 1..Len(wire) : InSession(i)

\* The history variables remember what has happened, so nothing of it is so now.
OnCourse == (Astray => strayed) /\ (Behind => behind) /\ (behind => strayed)

IndInv == TypeOK /\ Conversation /\ StatusAgrees /\ TimersBelongToSession /\ OnCourse

--------------------------------------------------------------------------------
(* What the pieces of the slots do. *)

\* What the history variables remember, and what they forget only at rest.
LEMMA WatchInv ==
    ASSUME IndInv, Watch
    PROVE  /\ OnCourse' /\ strayed' \in BOOLEAN /\ behind' \in BOOLEAN
           /\ ~strayed' => ~strayed /\ ~behind /\ ~Astray /\ ~Behind /\ ~Behind'
           /\ behind /\ ~AtRest' => behind'
           /\ Behind' => behind'
<1>1. strayed \in BOOLEAN /\ behind \in BOOLEAN /\ (Astray => strayed) /\ (behind => strayed)
  BY DEF IndInv, TypeOK, OnCourse
<1>2. strayed' \in BOOLEAN /\ behind' \in BOOLEAN
  BY <1>1 DEF Watch, Astray, Behind, AtRest
<1>3. Astray' => strayed'
  BY DEF Watch
<1>4. Behind' => behind' /\ strayed'
  BY <1>3 DEF Watch, Astray
<1>5. behind' => strayed'
  BY <1>1, <1>4 DEF Watch
<1>6. ~strayed' => ~strayed
  BY DEF Watch
<1>7. behind /\ ~AtRest' => behind'
  BY DEF Watch
<1>8. OnCourse'
  BY <1>3, <1>4, <1>5 DEF OnCourse
<1>9. Behind => Astray
  BY DEF Astray
<1> QED BY <1>1, <1>2, <1>4, <1>6, <1>7, <1>8, <1>9

\* The reasons the handlers give to logOff, in the order they call it.
Reasons == {<<"Manual">>, <<"ConnectionReset">>, <<"OtherClient">>, <<"Unknown">>,
            <<"BadPassword", "Unknown">>, <<"Unknown", "Unknown">>}

\* A log off starts at most as many timers as Kopete may run.
LEMMA LogOffRetries ==
    ASSUME TypeOK, NEW reasons \in Reasons, NEW left, LogOff(reasons, left)
    PROVE  retries' \in Nat
<1>1. retries \in Nat /\ MaxRetries \in Nat
  BY BoundsAssumption DEF TypeOK
<1>2. \A r \in {"Manual", "ConnectionReset", "OtherClient", "BadPassword", "Unknown"} :
         Timers(r) \subseteq {0, 1}
  BY DEF Timers
<1>4. CASE reasons \in {<<"Manual">>, <<"ConnectionReset">>, <<"OtherClient">>, <<"Unknown">>}
  <2>1. Len(reasons) = 1 /\ reasons[1] \in {"Manual", "ConnectionReset", "OtherClient", "Unknown"}
    BY <1>4
  <2>2. PICK t \in Timers(reasons[1]) : retries' = Min2(retries + t, MaxRetries)
    BY <2>1 DEF LogOff
  <2>3. t \in {0, 1}
    BY <2>1, <2>2, <1>2
  <2> QED BY <2>2, <2>3, <1>1 DEF Min2
<1>5. CASE reasons \in {<<"BadPassword", "Unknown">>, <<"Unknown", "Unknown">>}
  <2>1. Len(reasons) = 2 /\ reasons[1] \in {"BadPassword", "Unknown"} /\ reasons[2] = "Unknown"
    BY <1>5
  <2>2. PICK t \in Timers(reasons[1]), u \in Timers(reasons[2]) :
           retries' = Min2(retries + t + u, MaxRetries)
    BY <2>1 DEF LogOff
  <2>3. t \in {0, 1} /\ u \in {0, 1}
    BY <2>1, <2>2, <1>2
  <2> QED BY <2>2, <2>3, <1>1 DEF Min2
<1> QED BY <1>4, <1>5 DEF Reasons

\* After a log off there is no connection, Offline is shown, and the packets that are
\* left, if any, are remembered.
LEMMA LogOffInv ==
    ASSUME IndInv, NEW reasons \in Reasons, NEW left \in Seq(Packets), LogOff(reasons, left),
           Watch, downloads' \in Nat, prompts' \in Nat, cached' \in BOOLEAN,
           promised' \in BOOLEAN, outdated' \in BOOLEAN, reading' = Len(left)
    PROVE  IndInv'
<1>0. TypeOK
  BY DEF IndInv
<1>1. /\ status' = "Offline" /\ restore' = restore
      /\ sock' = "unconnected" /\ wire' = left /\ srv' = "none"
      /\ owed' = FALSE /\ alive' = TRUE /\ heartBeat' = FALSE /\ timeout' = FALSE
  BY DEF LogOff, CloseConnection, SocketClosed, SetStatus
<1>2. retries' \in Nat /\ strayed' \in BOOLEAN /\ behind' \in BOOLEAN
  BY <1>0, LogOffRetries, WatchInv
<1>3. TypeOK'
  <2>1. Len(left) \in Nat /\ reading' \in 0..Len(wire')
    BY <1>1, LenProperties
  <2> QED BY <1>0, <1>1, <1>2, <2>1 DEF TypeOK
<1>4. Conversation' /\ TimersBelongToSession'
  BY <1>1 DEF Conversation, TimersBelongToSession
<1>5. StatusAgrees'
  <2>1. reading' > 0 => behind'
    BY <1>1, WatchInv DEF Behind
  <2> QED BY <1>1, <2>1 DEF StatusAgrees, OfflineIsQuiet, ConnectingMeansLogin,
                            OnlineMeansSession, isConnected
<1> QED BY <1>3, <1>4, <1>5, WatchInv DEF IndInv

\* The connection stays as it is, and the status too unless it is set to one of a
\* connected account, while it was one or because the user goes away.
LEMMA StatusInv ==
    ASSUME IndInv, Watch,
           UNCHANGED <<promised, sock, heartBeat, timeout, reading, server>>,
           \/ UNCHANGED <<status, restore>>
           \/ SetStatus("Online") /\ isConnected
           \/ SetStatus("Away"),
           downloads' \in Nat, prompts' \in Nat, retries' \in Nat, cached' \in BOOLEAN
    PROVE  IndInv'
<1>1. TypeOK'
  <2>1. strayed' \in BOOLEAN /\ behind' \in BOOLEAN
    BY WatchInv
  <2> QED BY <2>1 DEF IndInv, TypeOK, server, SetStatus
<1>2. heartBeat \/ timeout \/ reading > 0 => ~AtRest'
  BY DEF AtRest, Idle, IndInv, TypeOK
<1>3. Conversation' /\ TimersBelongToSession'
  BY <1>2, WatchInv DEF IndInv, Conversation, InSession, TimersBelongToSession, server
<1>4. StatusAgrees'
  <2>1. OfflineIsQuiet'
    BY <1>2, WatchInv DEF IndInv, StatusAgrees, OfflineIsQuiet, SetStatus, server
  <2>2. ConnectingMeansLogin'
    BY WatchInv DEF IndInv, StatusAgrees, ConnectingMeansLogin, SetStatus, server
  <2>3. OnlineMeansSession'
    <3>1. SUFFICES ASSUME isConnected', ~strayed'
                   PROVE  sock = "connected" /\ srv \in {"session", "closing"} /\ heartBeat
      BY DEF OnlineMeansSession, server
    <3>2. CASE SetStatus("Away")
      <4>1. ~Astray' /\ ~behind
        BY <3>1, WatchInv DEF OnCourse
      <4> QED BY <3>2, <4>1 DEF SetStatus, Astray, IndInv, TimersBelongToSession, server
    <3>3. CASE isConnected
      BY <3>1, <3>3, WatchInv DEF IndInv, StatusAgrees, OnlineMeansSession
    <3>4. CASE UNCHANGED <<status, restore>> /\ ~isConnected
      BY <3>1, <3>4 DEF isConnected
    <3> QED BY <3>2, <3>3, <3>4
  <2> QED BY <2>1, <2>2, <2>3 DEF StatusAgrees
<1> QED BY <1>1, <1>3, <1>4, WatchInv DEF IndInv

\* Packets on the wire, and what handling the first of them leaves there.
LEMMA WireFront ==
    ASSUME TypeOK, reading > 0
    PROVE  /\ Len(wire) \in Nat /\ Len(wire) >= 1 /\ DOMAIN wire = 1..Len(wire)
           /\ reading \in 1..Len(wire)
           /\ Head(wire) = wire[1]
           /\ Tail(wire) \in Seq(Packets) /\ Len(Tail(wire)) = Len(wire) - 1
           /\ \A i \in 1..(Len(wire) - 1) : Tail(wire)[i] = wire[i + 1]
<1>1. wire \in Seq(Packets) /\ Len(wire) \in Nat /\ DOMAIN wire = 1..Len(wire)
  BY LenProperties DEF TypeOK
<1>2. Len(wire) >= 1 /\ reading \in 1..Len(wire)
  BY <1>1 DEF TypeOK
<1>3. wire # <<>>
  BY <1>2
<1>4. Head(wire) = wire[1]
  BY <1>1, <1>3
<1> QED BY <1>1, <1>2, <1>3, <1>4, HeadTailProperties

\* What a handler that logs off leaves to the rest of socketRead's loop.
LEMMA RestLeft ==
    ASSUME TypeOK, reading > 0
    PROVE  Rest \in Seq(Packets) /\ Len(Rest) = reading - 1
<1>1. wire \in Seq(Packets) /\ Len(wire) \in Nat /\ reading \in 1..Len(wire)
  BY WireFront DEF TypeOK
<1>2. Rest = [i \in 1..(reading - 1) |-> wire[i + 1]]
  BY <1>1 DEF Rest
<1>3. \A i \in 1..(reading - 1) : i + 1 \in 1..Len(wire)
  BY <1>1
<1>4. \A i \in 1..(reading - 1) : wire[i + 1] \in Packets
  BY <1>1, <1>3, ElementOfSeq
<1>5. reading - 1 \in Nat
  BY <1>1
<1> QED BY <1>2, <1>4, <1>5, IsASeq

\* Which connection the packet is handled on that is in front: one that is closed, or
\* one on which the server is as far as the packet says.
LEMMA FrontOf ==
    ASSUME IndInv, reading > 0
    PROVE  /\ sock # "connecting"
           /\ sock # "connected" => srv = "none" /\ behind /\ strayed
           /\ sock = "connected" => srv \in {"salted", "session", "closing"}
           /\ srv = "salted" => Head(wire) \in {"salt", "badsalt"} /\ Len(wire) = 1
           /\ srv = "session" => Head(wire) \in {"client", "pong"}
<1>1. /\ Len(wire) \in Nat /\ Len(wire) >= 1 /\ Head(wire) = wire[1]
  BY WireFront DEF IndInv
<1>2. sock # "connecting" /\ (sock # "connected" => srv = "none")
  BY DEF IndInv, Conversation, TypeOK
<1>3. sock # "connected" => behind /\ strayed
  BY DEF IndInv, OnCourse, Behind
<1>4. srv \notin {"greeted", "asked"}
  BY <1>1 DEF IndInv, Conversation
<1>5. sock = "connected" => srv \in {"salted", "session", "closing"}
  BY <1>4 DEF IndInv, Conversation, TypeOK
<1>6. srv = "salted" => Head(wire) \in {"salt", "badsalt"} /\ Len(wire) = 1
  BY <1>1 DEF IndInv, Conversation
<1>7. srv = "session" => Head(wire) \in {"client", "pong"}
  <2>1. 1 \in 1..Len(wire)
    BY <1>1
  <2> QED BY <1>1, <2>1 DEF IndInv, Conversation, InSession
<1> QED BY <1>2, <1>3, <1>5, <1>6, <1>7

\* A packet is taken from the wire, and the conversation goes on.
LEMMA TailConversation ==
    ASSUME IndInv, reading > 0, wire' = Tail(wire), reading' = reading - 1, sock' = sock,
           srv' = srv \/ (srv = "salted" /\ srv' = "asked")
    PROVE  /\ Conversation' /\ wire' \in Seq(Packets) /\ reading' \in 0..Len(wire')
           /\ srv = "session" => \A i \in DOMAIN wire' : wire'[i] = "pong"
<1>1. /\ Len(wire) \in Nat /\ Len(wire) >= 1 /\ reading \in 1..Len(wire)
      /\ wire' \in Seq(Packets) /\ Len(wire') = Len(wire) - 1
      /\ \A i \in 1..(Len(wire) - 1) : wire'[i] = wire[i + 1]
  BY WireFront DEF IndInv
<1>2. reading' \in 0..Len(wire') /\ DOMAIN wire' = 1..Len(wire')
  BY <1>1, LenProperties
<1>3. ASSUME srv = "session", NEW i \in 1..Len(wire')
      PROVE  wire'[i] = "pong"
  <2>1. i + 1 \in 1..Len(wire) /\ i + 1 # 1 /\ wire'[i] = wire[i + 1]
    BY <1>1
  <2>2. InSession(i + 1)
    BY <1>3, <2>1 DEF IndInv, Conversation
  <2> QED BY <2>1, <2>2 DEF InSession
<1>4. /\ sock' = "connected" <=> srv' # "none"
      /\ srv' = "none" => Len(wire') = reading'
      /\ sock' = "connecting" => reading' = 0
      /\ srv' \in {"greeted", "asked", "salted"} => Len(wire') = 0
  <2>1. /\ sock # "connecting" /\ srv \notin {"greeted", "asked"}
        /\ srv = "salted" => Len(wire) = 1
        /\ sock = "connected" <=> srv # "none"
        /\ srv = "none" => Len(wire) = reading
    BY FrontOf DEF IndInv, Conversation
  <2>2. sock' = "connected" <=> srv' # "none"
    BY <2>1
  <2>3. srv' = "none" => Len(wire') = reading'
    BY <2>1, <1>1
  <2>4. srv' \in {"greeted", "asked", "salted"} => srv = "salted"
    BY <2>1
  <2>5. srv = "salted" => Len(wire') = 0
    <3>1. Len(wire') = Len(wire) - 1
      BY <1>1
    <3> QED BY <2>1, <3>1
  <2> QED BY <2>1, <2>2, <2>3, <2>4, <2>5
<1>5. srv' = "session" => \A i \in 1..Len(wire') : InSession(i)'
  BY <1>3 DEF InSession
<1>6. Conversation'
  BY <1>4, <1>5 DEF Conversation
<1> QED BY <1>1, <1>2, <1>3, <1>6

\* Kopete asks for a password or has one.
LEMMA KopeteConnectTyped ==
    ASSUME TypeOK, KopeteConnect
    PROVE  downloads' \in Nat /\ prompts' \in Nat
  BY DEF TypeOK, KopeteConnect, ConnectWithPassword

--------------------------------------------------------------------------------
(* Every step keeps the invariant. *)

\* Steps that move nothing but what is owed, how much is read and the link.
LEMMA LinkInv ==
    ASSUME IndInv, Watch,
           UNCHANGED <<kopete, status, downloads, promised, sock, heartBeat, timeout,
                       wire, srv, outdated>>,
           owed' \in BOOLEAN, alive' \in BOOLEAN, reading' \in 0..Len(wire),
           reading' = reading \/ sock = "connected"
    PROVE  IndInv'
<1>1. TypeOK'
  <2>1. strayed' \in BOOLEAN /\ behind' \in BOOLEAN
    BY WatchInv
  <2> QED BY <2>1 DEF IndInv, TypeOK, kopete
<1>2. heartBeat \/ timeout \/ reading' > 0 => ~AtRest'
  BY DEF AtRest, Idle, IndInv, TypeOK
<1>3. Conversation' /\ TimersBelongToSession'
  BY <1>2, WatchInv DEF IndInv, Conversation, InSession, TimersBelongToSession
<1>4. OfflineIsQuiet'
  BY <1>2, WatchInv DEF IndInv, StatusAgrees, OfflineIsQuiet
<1>5. ConnectingMeansLogin' /\ OnlineMeansSession'
  BY WatchInv DEF IndInv, StatusAgrees, ConnectingMeansLogin, OnlineMeansSession, isConnected
<1> QED BY <1>1, <1>3, <1>4, <1>5, WatchInv DEF IndInv, StatusAgrees

\* GoOffline logs off or does nothing.
LEMMA GoOfflineInv ==
    ASSUME IndInv, Watch, Idle, GoOffline, prompts' \in Nat,
           UNCHANGED <<downloads, cached, promised, reading, outdated>>
    PROVE  IndInv'
<1>1. /\ TypeOK /\ reading' = Len(<<>>) /\ <<"Manual">> \in Reasons
      /\ <<>> \in Seq(Packets)
  BY EmptySeq DEF IndInv, Idle, Reasons
<1>2. CASE isConnected \/ status = "Connecting"
  BY <1>1, <1>2, LogOffInv DEF GoOffline, TypeOK
<1>3. CASE ~(isConnected \/ status = "Connecting")
  <2>1. UNCHANGED <<status, restore, sock, heartBeat, timeout, wire, srv, owed, alive, retries>>
    BY <1>3 DEF GoOffline
  <2>2. UNCHANGED <<promised, sock, heartBeat, timeout, reading, server>>
    BY <2>1 DEF server
  <2>3. downloads' \in Nat /\ retries' \in Nat /\ cached' \in BOOLEAN
    BY <2>1, <1>1 DEF TypeOK
  <2> QED BY <2>1, <2>2, <2>3, StatusInv
<1> QED BY <1>2, <1>3

\* An attempt goes on: until attempts overlap, from Offline, where all is quiet.
LEMMA GamesListReadyInv == ASSUME IndInv, Watch, GamesListReady PROVE IndInv'
<1>1. /\ status' = "Connecting" /\ restore' = restore /\ reading = 0
      /\ sock' = IF sock = "unconnected" THEN "connecting" ELSE sock
      /\ downloads > 0 /\ downloads' = downloads - 1 /\ promised' = FALSE
      /\ UNCHANGED <<cached, prompts, retries, heartBeat, timeout, reading,
                     alive, wire, srv, owed, outdated>>
  BY DEF GamesListReady, ConnectToServer, SetStatus, server, Idle
<1>2. TypeOK'
  <2>1. /\ downloads' \in Nat /\ sock' \in {"unconnected", "connecting", "connected"}
    BY <1>1 DEF IndInv, TypeOK
  <2> QED BY <1>1, <2>1, WatchInv DEF IndInv, TypeOK
<1>3. Conversation'
  BY <1>1 DEF IndInv, TypeOK, Conversation, InSession
<1>4. TimersBelongToSession'
  <2>1. behind => behind'
    BY <1>1, WatchInv DEF AtRest
  <2> QED BY <1>1, <2>1 DEF IndInv, TimersBelongToSession
<1>5. StatusAgrees'
  <2>1. OfflineIsQuiet' /\ OnlineMeansSession'
    BY <1>1 DEF OfflineIsQuiet, OnlineMeansSession, isConnected
  <2>2. ASSUME ~strayed'
        PROVE  sock' # "unconnected" /\ ~heartBeat' /\ srv' # "session"
    <3>1. ~strayed /\ ~Astray /\ ~behind
      BY <2>2, WatchInv
    <3>2. status = "Offline"
      BY <3>1, <1>1 DEF Astray
    <3>3. sock = "unconnected" /\ ~heartBeat /\ srv = "none"
      BY <3>1, <3>2 DEF IndInv, StatusAgrees, OfflineIsQuiet, Conversation
    <3> QED BY <3>3, <1>1
  <2>3. ConnectingMeansLogin'
    BY <2>2 DEF ConnectingMeansLogin
  <2> QED BY <2>1, <2>3 DEF StatusAgrees
<1> QED BY <1>2, <1>3, <1>4, <1>5, WatchInv DEF IndInv

\* The connection is there, and nothing was said on it yet.
LEMMA SocketConnectedInv == ASSUME IndInv, Watch, SocketConnected PROVE IndInv'
<1>1. /\ sock = "connecting" /\ sock' = "connected" /\ srv' = "greeted" /\ reading = 0
      /\ UNCHANGED <<restore, cached, prompts, retries, status, downloads, promised,
                     heartBeat, timeout, reading, alive, wire, owed, outdated>>
  BY DEF SocketConnected, kopete, Idle
<1>2. srv = "none" /\ Len(wire) = 0 /\ (heartBeat \/ timeout => behind) /\ status # "Offline"
  BY <1>1 DEF IndInv, TypeOK, Conversation, TimersBelongToSession, StatusAgrees, OfflineIsQuiet
<1>3. TypeOK'
  BY <1>1, WatchInv DEF IndInv, TypeOK
<1>4. Conversation' /\ TimersBelongToSession'
  BY <1>1, <1>2, WatchInv DEF Conversation, TimersBelongToSession, AtRest
<1>5. StatusAgrees'
  BY <1>1, <1>2, WatchInv DEF IndInv, StatusAgrees, OfflineIsQuiet, ConnectingMeansLogin,
                              OnlineMeansSession, isConnected
<1> QED BY <1>3, <1>4, <1>5, WatchInv DEF IndInv

\* The connection failed after all, was interrupted or timed out.
LEMMA InterruptedInv ==
    ASSUME IndInv, Watch, SocketFailed \/ ConnectionError \/ ConnectionTimeout
    PROVE  IndInv'
<1>1. /\ <<>> \in Seq(Packets) /\ reading' = Len(<<>>)
      /\ downloads' \in Nat /\ prompts' \in Nat /\ cached' \in BOOLEAN
      /\ promised' \in BOOLEAN /\ outdated' \in BOOLEAN
  BY EmptySeq DEF SocketFailed, ConnectionError, ConnectionTimeout, Idle, IndInv, TypeOK
<1>2. LogOff(<<"ConnectionReset">>, <<>>) \/ LogOff(<<"Unknown">>, <<>>)
  BY DEF SocketFailed, ConnectionError, ConnectionTimeout
<1>3. <<"ConnectionReset">> \in Reasons /\ <<"Unknown">> \in Reasons
  BY DEF Reasons
<1> QED BY <1>1, <1>2, <1>3, LogOffInv

\* The handlers that log off leave the rest of the read.
LEMMA GoodbyeInv ==
    ASSUME IndInv, Watch,
           HandleBadSalt \/ HandleReject \/ HandleError \/ HandleBadClient
           \/ HandleVersion \/ HandleOther
    PROVE  IndInv'
<1>0. TypeOK
  BY DEF IndInv
<1>1. reading > 0 /\ reading' = reading - 1
  BY DEF HandleBadSalt, HandleReject, HandleError, HandleBadClient, HandleVersion,
         HandleOther, Handling
<1>2. Rest \in Seq(Packets) /\ reading' = Len(Rest)
  BY <1>0, <1>1, RestLeft
<1>3. CASE HandleReject
  BY <1>0, <1>2, <1>3, LogOffInv DEF HandleReject, Reasons, TypeOK
<1>4. CASE HandleError
  BY <1>0, <1>2, <1>4, LogOffInv DEF HandleError, Reasons, TypeOK
<1>5. CASE HandleVersion
  BY <1>0, <1>2, <1>5, LogOffInv DEF HandleVersion, VersionUpdated, Reasons, TypeOK
<1>6. CASE HandleOther
  BY <1>0, <1>2, <1>6, LogOffInv DEF HandleOther, Reasons, TypeOK
<1>7. CASE HandleBadSalt
  BY <1>0, <1>2, <1>7, LogOffInv DEF HandleBadSalt, Reasons, TypeOK
<1>8. CASE HandleBadClient
  BY <1>0, <1>2, <1>8, LogOffInv DEF HandleBadClient, Reasons, TypeOK
<1> QED BY <1>3, <1>4, <1>5, <1>6, <1>7, <1>8

\* A frame that is no packet ends the read.
LEMMA HandleInvalidInv == ASSUME IndInv, Watch, HandleInvalid PROVE IndInv'
<1>1. <<>> \in Seq(Packets) /\ reading' = Len(<<>>) /\ <<"Unknown">> \in Reasons
  BY EmptySeq DEF HandleInvalid, Reasons
<1> QED BY <1>1, LogOffInv DEF HandleInvalid, IndInv, TypeOK

\* The salt is answered, if the server waits for it; a packet without its attribute is
\* dropped.
LEMMA FrontDroppedInv ==
    ASSUME IndInv, Watch, HandleSalt \/ HandleNoReason \/ HandleBadVersion
    PROVE  IndInv'
<1>0. TypeOK
  BY DEF IndInv
<1>1. /\ reading > 0 /\ Head(wire) \notin {"client", "pong"}
      /\ wire' = Tail(wire) /\ reading' = reading - 1
      /\ srv' = srv \/ (srv = "salted" /\ srv' = "asked")
      /\ UNCHANGED <<restore, cached, prompts, retries, status, downloads, promised,
                     sock, heartBeat, timeout, alive, owed, outdated>>
  BY DEF HandleSalt, HandleNoReason, HandleBadVersion, Ignore, Handling, Login, kopete
<1>2. /\ Conversation' /\ wire' \in Seq(Packets) /\ reading' \in 0..Len(wire')
      /\ srv # "session"
  BY <1>0, <1>1, TailConversation, FrontOf
<1>3. TypeOK'
  BY <1>0, <1>1, <1>2, WatchInv DEF TypeOK
<1>4. heartBeat \/ timeout => ~AtRest'
  BY <1>0, <1>1 DEF AtRest, TypeOK
<1>5. TimersBelongToSession'
  BY <1>1, <1>4, WatchInv DEF IndInv, TimersBelongToSession
<1>6. OfflineIsQuiet'
  <2>1. SUFFICES ASSUME status = "Offline"
                 PROVE  /\ sock = "unconnected" /\ Len(wire') = reading'
                        /\ heartBeat \/ timeout \/ reading' > 0 => behind'
    BY <1>1 DEF OfflineIsQuiet
  <2>2. sock = "unconnected" /\ (heartBeat \/ timeout => behind)
    BY <2>1 DEF IndInv, StatusAgrees, OfflineIsQuiet
  <2>3. srv = "none" /\ srv' = "none"
    BY <2>2, <1>0, <1>1 DEF IndInv, Conversation
  <2>4. Len(wire') = reading'
    BY <2>3, <1>2 DEF Conversation
  <2>5. reading' > 0 => behind'
    BY <2>2, <1>1, WatchInv DEF Behind
  <2> QED BY <2>2, <2>4, <2>5, <1>4, WatchInv
<1>7. ConnectingMeansLogin' /\ OnlineMeansSession'
  BY <1>1, <1>2, WatchInv DEF IndInv, StatusAgrees, ConnectingMeansLogin,
                              OnlineMeansSession, isConnected
<1> QED BY <1>2, <1>3, <1>5, <1>6, <1>7, WatchInv DEF IndInv, StatusAgrees

\* The login is accepted: the account goes online in a session, or behind a log off.
LEMMA HandleClientInv == ASSUME IndInv, Watch, HandleClient PROVE IndInv'
<1>0. TypeOK
  BY DEF IndInv
<1>1. /\ reading > 0 /\ Head(wire) = "client" /\ wire' = Tail(wire) /\ reading' = reading - 1
      /\ heartBeat' = TRUE /\ status' = "Online" /\ restore' = "Online"
      /\ UNCHANGED <<cached, prompts, retries, downloads, promised, sock, timeout,
                     alive, srv, owed, outdated>>
  BY DEF HandleClient, Handling, SetStatus
<1>2. /\ Conversation' /\ wire' \in Seq(Packets) /\ reading' \in 0..Len(wire')
      /\ sock # "connected" => behind /\ strayed
      /\ sock = "connected" => srv \in {"session", "closing"}
  BY <1>0, <1>1, TailConversation, FrontOf
<1>3. TypeOK'
  BY <1>0, <1>1, <1>2, WatchInv DEF TypeOK
<1>4. behind => behind'
  BY <1>1, WatchInv DEF AtRest
<1>5. StatusAgrees' /\ TimersBelongToSession'
  BY <1>1, <1>2, <1>4, WatchInv DEF StatusAgrees, OfflineIsQuiet, ConnectingMeansLogin,
                    OnlineMeansSession, isConnected, TimersBelongToSession
<1> QED BY <1>2, <1>3, <1>5, WatchInv DEF IndInv

\* An answer to a heartbeat starts the timeout, in a session or behind a log off.
LEMMA HandlePongInv == ASSUME IndInv, Watch, HandlePong PROVE IndInv'
<1>0. TypeOK
  BY DEF IndInv
<1>1. /\ reading > 0 /\ Head(wire) = "pong" /\ wire' = Tail(wire) /\ reading' = reading - 1
      /\ timeout' = TRUE
      /\ UNCHANGED <<restore, cached, prompts, retries, status, downloads, promised,
                     sock, heartBeat, alive, srv, owed, outdated>>
  BY DEF HandlePong, Handling, kopete
<1>2. /\ Conversation' /\ wire' \in Seq(Packets) /\ reading' \in 0..Len(wire')
      /\ sock # "connected" => srv = "none" /\ behind /\ strayed
      /\ sock = "connected" => srv \in {"session", "closing"}
  BY <1>0, <1>1, TailConversation, FrontOf
<1>3. TypeOK'
  BY <1>0, <1>1, <1>2, WatchInv DEF TypeOK
<1>4. behind => behind'
  BY <1>1, WatchInv DEF AtRest
<1>5. TimersBelongToSession'
  BY <1>1, <1>2, <1>4 DEF TimersBelongToSession
<1>6. StatusAgrees'
  <2>1. OfflineIsQuiet'
    BY <1>1, <1>2, <1>4 DEF IndInv, StatusAgrees, OfflineIsQuiet, Conversation
  <2>2. OnlineMeansSession'
    BY <1>1, WatchInv DEF IndInv, StatusAgrees, OnlineMeansSession, isConnected
  <2>3. ASSUME status = "Connecting", ~strayed, srv = "session"
        PROVE  \E i \in DOMAIN wire' : wire'[i] = "client"
    <3>1. /\ Len(wire) \in Nat /\ Len(wire) >= 1 /\ DOMAIN wire = 1..Len(wire)
          /\ Head(wire) = wire[1] /\ Len(wire') = Len(wire) - 1
          /\ \A i \in 1..(Len(wire) - 1) : wire'[i] = wire[i + 1]
      BY <1>0, <1>1, WireFront
    <3>2. PICK i \in 1..Len(wire) : wire[i] = "client"
      BY <2>3, <3>1 DEF IndInv, StatusAgrees, ConnectingMeansLogin
    <3>3. i - 1 \in 1..(Len(wire) - 1) /\ (i - 1) + 1 = i
      BY <3>1, <3>2, <1>1
    <3>4. i - 1 \in DOMAIN wire'
      BY <3>1, <3>3, <1>2, LenProperties
    <3> QED BY <3>1, <3>2, <3>3, <3>4
  <2>4. ConnectingMeansLogin'
    BY <2>3, <1>1, WatchInv DEF IndInv, StatusAgrees, ConnectingMeansLogin
  <2> QED BY <2>1, <2>2, <2>4 DEF StatusAgrees
<1> QED BY <1>2, <1>3, <1>5, <1>6, WatchInv DEF IndInv

\* What the server says next goes behind what it said.
LEMMA SendsEffect ==
    ASSUME TypeOK, NEW p \in Packets, NEW t, Sends(p, t)
    PROVE  /\ Len(wire) \in Nat /\ wire' \in Seq(Packets) /\ Len(wire') = Len(wire) + 1
           /\ DOMAIN wire = 1..Len(wire) /\ DOMAIN wire' = 1..Len(wire')
           /\ wire'[Len(wire')] = p /\ wire' # <<>>
           /\ \A i \in 1..Len(wire) : wire'[i] = wire[i]
           /\ srv' = t
           /\ UNCHANGED <<restore, cached, prompts, retries, status, downloads, promised,
                          sock, heartBeat, timeout, reading, alive, outdated>>
<1>1. wire' = Append(wire, p) /\ wire \in Seq(Packets) /\ Len(wire) \in Nat
  BY LenProperties DEF Sends, TypeOK
<1>2. /\ wire' \in Seq(Packets) /\ Len(wire') = Len(wire) + 1
      /\ wire'[Len(wire) + 1] = p
      /\ \A i \in 1..Len(wire) : wire'[i] = wire[i]
  BY <1>1, AppendProperties
<1>3. DOMAIN wire = 1..Len(wire) /\ DOMAIN wire' = 1..Len(wire')
  BY <1>1, <1>2, LenProperties
<1>4. wire' # <<>>
  <2>1. Len(wire') # 0
    BY <1>1, <1>2
  <2> QED BY <2>1
<1>5. /\ srv' = t
      /\ UNCHANGED <<restore, cached, prompts, retries, status, downloads, promised,
                     sock, heartBeat, timeout, reading, alive, outdated>>
  BY DEF Sends, kopete, client
<1> QED BY <1>1, <1>2, <1>3, <1>4, <1>5

\* A packet of the server that fits how far it is with the connection.
LEMMA SendsInv ==
    ASSUME IndInv, Watch, NEW p \in Packets, NEW t \in {"salted", "session", "closing"},
           Sends(p, t), owed' \in BOOLEAN, srv # "none",
           \/ t = "closing"
           \/ srv = "greeted" /\ p \in {"salt", "badsalt"} /\ t = "salted"
           \/ srv = "asked" /\ p = "client" /\ t = "session"
           \/ srv = "session" /\ p = "pong" /\ t = "session"
    PROVE  IndInv'
<1>0. TypeOK /\ Conversation
  BY DEF IndInv
<1>1. /\ Len(wire) \in Nat /\ wire' \in Seq(Packets) /\ Len(wire') = Len(wire) + 1
      /\ DOMAIN wire = 1..Len(wire) /\ DOMAIN wire' = 1..Len(wire')
      /\ wire'[Len(wire')] = p /\ wire' # <<>>
      /\ \A i \in 1..Len(wire) : wire'[i] = wire[i]
      /\ srv' = t
      /\ UNCHANGED <<restore, cached, prompts, retries, status, downloads, promised,
                     sock, heartBeat, timeout, reading, alive, outdated>>
  BY <1>0, SendsEffect
<1>2. TypeOK'
  <2>1. reading' \in 0..Len(wire')
    BY <1>0, <1>1 DEF TypeOK
  <2> QED BY <1>0, <1>1, <2>1, WatchInv DEF TypeOK
<1>3. sock = "connected" /\ status # "Offline"
  BY <1>0 DEF Conversation, IndInv, StatusAgrees, OfflineIsQuiet
<1>4. srv \in {"greeted", "asked"} => Len(wire) = 0
  BY <1>0 DEF Conversation
<1>5. behind => behind'
  BY <1>1, <1>3, WatchInv DEF AtRest
<1>6. \A i \in 1..Len(wire') : i \in 1..Len(wire) \/ i = Len(wire')
  BY <1>1
<1>7. ASSUME t = "session", NEW i \in 1..Len(wire')
      PROVE  InSession(i)'
  <2>1. CASE i \in 1..Len(wire)
    <3>1. srv = "session"
      BY <1>7, <2>1, <1>4
    <3>2. InSession(i)
      BY <3>1, <2>1, <1>0 DEF Conversation
    <3> QED BY <3>2, <2>1, <1>1 DEF InSession
  <2>2. CASE i = Len(wire')
    BY <2>2, <1>1, <1>4, <1>7 DEF InSession
  <2> QED BY <2>1, <2>2, <1>6
<1>8. Conversation'
  <2>1. sock' = "connected" /\ srv' = t /\ t # "none" /\ t \notin {"greeted", "asked"}
    BY <1>1, <1>3
  <2>2. t = "salted" => Len(wire') = 1 /\ wire'[1] \in {"salt", "badsalt"}
    BY <1>1, <1>4
  <2> QED BY <2>1, <2>2, <1>7 DEF Conversation
<1>9. TimersBelongToSession'
  BY <1>1, <1>3, <1>5 DEF IndInv, TimersBelongToSession
<1>10. StatusAgrees'
  <2>1. OfflineIsQuiet'
    BY <1>1, <1>3 DEF OfflineIsQuiet
  <2>2. OnlineMeansSession'
    <3>1. SUFFICES ASSUME isConnected', ~strayed'
                   PROVE  srv' \in {"session", "closing"} /\ heartBeat
      BY <1>1, <1>3 DEF OnlineMeansSession
    <3>2. srv \in {"session", "closing"} /\ heartBeat
      BY <3>1, <1>1, WatchInv DEF IndInv, StatusAgrees, OnlineMeansSession, isConnected
    <3> QED BY <3>2, <1>1
  <2>3. ASSUME status = "Connecting", ~strayed, t = "session"
        PROVE  \E i \in DOMAIN wire' : wire'[i] = "client"
    <3>1. CASE srv = "asked"
      <4>1. p = "client" /\ Len(wire') \in DOMAIN wire'
        BY <2>3, <3>1, <1>1
      <4> QED BY <4>1, <1>1
    <3>2. CASE srv = "session"
      <4>1. PICK i \in 1..Len(wire) : wire[i] = "client"
        BY <2>3, <3>2, <1>1 DEF IndInv, StatusAgrees, ConnectingMeansLogin
      <4>2. i \in DOMAIN wire' /\ wire'[i] = "client"
        BY <4>1, <1>1
      <4> QED BY <4>2
    <3> QED BY <2>3, <3>1, <3>2
  <2>4. ConnectingMeansLogin'
    BY <2>3, <1>1, <1>3, WatchInv DEF IndInv, StatusAgrees, ConnectingMeansLogin
  <2> QED BY <2>1, <2>2, <2>4 DEF StatusAgrees
<1> QED BY <1>2, <1>8, <1>9, <1>10, WatchInv DEF IndInv

\* The server greets, judges, answers heartbeats, ends sessions, and may go on then.
LEMMA ServerInv ==
    ASSUME IndInv, Watch,
           ServerGreets \/ ServerJudges \/ ServerPongs \/ ServerKicks \/ ServerTrails
    PROVE  IndInv'
<1>0. owed' \in BOOLEAN /\ srv # "none"
  BY DEF ServerGreets, ServerJudges, ServerPongs, ServerKicks, ServerTrails, IndInv, TypeOK
<1>1. CASE ServerGreets
  <2>1. srv = "greeted"
    BY <1>1 DEF ServerGreets
  <2>2. \/ \E p \in {"version", "badversion"} : Sends(p, "closing")
        \/ \E p \in {"salt", "badsalt"} : Sends(p, "salted")
    BY <1>1 DEF ServerGreets, OrBad
  <2>3. {"version", "badversion", "salt", "badsalt"} \subseteq Packets
    BY DEF Packets
  <2>4. CASE \E p \in {"version", "badversion"} : Sends(p, "closing")
    BY <1>0, <2>3, <2>4, SendsInv
  <2>5. CASE \E p \in {"salt", "badsalt"} : Sends(p, "salted")
    BY <1>0, <2>1, <2>3, <2>5, SendsInv
  <2> QED BY <2>2, <2>4, <2>5
<1>2. CASE ServerJudges
  <2>1. PICK v \in Verdicts : Sends(v, IF v = "client" THEN "session" ELSE "closing")
    BY <1>2 DEF ServerJudges
  <2>2. srv = "asked" /\ v \in Packets
    BY <1>2, VerdictAssumption DEF ServerJudges, Packets
  <2>4. CASE v = "client"
    BY <1>0, <2>1, <2>2, <2>4, SendsInv
  <2>5. CASE v # "client"
    <3>1. Sends(v, "closing")
      BY <2>1, <2>5
    <3> QED BY <1>0, <2>2, <3>1, SendsInv
  <2> QED BY <2>4, <2>5
<1>3. CASE ServerPongs
  BY <1>0, <1>3, SendsInv DEF ServerPongs, Packets
<1>4. CASE ServerKicks
  BY <1>0, <1>4, SendsInv DEF ServerKicks, Packets
<1>5. CASE ServerTrails
  <2>1. PICK p \in Trailing : Sends(p, srv)
    BY <1>5 DEF ServerTrails
  <2>2. p \in Packets /\ Sends(p, "closing")
    BY <1>5, <2>1, TrailingAssumption DEF ServerTrails
  <2> QED BY <1>0, <2>2, SendsInv
<1> QED BY <1>1, <1>2, <1>3, <1>4, <1>5

\* The client starts with nothing under way.
LEMMA InitInv == Init => IndInv
<1> SUFFICES ASSUME Init PROVE IndInv
  OBVIOUS
<1>1. <<>> \in Seq(Packets) /\ 0 \in 0..Len(<<>>)
  BY EmptySeq
<1>2. TypeOK
  BY <1>1 DEF Init, TypeOK
<1>3. Len(wire) = 0
  BY DEF Init
<1>4. Conversation /\ StatusAgrees /\ TimersBelongToSession /\ OnCourse
  BY <1>3 DEF Init, Conversation, StatusAgrees, OfflineIsQuiet, ConnectingMeansLogin,
         OnlineMeansSession, isConnected, TimersBelongToSession, OnCourse, Astray, Behind
<1> QED BY <1>2, <1>4 DEF IndInv

\* Every step keeps the invariant.
LEMMA StepInv == IndInv /\ [Next]_vars => IndInv'
<1> SUFFICES ASSUME IndInv, [Next]_vars PROVE IndInv'
  OBVIOUS
<1>0. TypeOK
  BY DEF IndInv
<1>1. CASE UNCHANGED vars
  BY <1>1 DEF vars, moves, kopete, client, server, IndInv, TypeOK, Conversation, InSession,
              StatusAgrees, OfflineIsQuiet, ConnectingMeansLogin, OnlineMeansSession,
              isConnected, TimersBelongToSession, OnCourse, Astray, Behind
<1>2. CASE Moves /\ Watch
  <2> USE <1>2
  <2>1. CASE UserGoesOnline
    <3>1. /\ downloads' \in Nat /\ prompts' \in Nat /\ retries' \in Nat /\ cached' \in BOOLEAN
          /\ UNCHANGED <<promised, sock, heartBeat, timeout, reading, server>>
          /\ UNCHANGED <<status, restore>> \/ (SetStatus("Online") /\ isConnected)
      BY <2>1, <1>0, KopeteConnectTyped DEF UserGoesOnline, GoOnline, TypeOK
    <3> QED BY <3>1, StatusInv
  <2>2. CASE UserGoesAway
    <3>1. /\ downloads' \in Nat /\ prompts' \in Nat /\ retries' \in Nat /\ cached' \in BOOLEAN
          /\ UNCHANGED <<promised, sock, heartBeat, timeout, reading, server>>
          /\ SetStatus("Away")
      BY <2>2, <1>0, KopeteConnectTyped DEF UserGoesAway, GoAway, TypeOK
    <3> QED BY <3>1, StatusInv
  <2>3. CASE UserGoesOffline
    BY <2>3, <1>0, GoOfflineInv DEF UserGoesOffline, TypeOK
  <2>4. CASE Reconnect
    <3>1. /\ downloads' \in Nat /\ prompts' \in Nat /\ retries' \in Nat /\ cached' \in BOOLEAN
          /\ UNCHANGED <<promised, sock, heartBeat, timeout, reading, server>>
          /\ \/ UNCHANGED <<status, restore>>
             \/ SetStatus("Online") /\ isConnected
             \/ SetStatus("Away")
      BY <2>4, <1>0, KopeteConnectTyped DEF Reconnect, GoAway, GoOnline, TypeOK
    <3> QED BY <3>1, StatusInv
  <2>5. CASE PromptAnswered
    <3>1. /\ downloads' \in Nat /\ prompts' \in Nat /\ retries' \in Nat /\ cached' \in BOOLEAN
          /\ UNCHANGED <<promised, sock, heartBeat, timeout, reading, server>>
          /\ UNCHANGED <<status, restore>>
      BY <2>5, <1>0 DEF PromptAnswered, ConnectWithPassword, TypeOK
    <3> QED BY <3>1, StatusInv
  <2>6. CASE PromptCancelled
    BY <2>6, <1>0, GoOfflineInv DEF PromptCancelled, TypeOK
  <2>7. CASE GamesListReady
    BY <2>7, GamesListReadyInv
  <2>8. CASE SocketConnected
    BY <2>8, SocketConnectedInv
  <2>9. CASE SocketFailed \/ ConnectionError \/ ConnectionTimeout
    BY <2>9, InterruptedInv
  <2>10. CASE SendHeartBeat
    <3>1. /\ UNCHANGED <<kopete, status, downloads, promised, sock, heartBeat, timeout,
                         wire, srv, outdated>>
          /\ owed' \in BOOLEAN /\ alive' \in BOOLEAN /\ reading' \in 0..Len(wire)
          /\ reading' = reading \/ sock = "connected"
      BY <2>10, <1>0 DEF SendHeartBeat, client, TypeOK
    <3> QED BY <3>1, LinkInv
  <2>11. CASE \E n \in 1..Len(wire) : SocketRead(n)
    <3>1. /\ UNCHANGED <<kopete, status, downloads, promised, sock, heartBeat, timeout,
                         wire, srv, outdated>>
          /\ owed' \in BOOLEAN /\ alive' \in BOOLEAN /\ reading' \in 0..Len(wire)
          /\ reading' = reading \/ sock = "connected"
      BY <2>11, <1>0, LenProperties DEF SocketRead, server, TypeOK
    <3> QED BY <3>1, LinkInv
  <2>12. CASE HandleSalt \/ HandleNoReason \/ HandleBadVersion
    BY <2>12, FrontDroppedInv
  <2>13. CASE HandleBadSalt \/ HandleReject \/ HandleError \/ HandleBadClient
              \/ HandleVersion \/ HandleOther
    BY <2>13, GoodbyeInv
  <2>14. CASE HandleClient
    BY <2>14, HandleClientInv
  <2>15. CASE HandlePong
    BY <2>15, HandlePongInv
  <2>16. CASE ServerGreets \/ ServerJudges \/ ServerPongs \/ ServerKicks \/ ServerTrails
    BY <2>16, ServerInv
  <2>17. CASE LinkDies
    <3>1. /\ UNCHANGED <<kopete, status, downloads, promised, sock, heartBeat, timeout,
                         wire, srv, outdated>>
          /\ owed' \in BOOLEAN /\ alive' \in BOOLEAN /\ reading' \in 0..Len(wire)
          /\ reading' = reading \/ sock = "connected"
      BY <2>17, <1>0 DEF LinkDies, client, TypeOK
    <3> QED BY <3>1, LinkInv
  <2>18. CASE HandleInvalid
    BY <2>18, HandleInvalidInv
  <2> QED BY <2>1, <2>2, <2>3, <2>4, <2>5, <2>6, <2>7, <2>8, <2>9, <2>10, <2>11, <2>12,
             <2>13, <2>14, <2>15, <2>16, <2>17, <2>18 DEF Moves
<1> QED BY <1>1, <1>2 DEF Next

\* The strengthened invariant, for any bounds.
THEOREM Inductive == Spec => []IndInv
  BY InitInv, StepInv, PTL DEF Spec

\* The variables of account, server object, Kopete and server keep their types.
THEOREM TypeCorrect == Spec => []TypeOK
<1>1. IndInv => TypeOK
  BY DEF IndInv
<1> QED BY <1>1, Inductive, PTL

\* Offline, Connecting and Online each say what connection there is (logOff,
\* connectToServer and the handler of packet 0x82).
THEOREM StatusOfConnection == Spec => []StatusAgrees
<1>1. IndInv => StatusAgrees
  BY DEF IndInv
<1> QED BY <1>1, Inductive, PTL

\* m_heartBeat and m_connectionTimeout run in sessions only, also when attempts
\* overlap; nothing but packets left behind a log off in the middle of a read starts
\* them elsewhere, and no longer than until the account is at rest again.
THEOREM TimersOfSession == Spec => []TimersBelongToSession
<1>1. IndInv => TimersBelongToSession
  BY DEF IndInv
<1> QED BY <1>1, Inductive, PTL

--------------------------------------------------------------------------------
(* The account implements AccountSession. *)

\* The login is accepted and the client about to read so.
Answered == \E i \in DOMAIN wire : wire[i] = "client"

\* What AccountSession sees of a state in which nothing went astray yet.
LEMMA Seen ==
    ASSUME IndInv, IndInv', ~strayed, ~strayed',
           \/ UNCHANGED status /\ ((heartBeat' \/ Answered') <=> (heartBeat \/ Answered))
           \/ /\ status = "Offline" /\ status' = "Connecting"
              /\ (heartBeat' \/ Answered') <=> (heartBeat \/ Answered)
           \/ /\ status = "Connecting" /\ UNCHANGED status
              /\ ~(heartBeat \/ Answered) /\ (heartBeat' \/ Answered')
           \/ /\ status \in {"Connecting", "Online", "Away"} /\ status' = "Online"
              /\ (heartBeat \/ Answered) /\ (heartBeat' \/ Answered')
           \/ /\ status \in {"Online", "Away"} /\ status' \in {"Online", "Away"}
              /\ (heartBeat' \/ Answered') <=> (heartBeat \/ Answered)
    PROVE  [Session!Next]_(Session!vars)
  BY DEF Answered, Session!Next, Session!vars, Session!Attempt, Session!Accept,
         Session!LoggedIn, Session!GoAway, Session!ComeBack

\* While nothing went astray, Offline means that the session is over.
LEMMA OfflineIsOver ==
    ASSUME IndInv, status = "Offline", ~strayed
    PROVE  ~heartBeat /\ ~Answered
<1>1. ~behind /\ wire \in Seq(Packets) /\ reading \in 0..Len(wire)
  BY DEF IndInv, OnCourse, TypeOK
<1>2. ~heartBeat /\ ~(reading > 0) /\ Len(wire) = reading
  BY <1>1 DEF IndInv, StatusAgrees, OfflineIsQuiet
<1>3. Len(wire) = 0 /\ DOMAIN wire = 1..0
  BY <1>1, <1>2, LenProperties
<1> QED BY <1>2, <1>3 DEF Answered

\* A step after which Offline is shown, or nothing is said any more, gives up.
LEMMA GivesUp ==
    ASSUME IndInv, IndInv', strayed' \/ status' = "Offline", Watch
    PROVE  [Session!Next]_(Session!vars)
<1>1. status = "Offline" /\ ~strayed => ~heartBeat /\ ~Answered
  BY OfflineIsOver
<1>2. status' = "Offline" /\ ~strayed' => ~heartBeat' /\ ~Answered'
  <2>1. SUFFICES ASSUME status' = "Offline", ~strayed' PROVE ~heartBeat' /\ ~Answered'
    OBVIOUS
  <2>2. ~behind' /\ wire' \in Seq(Packets) /\ reading' \in 0..Len(wire')
    BY <2>1 DEF IndInv, OnCourse, TypeOK
  <2>3. ~heartBeat' /\ ~(reading' > 0) /\ Len(wire') = reading'
    BY <2>1, <2>2 DEF IndInv, StatusAgrees, OfflineIsQuiet
  <2>4. Len(wire') = 0 /\ DOMAIN wire' = 1..0
    BY <2>2, <2>3, LenProperties
  <2> QED BY <2>3, <2>4 DEF Answered
<1>3. strayed => strayed'
  BY DEF Watch
<1> QED BY <1>1, <1>2, <1>3 DEF Answered, Session!Next, Session!vars, Session!GiveUp

\* Handling another packet leaves the answer to the login on the wire.
LEMMA TailAnswered ==
    ASSUME TypeOK, reading > 0, Head(wire) # "client", wire' = Tail(wire)
    PROVE  Answered' <=> Answered
<1>1. /\ Len(wire) \in Nat /\ Len(wire) >= 1 /\ DOMAIN wire = 1..Len(wire)
      /\ wire[1] # "client" /\ wire' \in Seq(Packets) /\ Len(wire') = Len(wire) - 1
      /\ \A i \in 1..(Len(wire) - 1) : wire'[i] = wire[i + 1]
  BY WireFront
<1>2. DOMAIN wire' = 1..(Len(wire) - 1)
  BY <1>1, LenProperties
<1>3. ASSUME Answered PROVE Answered'
  <2>1. PICK i \in 1..Len(wire) : wire[i] = "client"
    BY <1>3, <1>1 DEF Answered
  <2>2. i - 1 \in 1..(Len(wire) - 1) /\ (i - 1) + 1 = i
    BY <2>1, <1>1
  <2> QED BY <2>1, <2>2, <1>1, <1>2 DEF Answered
<1>4. ASSUME Answered' PROVE Answered
  <2>1. PICK i \in 1..(Len(wire) - 1) : wire'[i] = "client"
    BY <1>4, <1>2 DEF Answered
  <2>2. i + 1 \in 1..Len(wire)
    BY <2>1, <1>1
  <2> QED BY <2>1, <2>2, <1>1 DEF Answered
<1> QED BY <1>3, <1>4

\* What the server says next is an answer to the login or is not.
LEMMA SendsAnswered ==
    ASSUME TypeOK, NEW p \in Packets, NEW t, Sends(p, t)
    PROVE  /\ UNCHANGED <<status, heartBeat>>
           /\ Answered' <=> Answered \/ p = "client"
<1>1. /\ Len(wire) \in Nat /\ Len(wire') = Len(wire) + 1
      /\ DOMAIN wire = 1..Len(wire) /\ DOMAIN wire' = 1..Len(wire')
      /\ wire'[Len(wire')] = p
      /\ \A i \in 1..Len(wire) : wire'[i] = wire[i]
      /\ UNCHANGED <<status, heartBeat>>
  BY SendsEffect
<1>2. Answered' => Answered \/ p = "client"
  <2>1. \A i \in 1..Len(wire') : i \in 1..Len(wire) \/ i = Len(wire')
    BY <1>1
  <2> QED BY <2>1, <1>1 DEF Answered
<1>3. Answered => Answered'
  <2>1. \A i \in 1..Len(wire) : i \in 1..Len(wire')
    BY <1>1
  <2> QED BY <2>1, <1>1 DEF Answered
<1>4. p = "client" => Answered'
  <2>1. Len(wire') \in 1..Len(wire')
    BY <1>1
  <2> QED BY <2>1, <1>1 DEF Answered
<1> QED BY <1>1, <1>2, <1>3, <1>4

\* What the server says is heard while the account shows Connecting or has a session.
LEMMA AcceptStep ==
    ASSUME IndInv, ~strayed, srv # "none"
    PROVE  status = "Connecting" \/ heartBeat
<1>1. sock = "connected"
  BY DEF IndInv, Conversation
<1>2. status # "Offline" /\ (status \in {"Online", "Away"} => heartBeat)
  BY <1>1 DEF IndInv, StatusAgrees, OfflineIsQuiet, OnlineMeansSession, isConnected
<1> QED BY <1>2 DEF IndInv, TypeOK

\* Every step, while nothing went astray, is one of AccountSession or none.
LEMMA SessionStep ==
    ASSUME IndInv, IndInv', [Next]_vars
    PROVE  [Session!Next]_(Session!vars)
<1>0. TypeOK /\ Conversation
  BY DEF IndInv
<1>1. CASE UNCHANGED vars
  BY <1>1 DEF vars, moves, client, server, Session!vars
<1>2. CASE Next /\ (strayed' \/ status' = "Offline")
  BY <1>2, GivesUp DEF Next
<1>3. CASE Next /\ ~strayed' /\ status' # "Offline"
  <2>0. Moves /\ Watch /\ ~strayed /\ ~Astray' /\ ~Astray
    BY <1>3, WatchInv DEF Next, IndInv, OnCourse
  <2>1. ASSUME UNCHANGED <<status, heartBeat, wire>>
        PROVE  [Session!Next]_(Session!vars)
    BY <2>1, <2>0, <1>3, Seen DEF Answered
  <2>2. ASSUME SetStatus("Online") /\ isConnected, UNCHANGED <<heartBeat, wire>>
        PROVE  [Session!Next]_(Session!vars)
    BY <2>2, <2>0, <1>3, Seen DEF Answered, SetStatus, isConnected
  <2>3. ASSUME SetStatus("Away"), UNCHANGED <<heartBeat, wire>>
        PROVE  [Session!Next]_(Session!vars)
    <3>1. heartBeat /\ status' = "Away"
      BY <2>3, <2>0 DEF Astray, SetStatus
    <3>2. status \in {"Online", "Away"}
      BY <3>1, <2>0, <1>0 DEF IndInv, StatusAgrees, OfflineIsQuiet, ConnectingMeansLogin,
                              OnCourse, TypeOK
    <3> QED BY <2>3, <3>1, <3>2, <2>0, <1>3, Seen DEF Answered
  <2>4. CASE UserGoesOnline
    BY <2>4, <2>1, <2>2 DEF UserGoesOnline, GoOnline, server
  <2>5. CASE UserGoesAway
    BY <2>5, <2>3 DEF UserGoesAway, GoAway, server
  <2>6. CASE Reconnect
    BY <2>6, <2>1, <2>2, <2>3 DEF Reconnect, GoAway, GoOnline, server
  <2>7. CASE UserGoesOffline \/ PromptCancelled
    BY <2>7, <2>1, <1>3 DEF UserGoesOffline, PromptCancelled, GoOffline, LogOff, SetStatus
  <2>8. CASE PromptAnswered \/ SocketConnected \/ SendHeartBeat \/ LinkDies
             \/ (\E n \in 1..Len(wire) : SocketRead(n))
    BY <2>8, <2>1 DEF PromptAnswered, SocketConnected, SendHeartBeat, LinkDies, SocketRead,
                      client, server
  <2>9. CASE SocketFailed \/ ConnectionError \/ ConnectionTimeout
             \/ HandleBadSalt \/ HandleReject \/ HandleError \/ HandleBadClient
             \/ HandleVersion \/ HandleOther \/ HandleInvalid
    BY <2>9, <1>3 DEF SocketFailed, ConnectionError, ConnectionTimeout, HandleBadSalt,
                      HandleReject, HandleError, HandleBadClient, HandleVersion,
                      HandleOther, HandleInvalid, LogOff, SetStatus
  <2>10. CASE GamesListReady
    <3>1. downloads > 0 /\ status' = "Connecting" /\ UNCHANGED <<heartBeat, wire>>
      BY <2>10 DEF GamesListReady, ConnectToServer, SetStatus, server
    <3>2. status = "Offline"
      BY <3>1, <2>0 DEF Astray
    <3> QED BY <3>1, <3>2, <2>0, <1>3, Seen DEF Answered
  <2>11. CASE HandleSalt \/ HandleNoReason \/ HandleBadVersion \/ HandlePong
    <3>1. /\ reading > 0 /\ Head(wire) # "client" /\ wire' = Tail(wire)
          /\ UNCHANGED <<status, heartBeat>>
      BY <2>11 DEF HandleSalt, HandleNoReason, HandleBadVersion, Ignore, HandlePong, Handling
    <3>2. Answered' <=> Answered
      BY <3>1, <1>0, TailAnswered
    <3> QED BY <3>1, <3>2, <2>0, <1>3, Seen
  <2>12. CASE HandleClient
    <3>1. /\ reading > 0 /\ Head(wire) = "client" /\ wire' = Tail(wire)
          /\ UNCHANGED <<srv, sock>> /\ heartBeat' /\ status' = "Online"
      BY <2>12 DEF HandleClient, Handling, SetStatus
    <3>2. /\ sock = "connected" /\ wire[1] = "client"
          /\ Len(wire) \in Nat /\ Len(wire) >= 1 /\ DOMAIN wire = 1..Len(wire)
      BY <3>1, <1>0, FrontOf, <2>0, WireFront
    <3>3. Answered
      BY <3>2 DEF Answered
    <3>4. status \in {"Connecting", "Online", "Away"}
      BY <3>2, <1>0 DEF IndInv, StatusAgrees, OfflineIsQuiet, TypeOK
    <3> QED BY <3>1, <3>3, <3>4, <2>0, <1>3, Seen
  <2>13. CASE ServerGreets \/ ServerJudges \/ ServerPongs \/ ServerKicks \/ ServerTrails
    <3>1. PICK p \in Packets : \E t : Sends(p, t)
      BY <2>13, VerdictAssumption, TrailingAssumption
      DEF ServerGreets, ServerJudges, ServerPongs, ServerKicks, ServerTrails, OrBad, Packets
    <3>2. UNCHANGED <<status, heartBeat>> /\ (Answered' <=> Answered \/ p = "client")
      BY <3>1, <1>0, SendsAnswered
    <3>3. status = "Connecting" \/ heartBeat
      BY <2>13, <2>0, AcceptStep
      DEF ServerGreets, ServerJudges, ServerPongs, ServerKicks, ServerTrails
    <3> QED BY <3>2, <3>3, <2>0, <1>3, Seen
  <2> QED BY <2>0, <2>4, <2>5, <2>6, <2>7, <2>8, <2>9, <2>10, <2>11, <2>12, <2>13
          DEF Moves
<1> QED BY <1>1, <1>2, <1>3

\* While attempts do not overlap, what the user is shown is the status of one
\* session: Connecting before the login is accepted, Online only in a session that
\* was accepted, Offline from the moment it is given up (XfireAccount).
THEOREM Implementation == Spec => ImplementsSession
<1>1. Init => Session!Init
  BY DEF Init, Session!Init
<1>2. IndInv /\ IndInv' /\ [Next]_vars => [Session!Next]_(Session!vars)
  BY SessionStep
<1> QED BY <1>1, <1>2, Inductive, PTL DEF Spec, ImplementsSession, Session!Spec
================================================================================
