--------------------------- MODULE XfireGameDetection ---------------------------
(***************************************************************************)
(* XfireGameDetection and XfireGamesManager on top of XfireGamesList.       *)
(*                                                                         *)
(* Each gamesListReady makes another detector (slotContinueConnecting);     *)
(* the account points to the newest one, and the others go on polling the   *)
(* processes.  A detector that sees another game than before lets the       *)
(* account send the server the game of the newest detector.  The constructor *)
(* leaves m_currentGame as the memory was.  Which games to look for is in   *)
(* the configured games, a document the games manager edits and saves and    *)
(* slotUpdate reads back.                                                  *)
(*                                                                         *)
(* The timer of a detector belongs to the main thread and is started from   *)
(* the detector's: a Qt built with its checks refuses, and the detector never *)
(* polls; another one runs the slot in the main thread, in one step.        *)
(*                                                                         *)
(* The life of the connection is XfireConnection's; here it is connecting,  *)
(* in, or closed.  Of a configured game only the path to detect it by is    *)
(* kept; a text that is saved empty is read back as no text at all (`bare'). *)
(***************************************************************************)
EXTENDS XfireGamesList, Sequences, SequencesExt

CONSTANTS Game,       \* names in the games list
          Path,       \* executables, other than the empty path
          Memory,     \* what a new detector may find in m_currentGame
          MaxEdits,   \* bound: times the user applies a configuration
          MaxMoves,   \* bound: times a program starts or ends
          MaxEvents   \* bound: edits, moves, new lists, failures and crashes together

ASSUME PathAssumption == "" \notin Path /\ "bare" \notin Path
ASSUME DetectionAssumption == MaxEdits \in Nat /\ MaxMoves \in Nat /\ MaxEvents \in Nat

VARIABLES running,    \* executables of the running processes (external)
          document,   \* m_configuredGamesList
          config,     \* xfire_games_config.xml
          offered,    \* games in the manager's tree
          detectors,  \* m_currentGame of each detector, the newest one last
          session,    \* the connection to the server
          announced,  \* the game the server was told in this session
          wanted,     \* the path of each game as the user applied it
          excused,    \* games whose configuration is known to be lost
          edits, moves

configuration == <<document, config, offered, wanted, excused, edits>>
detection == <<running, detectors, session, announced, moves>>
allVars == <<vars, configuration, detection>>

\* The manager's headings can be selected, and applied, like games.
Heading == "Configured games"
Name == Game \union {Heading}

NoGame == "no game"
Unlisted == "-1"
None == "nothing"
Found == Game \union {NoGame, Unlisted}

--------------------------------------------------------------------------------
(* The configured games *)

\* A document, in memory or saved; one that is not whole has no root element.
Document(state, games) == [state |-> state, games |-> games]
Broken == Document("broken", <<>>)
NoFile == Document("no file", <<>>)

Entries(doc) == {doc.games[i] : i \in DOMAIN doc.games}
EntryOf(doc, n) == {e \in Entries(doc) : e.name = n}

\* text() of the detect element
Text(detect) == IF detect = "bare" THEN "" ELSE detect

\* What a document has for a game, "none" if it is not configured.
Setting(doc, n) ==
    IF EntryOf(doc, n) = {} THEN "none" ELSE Text((CHOOSE e \in EntryOf(doc, n) : TRUE).detect)

\* initConfiguredGamesList: made if there is no file; read.
Made(file_) == IF file_ = NoFile THEN Document("whole", <<>>) ELSE file_
Read(doc) ==
    [doc EXCEPT !.games = [i \in DOMAIN doc.games |->
        [doc.games[i] EXCEPT !.detect = IF @ = "" THEN "bare" ELSE @]]]
Reload ==
    /\ config' = Made(config) /\ document' = Read(config')
    /\ UNCHANGED <<offered, wanted, excused, edits>>

\* getConfiguredGame: the last one of the name.
Place(n) ==
    CHOOSE i \in DOMAIN document.games :
        /\ document.games[i].name = n
        /\ \A j \in DOMAIN document.games : document.games[j].name = n => j <= i

\* slotApplyGameConfiguration.  An enabled game is updated if it is configured
\* (updateConfiguredGame) and has a text to update, and appended if it is not.
Updated(n, p) == [document EXCEPT !.games[Place(n)].detect = IF @ = "bare" THEN @ ELSE p]
Appended(n, p) == [document EXCEPT !.games = Append(@, [name |-> n, detect |-> p])]
Removed(n) ==
    IF EntryOf(document, n) = {} THEN document
    ELSE [document EXCEPT !.games = RemoveAt(@, Place(n))]

\* A game keeps the configuration the user applied, with two excuses: the document
\* was not read yet or is broken, or the game has no text to update.
Wants(n, p) ==
    /\ wanted' = [wanted EXCEPT ![n] = p]
    /\ excused' = IF document = Broken THEN Name
                  ELSE IF EntryOf(document', n) = {[name |-> n, detect |-> "bare"]} /\ p # ""
                  THEN excused \union {n} ELSE excused \ {n}

\* Applied to the document, which is saved (saveConfiguredGamesList).
AppliesUnsaved(n, p, doc) ==
    /\ edits < MaxEdits /\ edits' = edits + 1
    /\ n \in offered \union {Heading}
    /\ document' = doc
    /\ config' = IF EntryOf(document, n) = {} THEN config ELSE doc
    /\ Wants(n, p)
    /\ UNCHANGED <<vars, detection, offered>>
Applies(n, p, doc) ==
    /\ edits < MaxEdits /\ edits' = edits + 1
    /\ n \in offered \union {Heading}
    /\ document' = doc /\ config' = doc
    /\ Wants(n, p)
    /\ UNCHANGED <<vars, detection, offered>>

\* Without a root element nothing is appended, but the document is saved.
Enable(n, p) ==
    \/ EntryOf(document, n) # {} /\ Applies(n, p, Updated(n, p))
    \/ EntryOf(document, n) = {} /\ document # Broken /\ Applies(n, p, Appended(n, p))
    \/ document = Broken /\ Applies(n, p, document)
Disable(n) == Applies(n, "none", Removed(n))

--------------------------------------------------------------------------------
(* The detectors *)

\* getGameIDFromName on the present list; a list without version has no games.
Listed == IF list = 0 THEN {} ELSE Game
GameID(n) == IF n \in Listed THEN n ELSE Unlisted

\* checkRunningGames: the first configured game whose executable runs.
Hits(programs) == {i \in DOMAIN document.games : Text(document.games[i].detect) \in programs}
Detected(programs) ==
    IF Hits(programs) = {} THEN NoGame
    ELSE GameID(document.games[CHOOSE i \in Hits(programs) : \A j \in Hits(programs) : i <= j].name)

\* sendIngameStatus; what is written to a closed socket, or before the login, is lost.
SendIngameStatus(game) == announced' = IF session = "in" THEN game ELSE announced

\* slotSendIngameStatus, with the game of the newest of the detectors ds.
SlotSendIngameStatus(ds) == SendIngameStatus(ds[Len(ds)])

\* slotUpdateRunningProcesses of detector k, every 8 s.
PollSendsFirst(k) ==
    /\ k \in DOMAIN detectors
    /\ detectors' = [detectors EXCEPT ![k] = Detected(running)]
    /\ IF detectors[k] # Detected(running) THEN SlotSendIngameStatus(detectors)
       ELSE UNCHANGED announced
    /\ UNCHANGED <<vars, configuration, running, session, moves>>
Poll(k) ==
    /\ k \in DOMAIN detectors
    /\ detectors' = [detectors EXCEPT ![k] = Detected(running)]
    /\ IF detectors[k] # Detected(running) THEN SlotSendIngameStatus(detectors')
       ELSE UNCHANGED announced
    /\ UNCHANGED <<vars, configuration, running, session, moves>>

--------------------------------------------------------------------------------
(* The games list's signals, the connection and the processes *)

\* The constructor and run: m_currentGame is what was in memory.
NewDetector == \E m \in Memory : detectors' = Append(detectors, m)

\* XfireGamesManager::slotUpdate fills the tree with the games of the list.
FillTree == offered' = Listed'

\* gamesListReady: slotContinueConnecting connects, unless there is a connection,
\* and makes a detector; the games manager hears it too.
Continues ==
    /\ session' = IF session = "closed" THEN "connecting" ELSE session
    /\ NewDetector /\ FillTree
    /\ UNCHANGED <<document, config, wanted, excused, edits, running, announced, moves>>

Receives ==
    /\ ReceivedVersion \/ ReceivedList
    /\ IF readies' > readies THEN Continues ELSE UNCHANGED <<configuration, detection>>

Updates == SlotUpdate /\ Reload /\ UNCHANGED detection

\* The account is logged in, or the connection ends.
LoggedIn ==
    /\ session = "connecting"
    /\ session' = "in"
    /\ UNCHANGED <<vars, configuration, running, detectors, announced, moves>>
SessionEnds ==
    /\ session # "closed"
    /\ session' = "closed" /\ announced' = None
    /\ UNCHANGED <<vars, configuration, running, detectors, moves>>

\* A program starts or ends; the empty path is that of a process whose file is gone.
Moves ==
    /\ moves < MaxMoves /\ moves' = moves + 1
    /\ \E p \in Path \union {""} :
          running' = IF p \in running THEN running \ {p} ELSE running \union {p}
    /\ UNCHANGED <<vars, configuration, detectors, session, announced>>

\* The program ends and is started again, maybe while it is saving what the user
\* applied or making the file: what it leaves is not a document.
Restarts ==
    /\ Crash
    /\ \/ UNCHANGED <<config, excused>>
       \/ /\ edits < MaxEdits \/ config = NoFile
          /\ config' = Broken /\ excused' = Name
    /\ document' = Broken /\ offered' = {} /\ detectors' = <<>> /\ session' = "closed"
    /\ announced' = None
    /\ UNCHANGED <<wanted, edits, running, moves>>

DetectionInit ==
    /\ Init
    /\ running = {} /\ document = Broken
    /\ config = NoFile /\ wanted = [n \in Name |-> "none"]
    /\ offered = {} /\ excused = {} /\ detectors = <<>>
    /\ session = "closed" /\ announced = None
    /\ edits = 0 /\ moves = 0

Events == edits + moves + (published - 1) + failures + crashes

Step ==
    \/ Updates \/ Receives \/ (Publish /\ UNCHANGED <<configuration, detection>>) \/ Restarts
    \/ \E n \in Name : Disable(n) \/ \E p \in Path \union {""} : Enable(n, p)
    \/ \E k \in 1..MaxUpdates : Poll(k)
    \/ LoggedIn \/ SessionEnds \/ Moves

DetectionNext == Step /\ Events' <= MaxEvents

DetectionSpec == DetectionInit /\ [][DetectionNext]_allVars

\* QNetworkAccessManager finishes every request; a timer that was started fires.
DetectionFairSpec ==
    /\ DetectionSpec
    /\ WF_vars(Receives)
    /\ \A k \in 1..MaxUpdates : WF_detection(Poll(k))

--------------------------------------------------------------------------------

Documents(states) ==
    [state : states, games : Seq([name : Name, detect : Path \union {"", "bare"}])]

\* The types of the games list, the configured games and the detectors; no game is
\* configured twice.
TypesOK ==
    /\ TypeOK
    /\ running \subseteq Path \union {""}
    /\ document \in Documents({"whole", "broken"})
    /\ config \in Documents({"whole", "broken", "no file"})
    /\ \A n \in Name : \A i, j \in DOMAIN document.games :
          document.games[i].name = n /\ document.games[j].name = n => i = j
    /\ offered \subseteq Game /\ excused \subseteq Name
    /\ wanted \in [Name -> Path \union {"", "none"}]
    /\ detectors \in Seq(Found \union Memory) /\ Len(detectors) = readies
    /\ session \in {"closed", "connecting", "in"} /\ announced \in Found \union Memory \union {None}
    /\ edits \in 0..MaxEdits /\ moves \in 0..MaxMoves

\* The configured games stay what the user applied, in memory and in the file,
\* over restarts and reloads in the middle of a login: they are lost only by a
\* crash while saving, by Apply before the first update read them, or for a game
\* that was saved without a path (xf_games_manager.cpp:122, xf_games_list.cpp:44).
ConfigurationKept ==
    \A n \in Name \ excused :
        /\ Setting(config, n) = wanted[n]
        /\ document # Broken => Setting(document, n) = wanted[n]

\* In the end every detector of every login agrees on the game that runs, and what
\* the server was told in this session, if anything, is that game; the signals of
\* old detectors and uninitialised ones do not leave a wrong one (xf_account.cpp:117).
GameSettles ==
    <>[](/\ \A k \in DOMAIN detectors : detectors[k] = Detected(running)
         /\ session = "in" => announced \in {None, Detected(running)})
================================================================================
