---------------------------- MODULE XfireGamesList ----------------------------
(***************************************************************************)
(* XfireGamesList: every attempt to connect first asks the web server for  *)
(* the version of its games list and downloads the list if the version     *)
(* differs from that of the local file.  gamesListReady lets the attempt   *)
(* go on.  Replies overtake each other, a request may fail, and the local  *)
(* file outlives the program.                                              *)
(*                                                                         *)
(* A list is known by its version; 0 is what a reply or a file without a   *)
(* version counts as (QString::toInt of nothing), and Absent is no file.   *)
(*                                                                         *)
(* A definition named after another one plus a fault (OutdatedIfPresent) is a  *)
(* plausible mistake in that code, there to see that a property notices.   *)
(***************************************************************************)
EXTENDS Integers

CONSTANTS MaxVersion,   \* bound: versions 1..MaxVersion are published
          MaxUpdates,   \* bound: attempts of one run of the program
          MaxFailures,  \* bound: requests that fail
          MaxCrashes    \* bound: times the program ends

ASSUME BoundsAssumption ==
    MaxVersion \in Nat \ {0} /\ MaxUpdates \in Nat /\ MaxFailures \in Nat /\ MaxCrashes \in Nat

VARIABLES published,  \* version of the list on the web server
          file,       \* xfire_games.xml
          list,       \* mGamesList
          local,      \* mLocalGamesListVersion
          versions,   \* requests for the version under way
          lists,      \* requests for the list under way
          updates,    \* calls of slotUpdate
          readies,    \* emissions of gamesListReady
          failures, crashes

vars == <<published, file, list, local, versions, lists, updates, readies,
          failures, crashes>>

Absent == -1

\* slotUpdate: ask for the version, load the file.
SlotUpdate ==
    /\ updates < MaxUpdates
    /\ updates' = updates + 1
    /\ versions' = versions + 1
    /\ local' = file
    /\ list' = IF file = Absent THEN list ELSE file
    /\ UNCHANGED <<published, file, lists, readies, failures, crashes>>

\* What a reply holds: what was published when it was made, or nothing.
Reply(v) == \/ v \in 1..published /\ UNCHANGED failures
            \/ v = 0 /\ failures < MaxFailures /\ failures' = failures + 1

\* mRemoteGamesListVersion != mLocalGamesListVersion
OutdatedIfPresent(remote) == local # Absent /\ remote # local
Outdated(remote) == remote # local

\* slotReceivedGamesList, the version.
ReceivedVersionAlwaysReady ==
    /\ versions > 0
    /\ versions' = versions - 1
    /\ \E v \in 0..MaxVersion :
          /\ Reply(v)
          /\ IF Outdated(v) THEN lists' = lists + 1 ELSE UNCHANGED lists
    /\ readies' = readies + 1
    /\ UNCHANGED <<published, file, list, local, updates, crashes>>
ReceivedVersion ==
    /\ versions > 0
    /\ versions' = versions - 1
    /\ \E v \in 0..MaxVersion :
          /\ Reply(v)
          /\ IF Outdated(v) THEN lists' = lists + 1 /\ UNCHANGED readies
             ELSE readies' = readies + 1 /\ UNCHANGED lists
    /\ UNCHANGED <<published, file, list, local, updates, crashes>>

\* slotReceivedGamesList, the list: announced, kept and saved, whatever it is.
ReceivedListQuiet ==
    /\ lists > 0
    /\ lists' = lists - 1
    /\ \E v \in 0..MaxVersion : Reply(v) /\ list' = v /\ file' = v
    /\ UNCHANGED <<published, local, versions, updates, readies, crashes>>
ReceivedList ==
    /\ lists > 0
    /\ lists' = lists - 1
    /\ \E v \in 0..MaxVersion : Reply(v) /\ list' = v /\ file' = v
    /\ readies' = readies + 1
    /\ UNCHANGED <<published, local, versions, updates, crashes>>

\* The web server gets a new list.
Publish ==
    /\ published < MaxVersion
    /\ published' = published + 1
    /\ UNCHANGED <<file, list, local, versions, lists, updates, readies, failures, crashes>>

\* The program ends and is started again; while a reply is being saved, the file
\* is truncated first.
Crash ==
    /\ crashes < MaxCrashes
    /\ crashes' = crashes + 1
    /\ \/ UNCHANGED file
       \/ lists > 0 /\ file' = 0
    /\ list' = 0 /\ local' = 0
    /\ versions' = 0 /\ lists' = 0 /\ updates' = 0 /\ readies' = 0
    /\ UNCHANGED <<published, failures>>

Init ==
    /\ published = 1
    /\ file \in {Absent, 1}
    /\ list = 0 /\ local = 0
    /\ versions = 0 /\ lists = 0 /\ updates = 0 /\ readies = 0
    /\ failures = 0 /\ crashes = 0

Next == SlotUpdate \/ ReceivedVersion \/ ReceivedList \/ Publish \/ Crash

Spec == Init /\ [][Next]_vars

\* QNetworkAccessManager finishes every request, with a reply or an error.
Fairness == WF_vars(ReceivedVersion) /\ WF_vars(ReceivedList)

FairSpec == Spec /\ Fairness

--------------------------------------------------------------------------------

TypeOK ==
    /\ published \in 1..MaxVersion
    /\ file \in {Absent} \union 0..MaxVersion
    /\ list \in 0..MaxVersion
    /\ local \in {Absent} \union 0..MaxVersion
    /\ versions \in Nat /\ lists \in Nat
    /\ updates \in 0..MaxUpdates /\ readies \in 0..MaxUpdates
    /\ failures \in 0..MaxFailures /\ crashes \in 0..MaxCrashes

\* Each slotUpdate leads to one gamesListReady, never two, however the replies of
\* overlapping attempts mix: an attempt to connect goes on once (XfireConnection
\* counts on it, xf_account.cpp:60).
ReadyOncePerUpdate == readies + versions + lists = updates

\* Every attempt goes on, also when the web server cannot be reached.
AttemptGoesOn ==
    \A n \in 1..MaxUpdates : (updates = n) ~> (readies >= n \/ updates < n)

\* Without failures, an attempt that goes on has a games list, the one in the
\* file, however the attempts overlap (mLocalGamesListVersion is not updated with
\* the list, xf_games_list.cpp:115) and wherever a crash left the file.
ListPresent ==
    failures = 0 /\ readies > 0 => list > 0 /\ file = list
================================================================================
