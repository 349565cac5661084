---------------------------- MODULE AccountSession ----------------------------
(***************************************************************************)
(* What the account promises the user: its status is that of one session   *)
(* with the Xfire server.  It goes Connecting before the server accepts a  *)
(* login, shows Online only while the server holds a session for it, and   *)
(* is Offline exactly from the moment the session is given up until the    *)
(* next attempt.                                                           *)
(***************************************************************************)
VARIABLES status,   \* what Kopete shows
          session   \* the server accepted the login of this attempt

vars == <<status, session>>

Init == status = "Offline" /\ session = FALSE

Attempt == status = "Offline" /\ status' = "Connecting" /\ UNCHANGED session

Accept == status = "Connecting" /\ ~session /\ session' = TRUE /\ UNCHANGED status

LoggedIn == session /\ status = "Connecting" /\ status' = "Online" /\ UNCHANGED session

GoAway == status \in {"Online", "Away"} /\ status' = "Away" /\ UNCHANGED session

ComeBack == status \in {"Online", "Away"} /\ status' = "Online" /\ UNCHANGED session

GiveUp == status # "Offline" /\ status' = "Offline" /\ session' = FALSE

Next == Attempt \/ Accept \/ LoggedIn \/ GoAway \/ ComeBack \/ GiveUp

Spec == Init /\ [][Next]_vars
================================================================================
