----------------------------- MODULE XfireNatCheck -----------------------------
(***************************************************************************)
(* XfireP2PNatcheck: one datagram goes to each of three servers, and the   *)
(* fourth answer decides what kind of NAT the client is behind.  A server  *)
(* answers from the port that was asked and, where the NAT lets it through, *)
(* from another one.  The network reorders, may lose and may duplicate,    *)
(* and nothing is asked again.                                             *)
(*                                                                         *)
(* A definition named after another one plus a fault (NatTypeLast) is a    *)
(* plausible mistake in that code, there to see that a property notices.   *)
(***************************************************************************)
EXTENDS Integers, FiniteSets

CONSTANTS Ip, Port       \* external addresses a server may see us under

ASSUME AddressAssumption == Ip # {} /\ Port # {}

VARIABLES mapped,        \* how each server sees us: the NAT (external)
          rough,         \* does the network lose, repeat and bring strangers'
                         \* datagrams? (external)
          net,           \* answers on their way
          seen,          \* m_ips and m_ports, where they were set
          stage,         \* m_stage
          multiplePorts, \* m_multiplePorts
          type,          \* m_type, Unset before it is
          pending        \* a datagram was left unread: no readyRead any more

vars == <<mapped, rough, net, seen, stage, multiplePorts, type, pending>>

Server == 0..2
Address == [ip : Ip, port : Port]
Unset == -1

\* The verdict on what servers 0 to 2 reported.
NatTypeLast(a, multiple) ==
    IF a[0] = a[2] THEN IF multiple \/ a[2].ip \in {a[0].ip, a[1].ip} THEN 1 ELSE 4
    ELSE IF a[0].ip = a[1].ip THEN 2 ELSE 0
NatType(a, multiple) ==
    IF a[0] = a[1] THEN IF multiple \/ a[2].ip \in {a[0].ip, a[1].ip} THEN 1 ELSE 4
    ELSE IF a[0].ip = a[1].ip THEN 2 ELSE 0

ready == type # Unset

\* The constructor asks all three servers.  `far' are those whose answer from
\* another port passes the NAT.
Init ==
    /\ mapped \in [Server -> Address]
    /\ rough \in BOOLEAN
    /\ \E far \in SUBSET Server :
          net = [server : Server, other : {FALSE}] \union [server : far, other : {TRUE}]
    /\ seen = [s \in {} |-> Unset]
    /\ stage = 0 /\ multiplePorts = FALSE /\ type = Unset /\ pending = FALSE

Record(d) == [s \in DOMAIN seen \union {d.server} |->
                 IF s = d.server THEN mapped[s] ELSE seen[s]]

\* ++m_stage == 4
EnoughAtFive(n) == n = 5
Enough(n) == n = 4

\* slotSocketRead on an answer; entries that no server filled are read as they
\* lie in memory.
Receive(d) ==
    /\ ~ready /\ ~pending
    /\ net' \in IF rough THEN {net, net \ {d}} ELSE {net \ {d}}
    /\ seen' = Record(d)
    /\ stage' = stage + 1
    /\ multiplePorts' = (multiplePorts \/ d.other)
    /\ IF Enough(stage + 1)
       THEN \E memory \in [Server \ DOMAIN seen' -> Address] :
                type' = NatType([s \in Server |-> IF s \in DOMAIN seen' THEN seen'[s]
                                                  ELSE memory[s]], multiplePorts')
       ELSE UNCHANGED type
    /\ UNCHANGED <<mapped, rough, pending>>

\* A datagram that is not 10 bytes long is not even read; QUdpSocket signals no
\* other one before it is.
Ignore ==
    /\ rough /\ ~ready /\ ~pending
    /\ pending' = TRUE
    /\ UNCHANGED <<mapped, rough, net, seen, stage, multiplePorts, type>>

Lose(d) ==
    /\ rough
    /\ net' = net \ {d}
    /\ UNCHANGED <<mapped, rough, seen, stage, multiplePorts, type, pending>>

Next == (\E d \in net : Receive(d) \/ Lose(d)) \/ Ignore

Spec == Init /\ [][Next]_vars

FairSpec == Spec /\ WF_vars(\E d \in net : Receive(d))

--------------------------------------------------------------------------------

TypeOK ==
    /\ mapped \in [Server -> Address]
    /\ net \subseteq [server : Server, other : BOOLEAN]
    /\ DOMAIN seen \subseteq Server
    /\ \A s \in DOMAIN seen : seen[s] = mapped[s]
    /\ stage \in 0..4
    /\ rough \in BOOLEAN /\ multiplePorts \in BOOLEAN /\ pending \in BOOLEAN
    /\ type \in {Unset, 0, 1, 2, 4}

\* Whatever the order of the answers, and however often one came, a verdict that
\* rests on all three servers calls the NAT symmetric exactly when the servers 0
\* and 1 saw one address under two ports (xf_p2p_natcheck.cpp:104).
VerdictFollowsMapping ==
    ready /\ DOMAIN seen = Server =>
        /\ type = 2 <=> mapped[0].ip = mapped[1].ip /\ mapped[0].port # mapped[1].port
        /\ type \in {1, 4} <=> mapped[0] = mapped[1]

\* On a network that loses nothing and brings no strangers, the check ends as
\* soon as one answer from another port passes the NAT: three servers, and the
\* fourth answer decides (xf_p2p_natcheck.cpp:102).
CheckEnds == (~rough /\ stage + Cardinality(net) >= 4) ~> ready
================================================================================
