-------------------------- MODULE XfireNatCheckProofs --------------------------
(***************************************************************************)
(* The check of the NAT for any addresses, any order of the answers and    *)
(* any loss and repetition.  What TLC checks speaks of the verdict alone;  *)
(* the invariant ties it to the mapping through what the servers reported, *)
(* and the number of answers to whether there is a verdict.                *)
(***************************************************************************)
EXTENDS XfireNatCheck, TLAPS

\* The fourth answer brings the verdict, and no other one.
CountDecides == ready <=> stage = 4

\* A verdict that rests on all three servers is that of the mapping.
VerdictOfMapping ==
    ready /\ DOMAIN seen = Server => type = NatType(mapped, multiplePorts)

IndInv == TypeOK /\ CountDecides /\ VerdictOfMapping

\* The verdicts there are.
LEMMA NatTypes == \A a, m : NatType(a, m) \in {0, 1, 2, 4}
  BY DEF NatType

\* An answer records what its server sees, and leaves the others.
LEMMA RecordTrue ==
    ASSUME TypeOK, NEW d \in net
    PROVE  /\ DOMAIN Record(d) = DOMAIN seen \union {d.server}
           /\ DOMAIN Record(d) \subseteq Server
           /\ \A s \in DOMAIN Record(d) : Record(d)[s] = mapped[s]
<1>1. d.server \in Server
  BY DEF TypeOK
<1> QED BY <1>1 DEF TypeOK, Record

\* A check starts with no answer.
LEMMA InitInv == Init => IndInv
<1> SUFFICES ASSUME Init PROVE IndInv
  OBVIOUS
<1>1. net \subseteq [server : Server, other : BOOLEAN]
  <2>1. PICK far \in SUBSET Server :
           net = [server : Server, other : {FALSE}] \union [server : far, other : {TRUE}]
    BY DEF Init
  <2>2. [server : Server, other : {FALSE}] \subseteq [server : Server, other : BOOLEAN]
    OBVIOUS
  <2>3. [server : far, other : {TRUE}] \subseteq [server : Server, other : BOOLEAN]
    OBVIOUS
  <2> QED BY <2>1, <2>2, <2>3
<1>2. TypeOK
  <2>1. DOMAIN seen = {}
    BY DEF Init
  <2>2. mapped \in [Server -> Address] /\ rough \in BOOLEAN /\ stage = 0 /\ type = Unset
        /\ multiplePorts = FALSE /\ pending = FALSE
    BY Zenon DEF Init
  <2>3. DOMAIN seen \subseteq Server /\ \A s \in DOMAIN seen : seen[s] = mapped[s]
    BY <2>1
  <2>4. stage \in 0..4 /\ type \in {Unset, 0, 1, 2, 4}
    BY <2>2
  <2>5. multiplePorts \in BOOLEAN /\ pending \in BOOLEAN
    BY <2>2
  <2> QED BY <1>1, <2>2, <2>3, <2>4, <2>5, Zenon DEF TypeOK
<1>3. CountDecides /\ VerdictOfMapping
  BY DEF Init, CountDecides, VerdictOfMapping, ready, Unset
<1> QED BY <1>2, <1>3 DEF IndInv

\* An answer before the verdict: the fourth one decides, from what is recorded.
LEMMA ReceiveInv == ASSUME IndInv, NEW d \in net, Receive(d) PROVE IndInv'
<1>1. /\ TypeOK /\ type = Unset /\ stage \in 0..3
      /\ seen' = Record(d) /\ stage' = stage + 1
      /\ multiplePorts' = (multiplePorts \/ d.other)
      /\ UNCHANGED <<mapped, rough, pending>>
  BY DEF IndInv, CountDecides, TypeOK, Receive, ready
<1>2. /\ DOMAIN seen' \subseteq Server
      /\ \A s \in DOMAIN seen' : seen'[s] = mapped[s]
  BY <1>1, RecordTrue
<1>3. net' \subseteq net
  BY DEF Receive
<1>4. CASE stage + 1 = 4
  <2>1. PICK memory : type' = NatType([s \in Server |-> IF s \in DOMAIN seen' THEN seen'[s]
                                                        ELSE memory[s]], multiplePorts')
    BY <1>4 DEF Receive, Enough
  <2>2. type' \in {0, 1, 2, 4}
    BY <2>1, NatTypes
  <2>3. ASSUME DOMAIN seen' = Server
        PROVE  type' = NatType(mapped', multiplePorts')
    <3>1. [s \in Server |-> IF s \in DOMAIN seen' THEN seen'[s] ELSE memory[s]] = mapped
      BY <2>3, <1>1, <1>2 DEF TypeOK
    <3> QED BY <3>1, <2>1, <1>1
  <2>4. TypeOK'
    BY <1>1, <1>2, <1>3, <1>4, <2>2 DEF TypeOK
  <2>5. CountDecides' /\ VerdictOfMapping'
    BY <1>1, <1>4, <2>2, <2>3 DEF CountDecides, VerdictOfMapping, ready, Unset
  <2> QED BY <2>4, <2>5 DEF IndInv
<1>5. CASE stage + 1 # 4
  <2>1. type' = Unset
    BY <1>1, <1>5 DEF Receive, Enough
  <2>2. TypeOK'
    BY <1>1, <1>2, <1>3, <1>5, <2>1 DEF TypeOK
  <2>3. CountDecides' /\ VerdictOfMapping'
    BY <1>1, <1>5, <2>1 DEF CountDecides, VerdictOfMapping, ready
  <2> QED BY <2>2, <2>3 DEF IndInv
<1> QED BY <1>4, <1>5

\* Every answer is recorded, counted, and decides when it is the fourth.
LEMMA StepInv == IndInv /\ [Next]_vars => IndInv'
<1> SUFFICES ASSUME IndInv, [Next]_vars PROVE IndInv'
  OBVIOUS
<1>1. CASE \E d \in net : Receive(d)
  BY <1>1, ReceiveInv
<1>2. ASSUME net' \subseteq net, rough' \in BOOLEAN, pending' \in BOOLEAN,
             UNCHANGED <<mapped, seen, stage, multiplePorts, type>>
      PROVE  IndInv'
  BY <1>2 DEF IndInv, TypeOK, CountDecides, VerdictOfMapping, ready
<1>3. CASE \E d \in net : Lose(d)
  BY <1>2, <1>3 DEF Lose, IndInv, TypeOK
<1>4. CASE Ignore
  BY <1>2, <1>4 DEF Ignore, IndInv, TypeOK
<1>5. CASE UNCHANGED vars
  BY <1>2, <1>5 DEF vars, IndInv, TypeOK
<1> QED BY <1>1, <1>3, <1>4, <1>5 DEF Next

\* The strengthened invariant, for all sets of addresses and ports.
THEOREM Inductive == Spec => []IndInv
  BY InitInv, StepInv, PTL DEF Spec

\* What was reported, counted and decided keeps its type.
THEOREM TypeCorrect == Spec => []TypeOK
<1>1. IndInv => TypeOK
  BY DEF IndInv
<1> QED BY <1>1, Inductive, PTL

\* Whatever the order of the answers, a verdict that rests on all three servers
\* calls the NAT symmetric exactly when servers 0 and 1 saw one address under two
\* ports (XfireP2PNatcheck::slotSocketRead).
THEOREM VerdictRight == Spec => []VerdictFollowsMapping
<1>1. ASSUME IndInv PROVE VerdictFollowsMapping
  <2>1. SUFFICES ASSUME ready, DOMAIN seen = Server
                 PROVE  /\ type = 2 <=> mapped[0].ip = mapped[1].ip
                                        /\ mapped[0].port # mapped[1].port
                        /\ type \in {1, 4} <=> mapped[0] = mapped[1]
    BY DEF VerdictFollowsMapping
  <2>2. type = NatType(mapped, multiplePorts) /\ mapped \in [Server -> Address]
    BY <1>1, <2>1 DEF IndInv, VerdictOfMapping, TypeOK
  <2>3. mapped[0] \in Address /\ mapped[1] \in Address
    BY <2>2 DEF Server
  <2>4. mapped[0] = mapped[1] <=> mapped[0].ip = mapped[1].ip
                                  /\ mapped[0].port = mapped[1].port
    BY <2>3 DEF Address
  <2> QED BY <2>2, <2>4 DEF NatType
<1> QED BY <1>1, Inductive, PTL
================================================================================
