----------------------------- MODULE PacketChannel -----------------------------
(***************************************************************************)
(* What the Xfire server's byte stream promises to handlePacket: on one    *)
(* connection, every packet the server sent is handed over at most once,   *)
(* in the order it was sent, none is invented, and each is handed over in  *)
(* the end while the connection stays up.  The packets that were           *)
(* already read when a handler logs the account off are still handed over, *)
(* so Deliver does not ask for the connection to be up.                    *)
(***************************************************************************)
EXTENDS Naturals, Sequences

CONSTANTS Packet,
          MaxSent    \* bound: packets of a connection

VARIABLES up, sent, delivered

vars == <<up, sent, delivered>>

Init == up = FALSE /\ sent = <<>> /\ delivered = <<>>

\* A new connection; one that does not come up as a channel promises nothing.
Open == ~up /\ up' \in BOOLEAN /\ sent' = <<>> /\ delivered' = <<>>

Send ==
    /\ up
    /\ Len(sent') = Len(sent) + 1
    /\ sent' = Append(sent, sent'[Len(sent')])
    /\ sent'[Len(sent')] \in Packet
    /\ UNCHANGED <<up, delivered>>

Deliver ==
    /\ Len(delivered) < Len(sent)
    /\ delivered' = Append(delivered, sent[Len(delivered) + 1])
    /\ up' \in {up, FALSE}
    /\ UNCHANGED sent

Close == up /\ up' = FALSE /\ UNCHANGED <<sent, delivered>>

Next == Open \/ Send \/ Deliver \/ Close

Spec == Init /\ [][Next]_vars

\* What was sent is delivered, unless the connection ends.
Delivers ==
    \A n \in 1..MaxSent :
        (up /\ Len(sent) >= n) ~> (Len(delivered) >= n \/ ~up)

LiveSpec == Spec /\ Delivers
================================================================================
