---------------------------- MODULE MCXfireMessages ----------------------------
(***************************************************************************)
(* Two peers for XfireMessages, and the worlds they meet in.               *)
(***************************************************************************)
EXTENDS XfireMessages, TLC

CONSTANTS alice, bob

MCPeer == {alice, bob}

\* A world where alice writes a and bob b messages.
World(a, b, lossy, quits) ==
    [texts |-> (alice :> a @@ bob :> b), enabled |-> MCPeer, open |-> MCPeer,
     lossy |-> lossy, slow |-> FALSE, quits |-> quits, returns |-> FALSE, listed |-> MCPeer]

\* One writes over a bad and slow network and both may quit; one writes twice over a
\* bad network; both write once over a bad network; both write, and one writes three
\* times, over a good network; one writes twice over a network that loses nothing
\* but is slow; one writes to a friend who does not find himself in
\* his lists; only one of the two can be reached; one has peer to peer disabled;
\* both write and may end and come back.
MCWorlds ==
    {[World(1, 0, TRUE, TRUE) EXCEPT !.slow = TRUE],
     World(2, 0, TRUE, FALSE),
     World(1, 1, TRUE, FALSE),
     World(2, 1, FALSE, FALSE),
     World(3, 0, FALSE, FALSE),
     [World(2, 0, FALSE, FALSE) EXCEPT !.slow = TRUE],
     [World(2, 0, FALSE, FALSE) EXCEPT !.listed = {}],
     [World(1, 2, TRUE, FALSE) EXCEPT !.open = {alice}, !.slow = TRUE],
     [World(2, 0, TRUE, FALSE) EXCEPT !.enabled = {alice}],
     [World(1, 1, FALSE, TRUE) EXCEPT !.returns = TRUE]}
================================================================================
