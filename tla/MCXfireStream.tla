----------------------------- MODULE MCXfireStream -----------------------------
(***************************************************************************)
(* Small instances of XfireStream.  The header is scaled from 5 bytes to   *)
(* 3; a frame that declares less than a header, and frames of two lengths, *)
(* are there, so that a chunk can end at every kind of place.              *)
(***************************************************************************)
EXTENDS XfireStream

MCFrames == {[size |-> 3, kind |-> "ok"], [size |-> 4, kind |-> "ok"],
             [size |-> 3, kind |-> "goodbye"],
             [size |-> 4, kind |-> "bad"], [size |-> 1, kind |-> "bad"]}

\* A server that sends nothing but packets the client accepts and stays for.
MCGoodFrames == {f \in MCFrames : f.kind = "ok"}
================================================================================
