-------------------------- MODULE MCXfireFileTransfer --------------------------
(***************************************************************************)
(* File sizes for XfireFileTransfer.  Chunks of 51200 and packets of 1024  *)
(* bytes are scaled so that a chunk is a few packets and the last chunk    *)
(* and the last packet can be short.                                       *)
(***************************************************************************)
EXTENDS XfireFileTransfer, TLC

CONSTANTS f1, f2

MCFiles == {f1, f2}

World(size1, size2, duplicates) ==
    [size |-> (f1 :> size1) @@ (f2 :> size2), duplicates |-> duplicates]

\* One file of three chunks, the last with a short packet; a file of
\* two chunks, and two files at once, and a datagram that comes twice.
MCWorlds == {World(13, 0, 0), World(8, 0, 1), World(3, 2, 1)}

\* One file with as many chunks as a chunk has packets, less one.
MCOneFile == {World(6, 0, 0)}
================================================================================
