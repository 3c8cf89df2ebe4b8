----------------------------- MODULE MCWorkQueue -----------------------------
(***************************************************************************)
(* Small instances of WorkQueueClients for TLC.                            *)
(***************************************************************************)
EXTENDS WorkQueueRefinement

CONSTANTS c1, c2, c3, w1, w2, x1, x2, x3

Threads == Client \cup Worker

TaskSeq == <<x1, x2, x3>>
=============================================================================
