----------------------------- MODULE MCWorkQueue -----------------------------
(* The worker pool as the multi-threaded configuration builds it: the two
   permanent workers of minimumThreads(), and thread identities for temporary
   ones. *)
EXTENDS WorkQueue

CONSTANTS p1, p2, t1, t2

MCWorker == {p1, p2, t1, t2}
MCPermanent == {p1, p2}
=============================================================================
