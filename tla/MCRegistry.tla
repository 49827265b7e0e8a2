---------------------------- MODULE MCRegistry ----------------------------
(* A registry of a few threads for TLC. *)
EXTENDS Registry, TLC

CONSTANTS u1, u2, u3, u4, k1, k2

(* Each of u2, u3 and u4 has an ID of u1 again: that of the host, that of the
   namespace, and both.  k1 and k2 are the server's own. *)
KernelThreads == {k1, k2}
Threads == {u1, u2, u3, u4} \cup KernelThreads
ThreadIDs == 0 .. 4
ThreadId == (u1 :> 1) @@ (u2 :> 1) @@ (u3 :> 2) @@ (u4 :> 1) @@ (k1 :> 0) @@ (k2 :> 0)
ThreadNsid == (u1 :> 1) @@ (u2 :> 2) @@ (u3 :> 1) @@ (u4 :> 1) @@ (k1 :> 3) @@ (k2 :> 4)
=============================================================================
