----------------------------- MODULE Dispatcher -----------------------------
(***************************************************************************)
(* What a work queue promises to the code that calls push: every item is   *)
(* handed to one worker, in the order in which the items were pushed, and  *)
(* is handed to it once.  Which worker, how many workers there are and how *)
(* they are woken is left open.                                            *)
(***************************************************************************)
EXTENDS Naturals, Sequences

CONSTANT MaxPushes      \* bound on the number of items ever submitted

VARIABLES submitted,    \* how many items have been submitted
          backlog,      \* the items nobody has been given yet, oldest first
          running       \* the items being performed

vars == <<submitted, backlog, running>>

Init == submitted = 0 /\ backlog = <<>> /\ running = {}

Submit == /\ submitted < MaxPushes
          /\ submitted' = submitted + 1
          /\ backlog' = Append(backlog, submitted + 1)
          /\ UNCHANGED running

Dispatch == /\ backlog # <<>>
            /\ backlog' = Tail(backlog)
            /\ running' = running \cup {Head(backlog)}
            /\ UNCHANGED submitted

Complete == \E i \in running : /\ running' = running \ {i}
                               /\ UNCHANGED <<submitted, backlog>>

Next == Submit \/ Dispatch \/ Complete

Spec == Init /\ [][Next]_vars
=============================================================================
