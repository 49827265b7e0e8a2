------------------------------ MODULE WorkQueue ------------------------------
(***************************************************************************)
(* The worker pool of osxieserver (workers.hpp).  push() appends an item   *)
(* and either spawns a temporary worker or notifies the condition          *)
(* variable; each worker thread waits for an item, performs it, and waits  *)
(* again.  Permanent workers wait for ever, temporary ones for 15 seconds. *)
(*                                                                         *)
(* One action is one critical section of _queueMutex, or one step a thread *)
(* makes without it: the notify_one and notify_all calls come after the    *)
(* unlock, so they are steps of their own.                                 *)
(***************************************************************************)
EXTENDS Naturals, Sequences, FiniteSets

CONSTANTS Worker,          \* thread identities a worker can have
          Permanent,       \* the workers the constructor starts
          MaximumThreads,  \* maximumThreads()
          MaxPushes        \* bound on the number of push() calls

ASSUME WorkerAssumption == IsFiniteSet(Worker)
ASSUME PermanentAssumption == Permanent \subseteq Worker /\ Permanent # {}
ASSUME BoundsAssumption == /\ MaximumThreads \in Nat
                           /\ MaxPushes \in Nat
                           /\ Cardinality(Permanent) <= MaximumThreads
                           /\ MaximumThreads <= Cardinality(Worker)

VARIABLES workItems,         \* _workItems, as the tickets of the pushes
          threadsAvailable,  \* _threadsAvailable
          workerThreads,     \* the keys of _workerThreads
          dying,             \* _dying
          pc,                \* where each worker thread is
          workItem,          \* each worker's local workItem, 0 for nullopt
          pushed,            \* how many items have been pushed: the last ticket
          notifies,          \* notify_one calls due but not yet made
          destructor         \* where ~WorkQueue is

vars == <<workItems, threadsAvailable, workerThreads, dying, pc, workItem,
          pushed, notifies, destructor>>

poolVars == <<workItems, threadsAvailable, workerThreads, workItem>>

(* "waiting" threads are blocked inside the condition variable; "woken" and
   "expired" ones have left it and are about to take _queueMutex again. *)
PC == {"none", "entering", "waiting", "woken", "expired", "working", "returned"}

At(s) == {w \in Worker : pc[w] \in s}
Waiting == At({"waiting"})
Counted == At({"waiting", "woken", "expired"})   \* have done ++_threadsAvailable
Awake == At({"entering", "woken", "expired"})    \* will look at the queue

Init == /\ workItems = <<>>
        /\ threadsAvailable = 0
        /\ workerThreads = Permanent
        /\ dying = FALSE
        /\ pc = [w \in Worker |-> IF w \in Permanent THEN "entering" ELSE "none"]
        /\ workItem = [w \in Worker |-> 0]
        /\ pushed = 0
        /\ notifies = 0
        /\ destructor = "idle"

----------------------------------------------------------------------------
(* push: the object is alive, that is, its destructor has not been called. *)

HaveRoomToSpawn == /\ threadsAvailable = 0
                   /\ Cardinality(workerThreads) < MaximumThreads

Enqueue == /\ pushed < MaxPushes
           /\ destructor = "idle"
           /\ pushed' = pushed + 1
           /\ workItems' = Append(workItems, pushed + 1)
           /\ UNCHANGED <<threadsAvailable, dying, workItem, destructor>>

PushAndSpawn == /\ HaveRoomToSpawn
                /\ Enqueue
                /\ \E w \in Worker \ workerThreads :
                      /\ workerThreads' = workerThreads \cup {w}
                      /\ pc' = [pc EXCEPT ![w] = "entering"]
                /\ UNCHANGED notifies

\* Mutant: notify only for an item that finds the queue empty.
PushAndNotifyIfEmpty == /\ ~HaveRoomToSpawn
                        /\ Enqueue
                        /\ notifies' = notifies + (IF workItems = <<>> THEN 1 ELSE 0)
                        /\ UNCHANGED <<workerThreads, pc>>

\* Mutant: the notify_one is forgotten.
PushWithoutNotify == /\ ~HaveRoomToSpawn
                     /\ Enqueue
                     /\ UNCHANGED <<workerThreads, pc, notifies>>

PushAndNotify == /\ ~HaveRoomToSpawn
                 /\ Enqueue
                 /\ notifies' = notifies + 1
                 /\ UNCHANGED <<workerThreads, pc>>

Push == PushAndSpawn \/ PushAndNotify

(* The notify_one after push's unlock: it releases one waiter, if any. *)
NotifyOne ==
    /\ notifies > 0
    /\ notifies' = notifies - 1
    /\ \/ Waiting = {} /\ UNCHANGED pc
       \/ \E w \in Waiting : pc' = [pc EXCEPT ![w] = "woken"]
    /\ UNCHANGED <<poolVars, dying, pushed, destructor>>

----------------------------------------------------------------------------
(* worker: one evaluation of the wait predicate, with `available' the value
   of _threadsAvailable it starts from. *)

\* Mutant: the item is taken from the front but not popped.
TakeItemWithoutPop(w, available) ==
    /\ ~dying
    /\ workItems # <<>>
    /\ workItem' = [workItem EXCEPT ![w] = Head(workItems)]
    /\ threadsAvailable' = available - 1
    /\ pc' = [pc EXCEPT ![w] = "working"]
    /\ UNCHANGED <<workItems, workerThreads>>

TakeItem(w, available) ==
    /\ ~dying
    /\ workItems # <<>>
    /\ workItem' = [workItem EXCEPT ![w] = Head(workItems)]
    /\ workItems' = Tail(workItems)
    /\ threadsAvailable' = available - 1
    /\ pc' = [pc EXCEPT ![w] = "working"]
    /\ UNCHANGED workerThreads

StopForDying(w, available) ==
    /\ dying
    /\ threadsAvailable' = available - 1
    /\ pc' = [pc EXCEPT ![w] = "returned"]
    /\ UNCHANGED <<workItems, workerThreads, workItem>>

\* Mutant: the count is given back although the predicate was false.
KeepWaitingUncounted(w, available) ==
    /\ ~dying
    /\ workItems = <<>>
    /\ threadsAvailable' = available - 1
    /\ pc' = [pc EXCEPT ![w] = "waiting"]
    /\ UNCHANGED <<workItems, workerThreads, workItem>>

KeepWaiting(w, available) ==
    /\ ~dying
    /\ workItems = <<>>
    /\ threadsAvailable' = available
    /\ pc' = [pc EXCEPT ![w] = "waiting"]
    /\ UNCHANGED <<workItems, workerThreads, workItem>>

(* A temporary worker whose wait_for returned false. *)
Retire(w) ==
    /\ ~dying
    /\ workItems = <<>>
    /\ workerThreads' = workerThreads \ {w}
    /\ pc' = [pc EXCEPT ![w] = "none"]
    /\ UNCHANGED <<workItems, threadsAvailable, workItem>>

(* The top of the loop: lock, ++_threadsAvailable, first test of the predicate. *)
Enter(w) ==
    /\ pc[w] = "entering"
    /\ \/ TakeItem(w, threadsAvailable + 1)
       \/ StopForDying(w, threadsAvailable + 1)
       \/ KeepWaiting(w, threadsAvailable + 1)
    /\ UNCHANGED <<dying, pushed, notifies, destructor>>

Reenter(w) ==
    /\ pc[w] = "woken"
    /\ \/ TakeItem(w, threadsAvailable)
       \/ StopForDying(w, threadsAvailable)
       \/ KeepWaiting(w, threadsAvailable)
    /\ UNCHANGED <<dying, pushed, notifies, destructor>>

Expire(w) ==
    /\ pc[w] = "expired"
    /\ \/ TakeItem(w, threadsAvailable)
       \/ StopForDying(w, threadsAvailable)
       \/ Retire(w)
    /\ UNCHANGED <<dying, pushed, notifies, destructor>>

FinishWork(w) ==
    /\ pc[w] = "working"
    /\ pc' = [pc EXCEPT ![w] = "entering"]
    /\ workItem' = [workItem EXCEPT ![w] = 0]
    /\ UNCHANGED <<workItems, threadsAvailable, workerThreads, dying, pushed,
                   notifies, destructor>>

(* The condition variable's own steps: a spurious wakeup of any waiter, the
   end of the waiting period of a temporary one. *)
SpuriousWakeup(w) ==
    /\ pc[w] = "waiting"
    /\ pc' = [pc EXCEPT ![w] = "woken"]
    /\ UNCHANGED <<poolVars, dying, pushed, notifies, destructor>>

WaitPeriodEnds(w) ==
    /\ w \notin Permanent
    /\ pc[w] = "waiting"
    /\ pc' = [pc EXCEPT ![w] = "expired"]
    /\ UNCHANGED <<poolVars, dying, pushed, notifies, destructor>>

----------------------------------------------------------------------------
(* ~WorkQueue: set _dying, notify everyone, join every worker thread. *)

StartDying == /\ destructor = "idle"
              /\ dying' = TRUE
              /\ destructor' = "notifying"
              /\ UNCHANGED <<poolVars, pc, pushed, notifies>>

\* Mutant: notify_one where notify_all is needed.
NotifyOnlyOne == /\ destructor = "notifying"
                 /\ destructor' = "joining"
                 /\ \/ Waiting = {} /\ UNCHANGED pc
                    \/ \E w \in Waiting : pc' = [pc EXCEPT ![w] = "woken"]
                 /\ UNCHANGED <<poolVars, dying, pushed, notifies>>

NotifyAll == /\ destructor = "notifying"
             /\ destructor' = "joining"
             /\ pc' = [w \in Worker |->
                          IF pc[w] = "waiting" THEN "woken" ELSE pc[w]]
             /\ UNCHANGED <<poolVars, dying, pushed, notifies>>

Joined == /\ destructor = "joining"
          /\ \A w \in workerThreads : pc[w] = "returned"
          /\ destructor' = "done"
          /\ UNCHANGED <<poolVars, dying, pc, pushed, notifies>>

----------------------------------------------------------------------------
WorkerStep(w) == Enter(w) \/ Reenter(w) \/ Expire(w) \/ FinishWork(w)

Next == \/ Push \/ NotifyOne
        \/ StartDying \/ NotifyAll \/ Joined
        \/ \E w \in Worker :
              WorkerStep(w) \/ SpuriousWakeup(w) \/ WaitPeriodEnds(w)

(* Threads that can run do run, and the work function returns.  Nothing makes
   callers push, waits expire, or the queue be destroyed. *)
Fairness == /\ \A w \in Worker : WF_vars(WorkerStep(w))
            /\ WF_vars(NotifyOne)
            /\ WF_vars(NotifyAll)
            /\ WF_vars(Joined)

Spec == Init /\ [][Next]_vars /\ Fairness

----------------------------------------------------------------------------
(* Every variable has its type, and a thread exists exactly when
   _workerThreads holds it: push registers it and a retiring worker erases
   itself under the same lock. *)
TypeOK == /\ workItems \in Seq(1 .. pushed)
          /\ threadsAvailable \in Nat
          /\ workerThreads = {w \in Worker : pc[w] # "none"}
          /\ dying \in BOOLEAN
          /\ pc \in [Worker -> PC]
          /\ workItem \in [Worker -> 0 .. pushed]
          /\ pushed \in Nat
          /\ notifies \in Nat
          /\ destructor \in {"idle", "notifying", "joining", "done"}
          /\ dying <=> destructor # "idle"

(* _threadsAvailable, an unsigned counter that every successful predicate
   decrements, never counts fewer threads than are inside the wait, so it
   cannot wrap around, and push never spawns over a waiting worker. *)
CountCoversWaiters == Cardinality(Counted) <= threadsAvailable

(* push takes the notify branch or the spawn branch once per item.  While a
   worker sleeps in the condition variable, every queued item has a notify_one
   still to come or a worker of its own on its way to the queue: no item is
   stranded beside an idle worker. *)
IdleWorkersAreCalled ==
    Waiting # {} /\ ~dying => Len(workItems) <= notifies + Cardinality(Awake)

(* The pool never grows past maximumThreads(), and never shrinks below the
   permanent workers, which do not time out. *)
PoolWithinBounds == /\ Cardinality(workerThreads) <= MaximumThreads
                    /\ Permanent \subseteq workerThreads

(* ~WorkQueue walks _workerThreads without the lock: from the moment it sets
   _dying no thread may add or erase an entry. *)
MapFixedWhileJoining == [][dying => workerThreads' = workerThreads]_vars

(* A pushed item does not stay in the queue for ever, even when the push took
   the notify branch with nobody waiting. *)
EveryItemIsTaken ==
    \A i \in 1 .. MaxPushes :
        (\E k \in DOMAIN workItems : workItems[k] = i)
            ~> (dying \/ \A k \in DOMAIN workItems : workItems[k] # i)

(* The destructor walks a map that stays as it is, and its joins return: every
   worker, wherever it was, sees _dying (workers.hpp:143-153). *)
DestructorReturns == MapFixedWhileJoining /\ (dying ~> destructor = "done")

(* The queue hands each item to one worker, once, in push order. *)
D == INSTANCE Dispatcher
        WITH submitted <- pushed, backlog <- workItems,
             running <- {workItem[w] : w \in Worker} \ {0}
DispatchesInOrder == D!Spec
=============================================================================
