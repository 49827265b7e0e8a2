----------------------------- MODULE SimpleLock -----------------------------
(***************************************************************************)
(* libsimple's futex lock and condition variable (src/libsimple/src/       *)
(* lock.c).  The unit of atomicity is one atomic operation on a state word *)
(* or one futex system call, so every window between two of them is a      *)
(* place where other threads run.                                          *)
(*                                                                         *)
(* pc[t] says which atomic operation thread t does next.  A thread that is *)
(* in FUTEX_WAIT is blocked as long as it is in one of the two queues.     *)
(***************************************************************************)
EXTENDS Integers, FiniteSets

CONSTANTS Threads,      \* the threads that share one lock and one condvar
          MaxCalls,     \* bound: calls of lock, try_lock and wait begun
          MaxNotifies   \* bound: notify_one and notify_all calls begun

ASSUME SimpleLockAssumption == MaxCalls \in Nat /\ MaxNotifies \in Nat

VARIABLES state,        \* lock->state
          condvar,      \* condvar->state: the two bits and the counter above them
          pc,           \* the next operation of each thread
          expected,     \* the value of condvar->state its FUTEX_WAIT expects
          lockQueue,    \* threads asleep on &lock->state
          condQueue,    \* threads asleep on &condvar->state
          holders,      \* history: who has acquired the lock and not let it go
          notified,     \* history: who had let go of the lock to wait, and had
                        \* not reached its FUTEX_WAIT, when a notify was called
          calls, notifies

vars == <<state, condvar, pc, expected, lockQueue, condQueue, holders,
          notified, calls, notifies>>
lockVars == <<state, lockQueue, holders>>
condVars == <<condvar, expected, condQueue, notified, notifies>>

Unlocked == 0
Uncontended == 1
Contended == 2

Counters == [count : 0..MaxNotifies, one : BOOLEAN, all : BOOLEAN]

Points == {"idle", "mark", "wait", "asleep", "retry", "critical", "wake",
           "condUnlock", "condWake", "condWait", "slowWait", "slowAsleep",
           "slow", "clearOne", "wakeOne", "restoreOne", "clearAll", "requeue"}

Goto(t, p) == pc' = [pc EXCEPT ![t] = p]

Init ==
    /\ state = Unlocked
    /\ condvar = [count |-> 0, one |-> FALSE, all |-> FALSE]
    /\ pc = [t \in Threads |-> "idle"]
    /\ expected = [t \in Threads |-> condvar]
    /\ lockQueue = {}
    /\ condQueue = {}
    /\ holders = {}
    /\ notified = {}
    /\ calls = 0
    /\ notifies = 0

-----------------------------------------------------------------------------
(* libsimple_lock_lock, _try_lock, _lock_slow and _unlock *)

\* What libsimple_lock_lock does with the value its cmpxchg found.
LockPath(prev) == IF prev = Contended THEN "wait" ELSE "mark"

\* An exchange or cmpxchg found the lock free and put `new' there.
Acquire(t, new) ==
    /\ state' = new
    /\ holders' = holders \cup {t}
    /\ Goto(t, "critical")

\* libsimple_lock_lock up to its first cmpxchg.
Lock(t) ==
    /\ pc[t] = "idle"
    /\ calls < MaxCalls
    /\ calls' = calls + 1
    /\ \/ state = Unlocked /\ Acquire(t, Uncontended)
       \/ /\ state # Unlocked
          /\ Goto(t, LockPath(state))
          /\ UNCHANGED <<state, holders>>
    /\ UNCHANGED <<lockQueue, condVars>>

\* libsimple_lock_try_lock when the lock is free.
TryLock(t) ==
    /\ pc[t] = "idle"
    /\ calls < MaxCalls
    /\ state = Unlocked
    /\ calls' = calls + 1
    /\ Acquire(t, Uncontended)
    /\ UNCHANGED <<lockQueue, condVars>>

\* The cmpxchg from uncontended to contended that comes before a wait.
MarkContended(t) ==
    /\ pc[t] = "mark"
    /\ state' = IF state = Uncontended THEN Contended ELSE state
    /\ Goto(t, IF state = Unlocked THEN "retry" ELSE "wait")
    /\ UNCHANGED <<lockQueue, holders, calls, condVars>>

\* FUTEX_WAIT for as long as the lock is contended; otherwise EAGAIN.
FutexWait(t, asleep, resume) ==
    /\ \/ /\ state = Contended
          /\ lockQueue' = lockQueue \cup {t}
          /\ Goto(t, asleep)
       \/ /\ state # Contended
          /\ Goto(t, resume)
          /\ UNCHANGED lockQueue
    /\ UNCHANGED <<state, holders, calls, condVars>>

LockWait(t) == pc[t] = "wait" /\ FutexWait(t, "asleep", "retry")
SlowWait(t) == pc[t] = "slowWait" /\ FutexWait(t, "slowAsleep", "slow")

\* Mutant: takes an uncontended lock for a free one.
RetryNotContended(t) ==
    /\ pc[t] = "retry"
    /\ \/ state # Contended /\ Acquire(t, Contended)
       \/ /\ state = Contended
          /\ Goto(t, "wait")
          /\ UNCHANGED <<state, holders>>
    /\ UNCHANGED <<lockQueue, calls, condVars>>

\* Mutant: forgets that others may still sleep behind the one that was woken.
RetryUncontended(t) ==
    /\ pc[t] = "retry"
    /\ \/ state = Unlocked /\ Acquire(t, Uncontended)
       \/ /\ state # Unlocked
          /\ Goto(t, LockPath(state))
          /\ UNCHANGED <<state, holders>>
    /\ UNCHANGED <<lockQueue, calls, condVars>>

\* The cmpxchg of the loop's condition.
Retry(t) ==
    /\ pc[t] = "retry"
    /\ \/ state = Unlocked /\ Acquire(t, Contended)
       \/ /\ state # Unlocked
          /\ Goto(t, LockPath(state))
          /\ UNCHANGED <<state, holders>>
    /\ UNCHANGED <<lockQueue, calls, condVars>>

\* Mutant: the slow path takes the lock as libsimple_lock_lock first does.
LockSlowUncontended(t) ==
    /\ pc[t] = "slow"
    /\ \/ state = Unlocked /\ Acquire(t, Uncontended)
       \/ /\ state # Unlocked
          /\ state' = Contended
          /\ Goto(t, "slowWait")
          /\ UNCHANGED holders
    /\ UNCHANGED <<lockQueue, calls, condVars>>

\* libsimple_lock_lock_slow: the exchange marks the lock contended either way.
LockSlow(t) ==
    /\ pc[t] = "slow"
    /\ \/ state = Unlocked /\ Acquire(t, Contended)
       \/ /\ state # Unlocked
          /\ state' = Contended
          /\ Goto(t, "slowWait")
          /\ UNCHANGED holders
    /\ UNCHANGED <<lockQueue, calls, condVars>>

\* libsimple_lock_unlock up to its exchange; `wake' and `done' are where the
\* caller goes on when there is somebody to wake and when there is not.
Release(t, wake, done) ==
    /\ state' = Unlocked
    /\ holders' = holders \ {t}
    /\ Goto(t, IF state = Contended THEN wake ELSE done)
    /\ UNCHANGED <<lockQueue, calls, condVars>>

Unlock(t) == pc[t] = "critical" /\ Release(t, "wake", "idle")

\* FUTEX_WAKE of one thread, if there is one.
WakeLocked(t, done) ==
    /\ \/ \E u \in lockQueue : lockQueue' = lockQueue \ {u}
       \/ lockQueue = {} /\ UNCHANGED lockQueue
    /\ Goto(t, done)
    /\ UNCHANGED <<state, holders, calls, condVars>>

UnlockWake(t) == pc[t] = "wake" /\ WakeLocked(t, "idle")

\* A woken thread returns from its system call.
Resume(t) ==
    /\ t \notin lockQueue \cup condQueue
    /\ \/ pc[t] = "asleep" /\ Goto(t, "retry")
       \/ pc[t] = "slowAsleep" /\ Goto(t, "slow")
    /\ UNCHANGED <<lockVars, calls, condVars>>

\* A signal handler ran: FUTEX_WAIT returns EINTR.
Interrupted(t) ==
    /\ t \in lockQueue \cup condQueue
    /\ lockQueue' = lockQueue \ {t}
    /\ condQueue' = condQueue \ {t}
    /\ UNCHANGED <<state, condvar, pc, expected, holders, notified,
                   calls, notifies>>

-----------------------------------------------------------------------------
(* libsimple_condvar_wait, _notify_one and _notify_all *)

\* The fetch_or at the start of libsimple_condvar_wait.
CondWait(t) ==
    /\ pc[t] = "critical"
    /\ calls < MaxCalls
    /\ calls' = calls + 1
    /\ condvar' = [condvar EXCEPT !.one = TRUE, !.all = TRUE]
    /\ expected' = [expected EXCEPT ![t] = condvar']
    /\ Goto(t, "condUnlock")
    /\ notified' = notified \ {t}
    /\ UNCHANGED <<lockVars, condQueue, notifies>>

CondUnlock(t) == pc[t] = "condUnlock" /\ Release(t, "condWake", "condWait")
CondWake(t) == pc[t] = "condWake" /\ WakeLocked(t, "condWait")

\* FUTEX_WAIT on the condvar, then libsimple_lock_lock_slow.
CondSleep(t) ==
    /\ pc[t] = "condWait"
    /\ \/ /\ condvar = expected[t]
          /\ condQueue' = condQueue \cup {t}
          /\ Goto(t, "slowAsleep")
       \/ /\ condvar # expected[t]
          /\ Goto(t, "slow")
          /\ UNCHANGED condQueue
    /\ UNCHANGED <<lockVars, calls, condvar, expected, notified, notifies>>

\* A notify returns to a caller that holds the lock or does not.
Return(t) == Goto(t, IF t \in holders THEN "critical" ELSE "idle")

\* Mutant: the counter above the bits stands still.
BeginNotifyUncounted(t, bit, next) ==
    /\ notifies < MaxNotifies
    /\ notifies' = notifies + 1
    /\ notified' = notified \cup {u \in Threads : pc[u] \in {"condWake", "condWait"}}
    /\ IF bit THEN Goto(t, next) ELSE Return(t)
    /\ UNCHANGED <<lockVars, calls, condvar, expected, condQueue>>

\* The increment both notifies begin with, and the early return that follows
\* when the bit says nobody waits.
BeginNotify(t, bit, next) ==
    /\ notifies < MaxNotifies
    /\ notifies' = notifies + 1
    /\ condvar' = [condvar EXCEPT !.count = @ + 1]
    /\ notified' = notified \cup {u \in Threads : pc[u] \in {"condWake", "condWait"}}
    /\ IF bit THEN Goto(t, next) ELSE Return(t)
    /\ UNCHANGED <<lockVars, calls, expected, condQueue>>

\* libsimple_condvar_notify_one, called with the lock held.
NotifyOne(t) ==
    /\ pc[t] = "critical"
    /\ BeginNotify(t, condvar.one, "clearOne")

ClearOne(t) ==
    /\ pc[t] = "clearOne"
    /\ condvar' = [condvar EXCEPT !.one = FALSE]
    /\ IF condvar.one THEN Goto(t, "wakeOne") ELSE Return(t)
    /\ UNCHANGED <<lockVars, calls, expected, condQueue, notified,
                   notifies>>

\* Mutant: does not say that others still wait.
WakeOneOnly(t) ==
    /\ pc[t] = "wakeOne"
    /\ \/ \E u \in condQueue : condQueue' = condQueue \ {u}
       \/ condQueue = {} /\ UNCHANGED condQueue
    /\ Return(t)
    /\ UNCHANGED <<lockVars, calls, condvar, expected, notified, notifies>>

WakeOne(t) ==
    /\ pc[t] = "wakeOne"
    /\ \/ /\ \E u \in condQueue : condQueue' = condQueue \ {u}
          /\ Goto(t, "restoreOne")
       \/ /\ condQueue = {}
          /\ Return(t)
          /\ UNCHANGED condQueue
    /\ UNCHANGED <<lockVars, calls, condvar, expected, notified,
                   notifies>>

RestoreOne(t) ==
    /\ pc[t] = "restoreOne"
    /\ condvar' = [condvar EXCEPT !.one = TRUE]
    /\ Return(t)
    /\ UNCHANGED <<lockVars, calls, expected, condQueue, notified,
                   notifies>>

\* libsimple_condvar_notify_all, called with the lock held or without it.
NotifyAll(t) ==
    /\ pc[t] \in {"idle", "critical"}
    /\ BeginNotify(t, condvar.all, "clearAll")

ClearAll(t) ==
    /\ pc[t] = "clearAll"
    /\ condvar' = [condvar EXCEPT !.one = FALSE, !.all = FALSE]
    /\ Goto(t, "requeue")
    /\ UNCHANGED <<lockVars, calls, expected, condQueue, notified,
                   notifies>>

\* FUTEX_REQUEUE: one thread is woken and the others sleep on the lock.
Requeue(t) ==
    /\ pc[t] = "requeue"
    /\ \/ \E u \in condQueue : lockQueue' = lockQueue \cup (condQueue \ {u})
       \/ condQueue = {} /\ UNCHANGED lockQueue
    /\ condQueue' = {}
    /\ Return(t)
    /\ UNCHANGED <<state, holders, calls, condvar, expected,
                   notified, notifies>>

-----------------------------------------------------------------------------
\* The steps a thread takes once a call has begun, up to its return.
LockStep(t) == MarkContended(t) \/ LockWait(t) \/ SlowWait(t) \/ Retry(t)
               \/ LockSlow(t) \/ UnlockWake(t) \/ Resume(t)
CondStep(t) == CondUnlock(t) \/ CondWake(t) \/ CondSleep(t) \/ ClearOne(t)
               \/ WakeOne(t) \/ RestoreOne(t) \/ ClearAll(t) \/ Requeue(t)
Step(t) == LockStep(t) \/ CondStep(t)

Call(t) == Lock(t) \/ TryLock(t) \/ CondWait(t) \/ NotifyOne(t) \/ NotifyAll(t)

Next == \E t \in Threads : Call(t) \/ Unlock(t) \/ Step(t) \/ Interrupted(t)

\* A thread that is not blocked runs, and one that holds the lock lets it go;
\* nobody has to call anything and no signal has to arrive.
Fairness == \A t \in Threads : WF_vars(Step(t)) /\ WF_vars(Unlock(t))

Spec == Init /\ [][Next]_vars
FairSpec == Spec /\ Fairness

-----------------------------------------------------------------------------
\* Type invariant.
TypeOK ==
    /\ state \in {Unlocked, Uncontended, Contended}
    /\ condvar \in Counters
    /\ pc \in [Threads -> Points]
    /\ expected \in [Threads -> Counters]
    /\ lockQueue \subseteq Threads
    /\ condQueue \subseteq Threads
    /\ holders \subseteq Threads
    /\ notified \subseteq Threads
    /\ calls \in 0..MaxCalls
    /\ notifies \in 0..MaxNotifies

\* Mutual exclusion: at most one thread has the lock, and the word is zero
\* exactly when nobody has it, whichever of lock, try_lock, the slow path
\* after a wait, or a waiter that was requeued took it (lock.c:80-157).
MutualExclusion ==
    /\ \A t, u \in holders : t = u
    /\ state = Unlocked <=> holders = {}

\* A thread that will look at the lock word again, or is about to wake one
\* that will.
WillCheck(t) ==
    \/ pc[t] \in {"mark", "wait", "retry", "wake", "condWake", "slow", "slowWait"}
    \/ pc[t] \in {"asleep", "slowAsleep"} /\ t \notin lockQueue \cup condQueue

\* No lost wakeup: while somebody sleeps on the lock, either the word is
\* contended, so that the next unlock wakes one, or a thread is awake on its
\* way to the word or to FUTEX_WAKE.  A try_lock that overtakes a woken thread
\* leaves the word uncontended with sleepers behind it (lock.c:101-107, 135-143).
SleepersHaveAWaker ==
    lockQueue # {} => \/ state = Contended
                      \/ \E t \in Threads : WillCheck(t)

\* While somebody sleeps on the condvar the two need-to-wake bits are set, so
\* that the next notify does not return early, or the notify that cleared them
\* has not yet come to its wake (lock.c:419-436, 442-450).
SleepersAreFlagged ==
    condQueue # {} =>
        /\ condvar.one \/ \E t \in Threads : pc[t] \in {"wakeOne", "restoreOne", "requeue"}
        /\ condvar.all \/ \E t \in Threads : pc[t] = "requeue"

\* A wait that has let go of the lock when a notify is called does not go to
\* sleep after it, although the bits may be set again by then: the counter
\* above them has moved on (lock.c:411-414, 419, 442).
NoSleepThroughNotify == condQueue \cap notified = {}

\* Everyone in libsimple_lock_lock, and everyone whose wait has been answered
\* or requeued on the lock, has the lock in the end.
EveryLockReturns ==
    \A t \in Threads :
        (pc[t] \in {"mark", "wait", "retry", "slow", "slowWait"} \/ t \in lockQueue)
            ~> t \in holders
=============================================================================
