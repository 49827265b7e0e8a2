-------------------------- MODULE SimpleLockProofs --------------------------
(***************************************************************************)
(* The safety properties of libsimple's lock and condition variable, for   *)
(* every set of threads and every bound on their calls.  The inductive     *)
(* invariant adds to the properties where the holder and the sleepers are  *)
(* in the code and what a wait remembers of the condition variable.        *)
(***************************************************************************)
EXTENDS SimpleLock, TLAPS

(* Places only a holder gets to, and those of notify_all, which anyone may call. *)
Held == {"critical", "condUnlock", "clearOne", "wakeOne", "restoreOne"}
MayHold == Held \cup {"clearAll", "requeue"}

Counted == condvar.count = notifies

HoldersAt ==
    /\ \A t \in Threads : pc[t] \in Held => t \in holders
    /\ \A t \in holders : pc[t] \in MayHold

SleepersAt ==
    /\ \A t \in lockQueue : pc[t] \in {"asleep", "slowAsleep"}
    /\ \A t \in condQueue : pc[t] = "slowAsleep"
    /\ lockQueue \cap condQueue = {}

(* What a wait expects to find in the word: both bits, and a counter that a notify since
   the unlock has left behind. *)
WaitsRemember ==
    \A t \in Threads :
        /\ pc[t] = "condUnlock" => t \notin notified
        /\ pc[t] \in {"condUnlock", "condWake", "condWait"} =>
              /\ expected[t].one /\ expected[t].all
              /\ expected[t].count <= condvar.count
              /\ t \in notified => expected[t].count < condvar.count

Inv == /\ TypeOK /\ Counted /\ HoldersAt /\ SleepersAt /\ WaitsRemember
       /\ MutualExclusion /\ SleepersHaveAWaker /\ SleepersAreFlagged /\ NoSleepThroughNotify

(***************************************************************************)
(* Each part of the invariant is kept by every step.                       *)
(***************************************************************************)

(* Every step keeps the types; the counter stays within the notifies begun. *)
LEMMA TypeOKStep == Inv /\ [Next]_vars => TypeOK'
<1> SUFFICES ASSUME Inv, [Next]_vars PROVE TypeOK'
  OBVIOUS
<1> USE SimpleLockAssumption DEF Inv, Goto, lockVars, condVars, vars
<1>1. ASSUME NEW t \in Threads, Lock(t) PROVE TypeOK'
  BY <1>1 DEF Lock, Acquire, LockPath, TypeOK, Counted, Points, Counters, Unlocked,
       Uncontended, Contended
<1>2. ASSUME NEW t \in Threads, TryLock(t) PROVE TypeOK'
  BY <1>2 DEF TryLock, Acquire, TypeOK, Counted, Points, Counters, Unlocked, Uncontended,
       Contended
<1>3. ASSUME NEW t \in Threads, CondWait(t) PROVE TypeOK'
  <2>1. condvar' \in Counters
    BY <1>3 DEF CondWait, TypeOK, Counters
  <2>2. expected' \in [Threads -> Counters]
    BY <1>3, <2>1 DEF CondWait, TypeOK
  <2>3. pc' \in [Threads -> Points] /\ calls' \in 0..MaxCalls /\ notified' \subseteq Threads
    BY <1>3 DEF CondWait, TypeOK, Points
  <2>4. QED
    BY <1>3, <2>1, <2>2, <2>3 DEF CondWait, TypeOK
<1>4. ASSUME NEW t \in Threads, NotifyOne(t) PROVE TypeOK'
  BY <1>4 DEF NotifyOne, BeginNotify, Return, TypeOK, Counted, Points, Counters, Unlocked,
       Uncontended, Contended
<1>5. ASSUME NEW t \in Threads, NotifyAll(t) PROVE TypeOK'
  BY <1>5 DEF NotifyAll, BeginNotify, Return, TypeOK, Counted, Points, Counters, Unlocked,
       Uncontended, Contended
<1>6. ASSUME NEW t \in Threads, Unlock(t) PROVE TypeOK'
  BY <1>6 DEF Unlock, Release, TypeOK, Counted, Points, Counters, Unlocked, Uncontended,
       Contended
<1>7. ASSUME NEW t \in Threads, LockStep(t) PROVE TypeOK'
  BY <1>7 DEF LockStep, MarkContended, LockWait, FutexWait, SlowWait, Retry, Acquire,
       LockPath, LockSlow, UnlockWake, WakeLocked, Resume, TypeOK, Counted, Points,
       Counters, Unlocked, Uncontended, Contended
<1>8. ASSUME NEW t \in Threads, CondStep(t) PROVE TypeOK'
  BY <1>8 DEF CondStep, CondUnlock, Release, CondWake, WakeLocked, CondSleep, ClearOne,
       Return, WakeOne, RestoreOne, ClearAll, Requeue, TypeOK, Counted, Points, Counters,
       Unlocked, Uncontended, Contended
<1>9. ASSUME NEW t \in Threads, Interrupted(t) PROVE TypeOK'
  BY <1>9 DEF Interrupted, TypeOK, Counted, Points, Counters, Unlocked, Uncontended,
       Contended
<1>10. CASE UNCHANGED vars
  BY <1>10 DEF TypeOK, Counted, Points, Counters, Unlocked, Uncontended, Contended
<1>11. QED
  BY <1>1, <1>2, <1>3, <1>4, <1>5, <1>6, <1>7, <1>8, <1>9, <1>10 DEF Next, Step, Call

(* Only the increment at the start of a notify moves the counter. *)
LEMMA CountedStep == Inv /\ [Next]_vars => Counted'
<1> SUFFICES ASSUME Inv, [Next]_vars PROVE Counted'
  OBVIOUS
<1> USE DEF Inv, Goto, lockVars, condVars, vars
<1>1. ASSUME NEW t \in Threads, Call(t) PROVE Counted'
  BY <1>1 DEF Call, Lock, Acquire, LockPath, TryLock, CondWait, NotifyOne, BeginNotify,
       Return, NotifyAll, Counted, TypeOK, Counters
<1>2. ASSUME NEW t \in Threads, Unlock(t) PROVE Counted'
  BY <1>2 DEF Unlock, Release, Counted, TypeOK, Counters
<1>3. ASSUME NEW t \in Threads, LockStep(t) PROVE Counted'
  BY <1>3 DEF LockStep, MarkContended, LockWait, FutexWait, SlowWait, Retry, Acquire,
       LockPath, LockSlow, UnlockWake, WakeLocked, Resume, Counted, TypeOK, Counters
<1>4. ASSUME NEW t \in Threads, CondStep(t) PROVE Counted'
  BY <1>4 DEF CondStep, CondUnlock, Release, CondWake, WakeLocked, CondSleep, ClearOne,
       Return, WakeOne, RestoreOne, ClearAll, Requeue, Counted, TypeOK, Counters
<1>5. ASSUME NEW t \in Threads, Interrupted(t) PROVE Counted'
  BY <1>5 DEF Interrupted, Counted, TypeOK, Counters
<1>6. CASE UNCHANGED vars
  BY <1>6 DEF Counted, TypeOK, Counters
<1>7. QED
  BY <1>1, <1>2, <1>3, <1>4, <1>5, <1>6 DEF Next, Step

(* A thread gets to a place where the lock is held by acquiring it, and leaves such a
   place by letting go; notify_all returns to where its caller was. *)
LEMMA HoldersAtStep == Inv /\ [Next]_vars => HoldersAt'
<1> SUFFICES ASSUME Inv, [Next]_vars PROVE HoldersAt'
  OBVIOUS
<1> USE DEF Inv, Goto, lockVars, condVars, vars
<1>1. ASSUME NEW t \in Threads, Call(t) PROVE HoldersAt'
  BY <1>1 DEF Call, Lock, Acquire, LockPath, TryLock, CondWait, NotifyOne, BeginNotify,
       Return, NotifyAll, HoldersAt, TypeOK, Held, MayHold
<1>2. ASSUME NEW t \in Threads, Unlock(t) PROVE HoldersAt'
  BY <1>2 DEF Unlock, Release, HoldersAt, TypeOK, Held, MayHold
<1>3. ASSUME NEW t \in Threads, LockStep(t) PROVE HoldersAt'
  BY <1>3 DEF LockStep, MarkContended, LockWait, FutexWait, SlowWait, Retry, Acquire,
       LockPath, LockSlow, UnlockWake, WakeLocked, Resume, HoldersAt, TypeOK, Held,
       MayHold
<1>4. ASSUME NEW t \in Threads, CondStep(t) PROVE HoldersAt'
  BY <1>4 DEF CondStep, CondUnlock, Release, CondWake, WakeLocked, CondSleep, ClearOne,
       Return, WakeOne, RestoreOne, ClearAll, Requeue, HoldersAt, TypeOK, Held, MayHold
<1>5. ASSUME NEW t \in Threads, Interrupted(t) PROVE HoldersAt'
  BY <1>5 DEF Interrupted, HoldersAt, TypeOK, Held, MayHold
<1>6. CASE UNCHANGED vars
  BY <1>6 DEF HoldersAt, TypeOK, Held, MayHold
<1>7. QED
  BY <1>1, <1>2, <1>3, <1>4, <1>5, <1>6 DEF Next, Step

(* A thread falls asleep on one word at a time; a requeue moves it. *)
LEMMA SleepersAtStep == Inv /\ [Next]_vars => SleepersAt'
<1> SUFFICES ASSUME Inv, [Next]_vars PROVE SleepersAt'
  OBVIOUS
<1> USE DEF Inv, Goto, lockVars, condVars, vars
<1>1. ASSUME NEW t \in Threads, Call(t) PROVE SleepersAt'
  BY <1>1 DEF Call, Lock, Acquire, LockPath, TryLock, CondWait, NotifyOne, BeginNotify,
       Return, NotifyAll, SleepersAt, TypeOK
<1>2. ASSUME NEW t \in Threads, Unlock(t) PROVE SleepersAt'
  BY <1>2 DEF Unlock, Release, SleepersAt, TypeOK
<1>3. ASSUME NEW t \in Threads, LockStep(t) PROVE SleepersAt'
  BY <1>3 DEF LockStep, MarkContended, LockWait, FutexWait, SlowWait, Retry, Acquire,
       LockPath, LockSlow, UnlockWake, WakeLocked, Resume, SleepersAt, TypeOK
<1>4. ASSUME NEW t \in Threads, CondStep(t) PROVE SleepersAt'
  BY <1>4 DEF CondStep, CondUnlock, Release, CondWake, WakeLocked, CondSleep, ClearOne,
       Return, WakeOne, RestoreOne, ClearAll, Requeue, SleepersAt, TypeOK
<1>5. ASSUME NEW t \in Threads, Interrupted(t) PROVE SleepersAt'
  BY <1>5 DEF Interrupted, SleepersAt, TypeOK
<1>6. CASE UNCHANGED vars
  BY <1>6 DEF SleepersAt, TypeOK
<1>7. QED
  BY <1>1, <1>2, <1>3, <1>4, <1>5, <1>6 DEF Next, Step

(* A wait expects the word as it was when it still held the lock: a notify since then
   has moved the counter past it. *)
LEMMA WaitsRememberStep == Inv /\ [Next]_vars => WaitsRemember'
<1> SUFFICES ASSUME Inv, [Next]_vars PROVE WaitsRemember'
  OBVIOUS
<1> USE DEF Inv, Goto, lockVars, condVars, vars
<1>1. ASSUME NEW t \in Threads, Lock(t) PROVE WaitsRemember'
  BY <1>1 DEF Lock, Acquire, LockPath, WaitsRemember, TypeOK, Counters, Counted
<1>2. ASSUME NEW t \in Threads, TryLock(t) PROVE WaitsRemember'
  BY <1>2 DEF TryLock, Acquire, WaitsRemember, TypeOK, Counters, Counted
<1>3. ASSUME NEW t \in Threads, CondWait(t) PROVE WaitsRemember'
  BY <1>3 DEF CondWait, WaitsRemember, TypeOK, Counters, Counted
<1>4. ASSUME NEW t \in Threads, NotifyOne(t) PROVE WaitsRemember'
  BY <1>4 DEF NotifyOne, BeginNotify, Return, WaitsRemember, TypeOK, Counters, Counted
<1>5. ASSUME NEW t \in Threads, NotifyAll(t) PROVE WaitsRemember'
  BY <1>5 DEF NotifyAll, BeginNotify, Return, WaitsRemember, TypeOK, Counters, Counted
<1>6. ASSUME NEW t \in Threads, Unlock(t) PROVE WaitsRemember'
  BY <1>6 DEF Unlock, Release, WaitsRemember, TypeOK, Counters, Counted
<1>7. ASSUME NEW t \in Threads, LockStep(t) PROVE WaitsRemember'
  BY <1>7 DEF LockStep, MarkContended, LockWait, FutexWait, SlowWait, Retry, Acquire,
       LockPath, LockSlow, UnlockWake, WakeLocked, Resume, WaitsRemember, TypeOK,
       Counters, Counted
<1>8. ASSUME NEW t \in Threads, CondStep(t) PROVE WaitsRemember'
  BY <1>8 DEF CondStep, CondUnlock, Release, CondWake, WakeLocked, CondSleep, ClearOne,
       Return, WakeOne, RestoreOne, ClearAll, Requeue, WaitsRemember, TypeOK, Counters,
       Counted
<1>9. ASSUME NEW t \in Threads, Interrupted(t) PROVE WaitsRemember'
  BY <1>9 DEF Interrupted, WaitsRemember, TypeOK, Counters, Counted
<1>10. CASE UNCHANGED vars
  BY <1>10 DEF WaitsRemember, TypeOK, Counters, Counted
<1>11. QED
  BY <1>1, <1>2, <1>3, <1>4, <1>5, <1>6, <1>7, <1>8, <1>9, <1>10 DEF Next, Step, Call

(* An acquisition finds the word zero, hence nobody holding; whoever lets go is the one
   that holds, and writes zero. *)
LEMMA MutualExclusionStep == Inv /\ [Next]_vars => MutualExclusion'
<1> SUFFICES ASSUME Inv, [Next]_vars PROVE MutualExclusion'
  OBVIOUS
<1> USE DEF Inv, Goto, lockVars, condVars, vars
<1>1. ASSUME NEW t \in Threads, Lock(t) PROVE MutualExclusion'
  BY <1>1 DEF Lock, Acquire, LockPath, MutualExclusion, HoldersAt, Held, MayHold, TypeOK,
       Unlocked, Uncontended, Contended
<1>2. ASSUME NEW t \in Threads, TryLock(t) PROVE MutualExclusion'
  BY <1>2 DEF TryLock, Acquire, MutualExclusion, HoldersAt, Held, MayHold, TypeOK,
       Unlocked, Uncontended, Contended
<1>3. ASSUME NEW t \in Threads, CondWait(t) PROVE MutualExclusion'
  BY <1>3 DEF CondWait, MutualExclusion, HoldersAt, Held, MayHold, TypeOK, Unlocked,
       Uncontended, Contended
<1>4. ASSUME NEW t \in Threads, NotifyOne(t) PROVE MutualExclusion'
  BY <1>4 DEF NotifyOne, BeginNotify, Return, MutualExclusion, HoldersAt, Held, MayHold,
       TypeOK, Unlocked, Uncontended, Contended
<1>5. ASSUME NEW t \in Threads, NotifyAll(t) PROVE MutualExclusion'
  BY <1>5 DEF NotifyAll, BeginNotify, Return, MutualExclusion, HoldersAt, Held, MayHold,
       TypeOK, Unlocked, Uncontended, Contended
<1>6. ASSUME NEW t \in Threads, Unlock(t) PROVE MutualExclusion'
  BY <1>6 DEF Unlock, Release, MutualExclusion, HoldersAt, Held, MayHold, TypeOK,
       Unlocked, Uncontended, Contended
<1>7. ASSUME NEW t \in Threads, MarkContended(t) PROVE MutualExclusion'
  BY <1>7 DEF MarkContended, MutualExclusion, HoldersAt, Held, MayHold, TypeOK, Unlocked,
       Uncontended, Contended
<1>8. ASSUME NEW t \in Threads, LockWait(t) PROVE MutualExclusion'
  BY <1>8 DEF LockWait, FutexWait, MutualExclusion, HoldersAt, Held, MayHold, TypeOK,
       Unlocked, Uncontended, Contended
<1>9. ASSUME NEW t \in Threads, SlowWait(t) PROVE MutualExclusion'
  BY <1>9 DEF SlowWait, FutexWait, MutualExclusion, HoldersAt, Held, MayHold, TypeOK,
       Unlocked, Uncontended, Contended
<1>10. ASSUME NEW t \in Threads, Retry(t) PROVE MutualExclusion'
  BY <1>10 DEF Retry, Acquire, LockPath, MutualExclusion, HoldersAt, Held, MayHold,
       TypeOK, Unlocked, Uncontended, Contended
<1>11. ASSUME NEW t \in Threads, LockSlow(t) PROVE MutualExclusion'
  BY <1>11 DEF LockSlow, Acquire, MutualExclusion, HoldersAt, Held, MayHold, TypeOK,
       Unlocked, Uncontended, Contended
<1>12. ASSUME NEW t \in Threads, UnlockWake(t) PROVE MutualExclusion'
  BY <1>12 DEF UnlockWake, WakeLocked, MutualExclusion, HoldersAt, Held, MayHold, TypeOK,
       Unlocked, Uncontended, Contended
<1>13. ASSUME NEW t \in Threads, Resume(t) PROVE MutualExclusion'
  BY <1>13 DEF Resume, MutualExclusion, HoldersAt, Held, MayHold, TypeOK, Unlocked,
       Uncontended, Contended
<1>14. ASSUME NEW t \in Threads, CondStep(t) PROVE MutualExclusion'
  BY <1>14 DEF CondStep, CondUnlock, Release, CondWake, WakeLocked, CondSleep, ClearOne,
       Return, WakeOne, RestoreOne, ClearAll, Requeue, MutualExclusion, HoldersAt, Held,
       MayHold, TypeOK, Unlocked, Uncontended, Contended
<1>15. ASSUME NEW t \in Threads, Interrupted(t) PROVE MutualExclusion'
  BY <1>15 DEF Interrupted, MutualExclusion, HoldersAt, Held, MayHold, TypeOK, Unlocked,
       Uncontended, Contended
<1>16. CASE UNCHANGED vars
  BY <1>16 DEF MutualExclusion, HoldersAt, Held, MayHold, TypeOK, Unlocked, Uncontended,
       Contended
<1>17. QED
  BY <1>1, <1>2, <1>3, <1>4, <1>5, <1>6, <1>7, <1>8, <1>9, <1>10, <1>11, <1>12, <1>13,
       <1>14, <1>15, <1>16 DEF Next, Step, Call, LockStep

(* A thread that stops being a waker either leaves the word contended or has just woken
   another: an acquisition that saw the lock contended leaves it contended, an unlock
   of a contended lock goes on to its wake, and a wake, an interruption or a requeue
   gets its own thread off both queues. *)
LEMMA SleepersHaveAWakerStep == Inv /\ [Next]_vars => SleepersHaveAWaker'
<1> SUFFICES ASSUME Inv, [Next]_vars PROVE SleepersHaveAWaker'
  OBVIOUS
<1> USE DEF Inv, Goto, lockVars, condVars, vars
<1>1. ASSUME NEW t \in Threads, Lock(t) PROVE SleepersHaveAWaker'
  BY <1>1 DEF Lock, Acquire, LockPath, SleepersHaveAWaker, WillCheck, SleepersAt, TypeOK,
       Unlocked, Uncontended, Contended
<1>2. ASSUME NEW t \in Threads, TryLock(t) PROVE SleepersHaveAWaker'
  BY <1>2 DEF TryLock, Acquire, SleepersHaveAWaker, WillCheck, SleepersAt, TypeOK,
       Unlocked, Uncontended, Contended
<1>3. ASSUME NEW t \in Threads, CondWait(t) PROVE SleepersHaveAWaker'
  BY <1>3 DEF CondWait, SleepersHaveAWaker, WillCheck, SleepersAt, TypeOK, Unlocked,
       Uncontended, Contended
<1>4. ASSUME NEW t \in Threads, NotifyOne(t) PROVE SleepersHaveAWaker'
  BY <1>4 DEF NotifyOne, BeginNotify, Return, SleepersHaveAWaker, WillCheck, SleepersAt,
       TypeOK, Unlocked, Uncontended, Contended
<1>5. ASSUME NEW t \in Threads, NotifyAll(t) PROVE SleepersHaveAWaker'
  BY <1>5 DEF NotifyAll, BeginNotify, Return, SleepersHaveAWaker, WillCheck, SleepersAt,
       TypeOK, Unlocked, Uncontended, Contended
<1>6. ASSUME NEW t \in Threads, Unlock(t) PROVE SleepersHaveAWaker'
  BY <1>6 DEF Unlock, Release, SleepersHaveAWaker, WillCheck, SleepersAt, TypeOK,
       Unlocked, Uncontended, Contended
<1>7. ASSUME NEW t \in Threads, MarkContended(t) PROVE SleepersHaveAWaker'
  BY <1>7 DEF MarkContended, SleepersHaveAWaker, WillCheck, SleepersAt, TypeOK, Unlocked,
       Uncontended, Contended
<1>8. ASSUME NEW t \in Threads, LockWait(t) PROVE SleepersHaveAWaker'
  BY <1>8 DEF LockWait, FutexWait, SleepersHaveAWaker, WillCheck, SleepersAt, TypeOK,
       Unlocked, Uncontended, Contended
<1>9. ASSUME NEW t \in Threads, SlowWait(t) PROVE SleepersHaveAWaker'
  BY <1>9 DEF SlowWait, FutexWait, SleepersHaveAWaker, WillCheck, SleepersAt, TypeOK,
       Unlocked, Uncontended, Contended
<1>10. ASSUME NEW t \in Threads, Retry(t) PROVE SleepersHaveAWaker'
  BY <1>10 DEF Retry, Acquire, LockPath, SleepersHaveAWaker, WillCheck, SleepersAt,
       TypeOK, Unlocked, Uncontended, Contended
<1>11. ASSUME NEW t \in Threads, LockSlow(t) PROVE SleepersHaveAWaker'
  BY <1>11 DEF LockSlow, Acquire, SleepersHaveAWaker, WillCheck, SleepersAt, TypeOK,
       Unlocked, Uncontended, Contended
<1>12. ASSUME NEW t \in Threads, UnlockWake(t) PROVE SleepersHaveAWaker'
  BY <1>12 DEF UnlockWake, WakeLocked, SleepersHaveAWaker, WillCheck, SleepersAt, TypeOK,
       Unlocked, Uncontended, Contended
<1>13. ASSUME NEW t \in Threads, Resume(t) PROVE SleepersHaveAWaker'
  BY <1>13 DEF Resume, SleepersHaveAWaker, WillCheck, SleepersAt, TypeOK, Unlocked,
       Uncontended, Contended
<1>14. ASSUME NEW t \in Threads, CondUnlock(t) PROVE SleepersHaveAWaker'
  BY <1>14 DEF CondUnlock, Release, SleepersHaveAWaker, WillCheck, SleepersAt, TypeOK,
       Unlocked, Uncontended, Contended
<1>15. ASSUME NEW t \in Threads, CondWake(t) PROVE SleepersHaveAWaker'
  BY <1>15 DEF CondWake, WakeLocked, SleepersHaveAWaker, WillCheck, SleepersAt, TypeOK,
       Unlocked, Uncontended, Contended
<1>16. ASSUME NEW t \in Threads, CondSleep(t) PROVE SleepersHaveAWaker'
  BY <1>16 DEF CondSleep, SleepersHaveAWaker, WillCheck, SleepersAt, TypeOK, Unlocked,
       Uncontended, Contended
<1>17. ASSUME NEW t \in Threads, ClearOne(t) PROVE SleepersHaveAWaker'
  BY <1>17 DEF ClearOne, Return, SleepersHaveAWaker, WillCheck, SleepersAt, TypeOK,
       Unlocked, Uncontended, Contended
<1>18. ASSUME NEW t \in Threads, WakeOne(t) PROVE SleepersHaveAWaker'
  BY <1>18 DEF WakeOne, Return, SleepersHaveAWaker, WillCheck, SleepersAt, TypeOK,
       Unlocked, Uncontended, Contended
<1>19. ASSUME NEW t \in Threads, RestoreOne(t) PROVE SleepersHaveAWaker'
  BY <1>19 DEF RestoreOne, Return, SleepersHaveAWaker, WillCheck, SleepersAt, TypeOK,
       Unlocked, Uncontended, Contended
<1>20. ASSUME NEW t \in Threads, ClearAll(t) PROVE SleepersHaveAWaker'
  BY <1>20 DEF ClearAll, SleepersHaveAWaker, WillCheck, SleepersAt, TypeOK, Unlocked,
       Uncontended, Contended
<1>21. ASSUME NEW t \in Threads, Requeue(t) PROVE SleepersHaveAWaker'
  BY <1>21 DEF Requeue, Return, SleepersHaveAWaker, WillCheck, SleepersAt, TypeOK,
       Unlocked, Uncontended, Contended
<1>22. ASSUME NEW t \in Threads, Interrupted(t) PROVE SleepersHaveAWaker'
  BY <1>22 DEF Interrupted, SleepersHaveAWaker, WillCheck, SleepersAt, TypeOK, Unlocked,
       Uncontended, Contended
<1>23. CASE UNCHANGED vars
  BY <1>23 DEF SleepersHaveAWaker, WillCheck, SleepersAt, TypeOK, Unlocked, Uncontended,
       Contended
<1>24. QED
  BY <1>1, <1>2, <1>3, <1>4, <1>5, <1>6, <1>7, <1>8, <1>9, <1>10, <1>11, <1>12, <1>13,
       <1>14, <1>15, <1>16, <1>17, <1>18, <1>19, <1>20, <1>21, <1>22, <1>23 DEF Next,
       Step, Call, LockStep, CondStep

(* Who clears a bit goes on to a wake, and a wake that found somebody sets the bit
   again; a sleeper has seen both bits set when it fell asleep. *)
LEMMA SleepersAreFlaggedStep == Inv /\ [Next]_vars => SleepersAreFlagged'
<1> SUFFICES ASSUME Inv, [Next]_vars PROVE SleepersAreFlagged'
  OBVIOUS
<1> USE DEF Inv, Goto, lockVars, condVars, vars
<1>1. ASSUME NEW t \in Threads, Call(t) PROVE SleepersAreFlagged'
  BY <1>1 DEF Call, Lock, Acquire, LockPath, TryLock, CondWait, NotifyOne, BeginNotify,
       Return, NotifyAll, SleepersAreFlagged, WaitsRemember, TypeOK, Counters
<1>2. ASSUME NEW t \in Threads, Unlock(t) PROVE SleepersAreFlagged'
  BY <1>2 DEF Unlock, Release, SleepersAreFlagged, WaitsRemember, TypeOK, Counters
<1>3. ASSUME NEW t \in Threads, LockStep(t) PROVE SleepersAreFlagged'
  BY <1>3 DEF LockStep, MarkContended, LockWait, FutexWait, SlowWait, Retry, Acquire,
       LockPath, LockSlow, UnlockWake, WakeLocked, Resume, SleepersAreFlagged,
       WaitsRemember, TypeOK, Counters
<1>4. ASSUME NEW t \in Threads, CondUnlock(t) PROVE SleepersAreFlagged'
  BY <1>4 DEF CondUnlock, Release, SleepersAreFlagged, WaitsRemember, TypeOK, Counters
<1>5. ASSUME NEW t \in Threads, CondWake(t) PROVE SleepersAreFlagged'
  BY <1>5 DEF CondWake, WakeLocked, SleepersAreFlagged, WaitsRemember, TypeOK, Counters
<1>6. ASSUME NEW t \in Threads, CondSleep(t) PROVE SleepersAreFlagged'
  BY <1>6 DEF CondSleep, SleepersAreFlagged, WaitsRemember, TypeOK, Counters
<1>7. ASSUME NEW t \in Threads, ClearOne(t) PROVE SleepersAreFlagged'
  BY <1>7 DEF ClearOne, Return, SleepersAreFlagged, WaitsRemember, TypeOK, Counters
<1>8. ASSUME NEW t \in Threads, WakeOne(t) PROVE SleepersAreFlagged'
  BY <1>8 DEF WakeOne, Return, SleepersAreFlagged, WaitsRemember, TypeOK, Counters
<1>9. ASSUME NEW t \in Threads, RestoreOne(t) PROVE SleepersAreFlagged'
  BY <1>9 DEF RestoreOne, Return, SleepersAreFlagged, WaitsRemember, TypeOK, Counters
<1>10. ASSUME NEW t \in Threads, ClearAll(t) PROVE SleepersAreFlagged'
  BY <1>10 DEF ClearAll, SleepersAreFlagged, WaitsRemember, TypeOK, Counters
<1>11. ASSUME NEW t \in Threads, Requeue(t) PROVE SleepersAreFlagged'
  BY <1>11 DEF Requeue, Return, SleepersAreFlagged, WaitsRemember, TypeOK, Counters
<1>12. ASSUME NEW t \in Threads, Interrupted(t) PROVE SleepersAreFlagged'
  BY <1>12 DEF Interrupted, SleepersAreFlagged, WaitsRemember, TypeOK, Counters
<1>13. CASE UNCHANGED vars
  BY <1>13 DEF SleepersAreFlagged, WaitsRemember, TypeOK, Counters
<1>14. QED
  BY <1>1, <1>2, <1>3, <1>4, <1>5, <1>6, <1>7, <1>8, <1>9, <1>10, <1>11, <1>12, <1>13 DEF
       Next, Step, CondStep

(* The words of a wait that was notified on its way differ, so that it does not sleep. *)
LEMMA NoSleepThroughNotifyStep == Inv /\ [Next]_vars => NoSleepThroughNotify'
<1> SUFFICES ASSUME Inv, [Next]_vars PROVE NoSleepThroughNotify'
  OBVIOUS
<1> USE DEF Inv, Goto, lockVars, condVars, vars
<1>1. ASSUME NEW t \in Threads, Call(t) PROVE NoSleepThroughNotify'
  BY <1>1 DEF Call, Lock, Acquire, LockPath, TryLock, CondWait, NotifyOne, BeginNotify,
       Return, NotifyAll, NoSleepThroughNotify, WaitsRemember, SleepersAt, TypeOK,
       Counters
<1>2. ASSUME NEW t \in Threads, Unlock(t) PROVE NoSleepThroughNotify'
  BY <1>2 DEF Unlock, Release, NoSleepThroughNotify, WaitsRemember, SleepersAt, TypeOK,
       Counters
<1>3. ASSUME NEW t \in Threads, LockStep(t) PROVE NoSleepThroughNotify'
  BY <1>3 DEF LockStep, MarkContended, LockWait, FutexWait, SlowWait, Retry, Acquire,
       LockPath, LockSlow, UnlockWake, WakeLocked, Resume, NoSleepThroughNotify,
       WaitsRemember, SleepersAt, TypeOK, Counters
<1>4. ASSUME NEW t \in Threads, CondStep(t) PROVE NoSleepThroughNotify'
  BY <1>4 DEF CondStep, CondUnlock, Release, CondWake, WakeLocked, CondSleep, ClearOne,
       Return, WakeOne, RestoreOne, ClearAll, Requeue, NoSleepThroughNotify,
       WaitsRemember, SleepersAt, TypeOK, Counters
<1>5. ASSUME NEW t \in Threads, Interrupted(t) PROVE NoSleepThroughNotify'
  BY <1>5 DEF Interrupted, NoSleepThroughNotify, WaitsRemember, SleepersAt, TypeOK,
       Counters
<1>6. CASE UNCHANGED vars
  BY <1>6 DEF NoSleepThroughNotify, WaitsRemember, SleepersAt, TypeOK, Counters
<1>7. QED
  BY <1>1, <1>2, <1>3, <1>4, <1>5, <1>6 DEF Next, Step

(***************************************************************************)
(* The invariant holds in every state, hence each of its parts does.       *)
(***************************************************************************)
LEMMA Initially == Init => Inv
<1> SUFFICES ASSUME Init PROVE Inv
  OBVIOUS
<1> USE SimpleLockAssumption DEF Init
<1>1. TypeOK
  BY DEF TypeOK, Points, Counters, Unlocked, Uncontended, Contended
<1>2. Counted /\ HoldersAt /\ SleepersAt /\ WaitsRemember
  BY DEF Counted, HoldersAt, Held, MayHold, SleepersAt, WaitsRemember
<1>3. MutualExclusion /\ SleepersHaveAWaker /\ SleepersAreFlagged /\ NoSleepThroughNotify
  BY DEF MutualExclusion, SleepersHaveAWaker, SleepersAreFlagged, NoSleepThroughNotify
<1>4. QED
  BY <1>1, <1>2, <1>3 DEF Inv

LEMMA Invariance == Spec => []Inv
<1>1. Init => Inv
  BY Initially
<1>2. Inv /\ [Next]_vars => Inv'
  BY TypeOKStep, CountedStep, HoldersAtStep, SleepersAtStep, WaitsRememberStep,
     MutualExclusionStep, SleepersHaveAWakerStep, SleepersAreFlaggedStep,
     NoSleepThroughNotifyStep DEF Inv
<1>3. QED
  BY <1>1, <1>2, PTL DEF Spec

(* Every state of the lock and the condition variable has its type, whatever the number
   of threads and of calls. *)
THEOREM TypeCorrect == Spec => []TypeOK
<1>1. Inv => TypeOK
  BY DEF Inv
<1>2. QED
  BY <1>1, Invariance, PTL

(* libsimple_lock_lock, _try_lock, _lock_slow and _unlock keep the lock exclusive, and the
   word is zero exactly while nobody has it, for any number of threads. *)
THEOREM LockIsExclusive == Spec => []MutualExclusion
<1>1. Inv => MutualExclusion
  BY DEF Inv
<1>2. QED
  BY <1>1, Invariance, PTL

(* No wake of a sleeper on the lock is lost, whatever order lock, try_lock, unlock, the
   slow path, requeues and signals come in. *)
THEOREM NoLostWakeup == Spec => []SleepersHaveAWaker
<1>1. Inv => SleepersHaveAWaker
  BY DEF Inv
<1>2. QED
  BY <1>1, Invariance, PTL

(* No notify returns early over a sleeper on the condition variable, with any number of
   waiters and of notifies under way. *)
THEOREM WaitersAreFlagged == Spec => []SleepersAreFlagged
<1>1. Inv => SleepersAreFlagged
  BY DEF Inv
<1>2. QED
  BY <1>1, Invariance, PTL

(* A wait that was notified between its unlock and its FUTEX_WAIT does not sleep. *)
THEOREM NotifiedDoNotSleep == Spec => []NoSleepThroughNotify
<1>1. Inv => NoSleepThroughNotify
  BY DEF Inv
<1>2. QED
  BY <1>1, Invariance, PTL
=============================================================================
