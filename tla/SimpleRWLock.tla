---------------------------- MODULE SimpleRWLock ----------------------------
(***************************************************************************)
(* libsimple's futex readers-writer lock (src/libsimple/src/lock.c).  One  *)
(* action is one atomic operation on the state word or one futex call;     *)
(* state2[t] is the caller's copy of the word, which a failed cmpxchg      *)
(* refreshes and which may be stale by the time it is used.                *)
(***************************************************************************)
EXTENDS Integers, FiniteSets

CONSTANTS Threads,
          MaxCalls      \* bound: lock and try_lock calls begun

ASSUME RWLockAssumption == MaxCalls \in Nat /\ IsFiniteSet(Threads)

VARIABLES word,          \* rwlock->state: its reader count and two bits
          pc, state2,
          readerQueue,   \* asleep with the reader bit of the futex bitset
          writerQueue,   \* asleep with the writer bit
          readers,       \* history: who has the lock for reading
          writers,       \* history: who has the lock for writing
          calls

vars == <<word, pc, state2, readerQueue, writerQueue, readers, writers, calls>>
queues == <<readerQueue, writerQueue>>

Words == [count : Int, lockedWrite : BOOLEAN, needToWake : BOOLEAN]
Zero == [count |-> 0, lockedWrite |-> FALSE, needToWake |-> FALSE]
LockedWrite == [Zero EXCEPT !.lockedWrite = TRUE]
LockedAndWake == [LockedWrite EXCEPT !.needToWake = TRUE]
NeedToWake == [Zero EXCEPT !.needToWake = TRUE]

Points == {"idle", "readLoop", "readWait", "readAsleep", "reading", "readWake",
           "readWake2", "writeLoop", "writeWait", "writeAsleep", "writing",
           "wakeReaders", "wakeWriter"}

Goto(t, p) == pc' = [pc EXCEPT ![t] = p]
See(t, w) == state2' = [state2 EXCEPT ![t] = w]

Init ==
    /\ word = Zero
    /\ pc = [t \in Threads |-> "idle"]
    /\ state2 = [t \in Threads |-> Zero]
    /\ readerQueue = {} /\ writerQueue = {}
    /\ readers = {} /\ writers = {}
    /\ calls = 0

\* cmpxchg of the word from state2[t] to `new'; a failure refreshes state2[t]
\* and the caller's loop starts again.
Exchange(t, new, next) ==
    \/ /\ word = state2[t]
       /\ word' = new
       /\ See(t, new)
       /\ Goto(t, next)
    \/ /\ word # state2[t]
       /\ See(t, word)
       /\ UNCHANGED <<word, pc>>

Begin == calls < MaxCalls /\ calls' = calls + 1

-----------------------------------------------------------------------------
(* Readers *)

\* libsimple_rwlock_lock_read up to its load.
LockRead(t) ==
    /\ pc[t] = "idle"
    /\ Begin
    /\ See(t, word)
    /\ Goto(t, "readLoop")
    /\ UNCHANGED <<word, queues, readers, writers>>

FreeForReading(w) == ~w.lockedWrite /\ ~w.needToWake

\* The loop's first cmpxchg: one reader more.
ReadAcquire(t) ==
    /\ pc[t] = "readLoop"
    /\ FreeForReading(state2[t])
    /\ Exchange(t, [state2[t] EXCEPT !.count = @ + 1], "reading")
    /\ readers' = IF word = state2[t] THEN readers \cup {t} ELSE readers
    /\ UNCHANGED <<queues, writers, calls>>

\* Mutant: the bits are set whatever the word is by now.
ReadMarkBlindly(t) ==
    /\ pc[t] = "readLoop"
    /\ state2[t].lockedWrite /\ ~state2[t].needToWake
    /\ word' = LockedAndWake
    /\ See(t, LockedAndWake)
    /\ Goto(t, "readWait")
    /\ UNCHANGED <<queues, readers, writers, calls>>

\* The loop's second cmpxchg, a weak one that may also fail for no reason and
\* leave everything as it was: record that somebody is going to wait.
ReadMark(t) ==
    /\ pc[t] = "readLoop"
    /\ state2[t].lockedWrite /\ ~state2[t].needToWake
    /\ Exchange(t, LockedAndWake, "readWait")
    /\ UNCHANGED <<queues, readers, writers, calls>>

\* FUTEX_WAIT_BITSET with the reader bit, from either place that leads to it.
ReadSleep(t) ==
    /\ \/ pc[t] = "readWait"
       \/ pc[t] = "readLoop" /\ state2[t].needToWake
    /\ \/ /\ word = state2[t]
          /\ readerQueue' = readerQueue \cup {t}
          /\ Goto(t, "readAsleep")
          /\ UNCHANGED state2
       \/ /\ word # state2[t]
          /\ See(t, Zero)
          /\ Goto(t, "readLoop")
          /\ UNCHANGED readerQueue
    /\ UNCHANGED <<word, writerQueue, readers, writers, calls>>

\* Awake again, a reader expects to see zero.
ReadResume(t) ==
    /\ pc[t] = "readAsleep"
    /\ t \notin readerQueue
    /\ See(t, Zero)
    /\ Goto(t, "readLoop")
    /\ UNCHANGED <<word, queues, readers, writers, calls>>

\* libsimple_rwlock_try_lock_read when it succeeds.
TryLockRead(t) ==
    /\ pc[t] = "idle"
    /\ Begin
    /\ FreeForReading(word)
    /\ word' = [word EXCEPT !.count = @ + 1]
    /\ readers' = readers \cup {t}
    /\ Goto(t, "reading")
    /\ UNCHANGED <<state2, queues, writers>>

\* libsimple_rwlock_unlock_read up to its fetch_sub, whose result says whether
\* this was the last reader and somebody waits.
UnlockRead(t) ==
    /\ pc[t] = "reading"
    /\ word' = [word EXCEPT !.count = @ - 1]
    /\ readers' = readers \ {t}
    /\ Goto(t, IF word.count = 1 /\ ~word.lockedWrite /\ word.needToWake
               THEN "readWake" ELSE "idle")
    /\ UNCHANGED <<state2, queues, writers, calls>>

\* The weak cmpxchg that clears the need-to-wake bit if nothing else is set;
\* its result is not looked at.
ClearNeedToWake(t) ==
    /\ pc[t] = "readWake"
    /\ word' \in {word} \cup (IF word = NeedToWake THEN {Zero} ELSE {})
    /\ Goto(t, "readWake2")
    /\ UNCHANGED <<state2, queues, readers, writers, calls>>

\* FUTEX_WAKE_BITSET of one writer, the end of both unlocks.
WakeWriter(t) ==
    /\ pc[t] \in {"readWake2", "wakeWriter"}
    /\ \/ \E u \in writerQueue : writerQueue' = writerQueue \ {u}
       \/ writerQueue = {} /\ UNCHANGED writerQueue
    /\ Goto(t, "idle")
    /\ UNCHANGED <<word, state2, readerQueue, readers, writers, calls>>

-----------------------------------------------------------------------------
(* Writers *)

\* libsimple_rwlock_lock_write up to its fast path.
LockWrite(t) ==
    /\ pc[t] = "idle"
    /\ Begin
    /\ \/ /\ word = Zero
          /\ word' = LockedWrite
          /\ writers' = writers \cup {t}
          /\ Goto(t, "writing")
          /\ UNCHANGED state2
       \/ /\ word # Zero
          /\ See(t, word)
          /\ Goto(t, "writeLoop")
          /\ UNCHANGED <<word, writers>>
    /\ UNCHANGED <<queues, readers>>

FreeForWriting(w) == w.count = 0 /\ ~w.lockedWrite

\* Mutant: the woken writer takes the lock as the fast path does.
WriteAcquireQuietly(t) ==
    /\ pc[t] = "writeLoop"
    /\ FreeForWriting(state2[t])
    /\ Exchange(t, LockedWrite, "writing")
    /\ writers' = IF word = state2[t] THEN writers \cup {t} ELSE writers
    /\ UNCHANGED <<queues, readers, calls>>

\* The loop's first cmpxchg: the writer takes over the duty to wake.
WriteAcquire(t) ==
    /\ pc[t] = "writeLoop"
    /\ FreeForWriting(state2[t])
    /\ Exchange(t, LockedAndWake, "writing")
    /\ writers' = IF word = state2[t] THEN writers \cup {t} ELSE writers
    /\ UNCHANGED <<queues, readers, calls>>

\* The loop's second cmpxchg: record that somebody is going to wait.
WriteMark(t) ==
    /\ pc[t] = "writeLoop"
    /\ ~FreeForWriting(state2[t]) /\ ~state2[t].needToWake
    /\ Exchange(t, [state2[t] EXCEPT !.needToWake = TRUE], "writeWait")
    /\ UNCHANGED <<queues, readers, writers, calls>>

\* FUTEX_WAIT_BITSET with the writer bit.
WriteSleep(t) ==
    /\ \/ pc[t] = "writeWait"
       \/ pc[t] = "writeLoop" /\ ~FreeForWriting(state2[t]) /\ state2[t].needToWake
    /\ \/ /\ word = state2[t]
          /\ writerQueue' = writerQueue \cup {t}
          /\ Goto(t, "writeAsleep")
          /\ UNCHANGED state2
       \/ /\ word # state2[t]
          /\ See(t, Zero)
          /\ Goto(t, "writeLoop")
          /\ UNCHANGED writerQueue
    /\ UNCHANGED <<word, readerQueue, readers, writers, calls>>

WriteResume(t) ==
    /\ pc[t] = "writeAsleep"
    /\ t \notin writerQueue
    /\ See(t, Zero)
    /\ Goto(t, "writeLoop")
    /\ UNCHANGED <<word, queues, readers, writers, calls>>

\* libsimple_rwlock_try_lock_write when it succeeds.
TryLockWrite(t) ==
    /\ pc[t] = "idle"
    /\ Begin
    /\ word = Zero
    /\ word' = LockedWrite
    /\ writers' = writers \cup {t}
    /\ Goto(t, "writing")
    /\ UNCHANGED <<state2, queues, readers>>

\* libsimple_rwlock_unlock_write up to its exchange.
UnlockWrite(t) ==
    /\ pc[t] = "writing"
    /\ word' = Zero
    /\ writers' = writers \ {t}
    /\ Goto(t, IF word.needToWake THEN "wakeReaders" ELSE "idle")
    /\ UNCHANGED <<state2, queues, readers, calls>>

\* Mutant: readers are woken one at a time, as writers are.
WakeOneReader(t) ==
    /\ pc[t] = "wakeReaders"
    /\ \/ \E u \in readerQueue : readerQueue' = readerQueue \ {u}
       \/ readerQueue = {} /\ UNCHANGED readerQueue
    /\ Goto(t, "wakeWriter")
    /\ UNCHANGED <<word, state2, writerQueue, readers, writers, calls>>

\* FUTEX_WAKE_BITSET of all readers.
WakeReaders(t) ==
    /\ pc[t] = "wakeReaders"
    /\ readerQueue' = {}
    /\ Goto(t, "wakeWriter")
    /\ UNCHANGED <<word, state2, writerQueue, readers, writers, calls>>

\* A signal handler ran: the wait returns EINTR.
Interrupted(t) ==
    /\ t \in readerQueue \cup writerQueue
    /\ readerQueue' = readerQueue \ {t}
    /\ writerQueue' = writerQueue \ {t}
    /\ UNCHANGED <<word, pc, state2, readers, writers, calls>>

-----------------------------------------------------------------------------
Call(t) == LockRead(t) \/ TryLockRead(t) \/ LockWrite(t) \/ TryLockWrite(t)
ReadStep(t) == ReadAcquire(t) \/ ReadMark(t) \/ ReadSleep(t) \/ ReadResume(t)
               \/ ClearNeedToWake(t)
WriteStep(t) == WriteAcquire(t) \/ WriteMark(t) \/ WriteSleep(t) \/ WriteResume(t)
                \/ WakeReaders(t) \/ WakeWriter(t)
Unlock(t) == UnlockRead(t) \/ UnlockWrite(t)
Step(t) == ReadStep(t) \/ WriteStep(t) \/ Unlock(t)

Next == \E t \in Threads : Call(t) \/ Step(t) \/ Interrupted(t)

\* A thread that is not blocked runs, and one that holds the lock lets it go.
Fairness == \A t \in Threads : WF_vars(Step(t))

Spec == Init /\ [][Next]_vars
FairSpec == Spec /\ Fairness

-----------------------------------------------------------------------------
\* Type invariant.
TypeOK ==
    /\ word \in Words
    /\ pc \in [Threads -> Points]
    /\ state2 \in [Threads -> Words]
    /\ readerQueue \subseteq Threads
    /\ writerQueue \subseteq Threads
    /\ readers \subseteq Threads
    /\ writers \subseteq Threads
    /\ calls \in 0..MaxCalls

\* Readers and a writer never have the lock together, nor two writers, and the
\* word says who has it: a stale copy of it, or the unlocking reader's late
\* cmpxchg, never takes the lock away from its owner (lock.c:282-305, 324-333).
RWExclusion ==
    /\ \A t, u \in writers : t = u
    /\ writers # {} => readers = {}
    /\ word.lockedWrite <=> writers # {}
    /\ word.count = Cardinality(readers)

\* A writer in its loop, which will take the lock with the duty to wake or
\* record that it waits.
WriterComing(t) ==
    \/ pc[t] \in {"writeLoop", "writeWait"}
    \/ pc[t] = "writeAsleep" /\ t \notin writerQueue

\* No lost wakeup.  Threads that sleep are remembered in the word by someone
\* who will wake them, or by an unlock that has cleared it and not yet come to
\* its wakes, or by a writer that is awake in its loop.  Readers need more than
\* writers: the last reader wakes a writer only, so that a reader asleep while
\* others read depends on a writer to come after them (lock.c:324-333, 384-390).
SleepersAreRemembered ==
    /\ writerQueue # {} =>
        \/ word.needToWake /\ (word.lockedWrite \/ word.count > 0)
        \/ \E t \in Threads : WriterComing(t) \/ pc[t] \in {"readWake", "readWake2",
                                                           "wakeReaders", "wakeWriter"}
    /\ readerQueue # {} =>
        \/ word.needToWake /\ word.lockedWrite
        \/ \E t \in Threads : \/ WriterComing(t) \/ pc[t] = "wakeReaders"
                              \/ t \in writerQueue

\* Everyone who asks for the lock, and everyone asleep on it, gets it.
EveryAcquisitionReturns ==
    \A t \in Threads :
        /\ pc[t] \in {"readLoop", "readWait", "readAsleep"} ~> t \in readers
        /\ pc[t] \in {"writeLoop", "writeWait", "writeAsleep"} ~> t \in writers
=============================================================================
