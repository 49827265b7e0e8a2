----------------------------- MODULE SimpleInit -----------------------------
(***************************************************************************)
(* libsimple_once and the lock it initialises: every thread passes through *)
(* one libsimple_once whose callback is libsimple_rwlock_init              *)
(* (include/libsimple/lock.h), and then uses the readers-writer lock.      *)
(***************************************************************************)
EXTENDS SimpleRWLock

VARIABLES once, onceQueue, callbacks

INSTANCE SimpleOnce

onlyOnce == <<once, onceQueue, callbacks>>
onlyLock == <<word, state2, readerQueue, writerQueue, readers, writers, calls>>
initVars == <<vars, onlyOnce>>

\* Init, but for the threads, which have yet to call libsimple_once.
InitialisedInit ==
    /\ OnceInit
    /\ word = Zero
    /\ state2 = [t \in Threads |-> Zero]
    /\ readerQueue = {} /\ writerQueue = {}
    /\ readers = {} /\ writers = {}
    /\ calls = 0

\* libsimple_rwlock_init, run by the callback.
InitialiseLock(t) ==
    /\ Callback(t)
    /\ word' = Zero
    /\ UNCHANGED <<state2, queues, readers, writers, calls>>

OncePart(t) == OnceStep(t) /\ UNCHANGED onlyLock
LockPart(t) == Step(t) /\ UNCHANGED onlyOnce

InitialisedNext ==
    \E t \in Threads :
        \/ (Trigger(t) \/ OnceInterrupted(t)) /\ UNCHANGED onlyLock
        \/ InitialiseLock(t)
        \/ OncePart(t)
        \/ (Call(t) \/ Interrupted(t)) /\ UNCHANGED onlyOnce
        \/ LockPart(t)

\* Threads in libsimple_once run too, the callback included.
InitialisedFairness ==
    \A t \in Threads : /\ WF_initVars(InitialiseLock(t))
                       /\ WF_initVars(OncePart(t))
                       /\ WF_initVars(LockPart(t))

InitialisedSpec == InitialisedInit /\ [][InitialisedNext]_initVars /\ InitialisedFairness

-----------------------------------------------------------------------------
\* The callback runs once, and no thread is past libsimple_once before it has
\* finished, however its wait ended: by the wake, by EAGAIN because the state
\* moved on, or by a signal (lock.c:188-254).
InitialisedBeforeUse ==
    (\E t \in Threads : pc[t] \notin OncePoints) =>
        /\ callbacks = 1
        /\ \A t \in Threads : pc[t] \notin {"callback", "complete"}

\* No call blocks for ever: a caller of libsimple_once that finds it triggered
\* returns, and whoever asks for the lock after that, or sleeps on it, gets it
\* (lock.c:206-214, 302-304, 328-333, 369-372, 386-390).
EveryCallReturns ==
    /\ EveryAcquisitionReturns
    /\ \A t \in Threads :
          pc[t] \in OncePoints \ {"start"} ~> pc[t] \notin OncePoints
=============================================================================
