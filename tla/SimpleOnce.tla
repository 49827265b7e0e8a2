----------------------------- MODULE SimpleOnce -----------------------------
(***************************************************************************)
(* libsimple_once (src/libsimple/src/lock.c): of the threads that call it  *)
(* one runs the callback and the others wait for it on the state word's    *)
(* futex.  pc is shared with the module that says what the threads do      *)
(* afterwards: a thread returns from libsimple_once to "idle".             *)
(***************************************************************************)
EXTENDS Naturals

CONSTANT Threads

VARIABLES once,        \* once->state
          onceQueue,   \* the threads asleep on it
          callbacks,   \* history: how often the callback has been begun
          pc

onceVars == <<once, onceQueue, callbacks>>

Untriggered == 0
TriggeredUncontended == 1
TriggeredContended == 2
Completed == 3

OncePoints == {"start", "callback", "complete", "onceWake", "onceMark",
               "onceWait", "onceAsleep", "reload"}

OnceInit ==
    /\ once = Untriggered
    /\ onceQueue = {}
    /\ callbacks = 0
    /\ pc = [t \in Threads |-> "start"]

OnceGoto(t, p) == pc' = [pc EXCEPT ![t] = p]

\* The switch of the waiting loop, on the value last seen.
Evaluate(prev) ==
    CASE prev = Completed -> "idle"
      [] prev = TriggeredUncontended -> "onceMark"
      [] prev = TriggeredContended -> "onceWait"

\* The first cmpxchg: one thread is to perform the callback.
Trigger(t) ==
    /\ pc[t] = "start"
    /\ \/ /\ once = Untriggered
          /\ once' = TriggeredUncontended
          /\ callbacks' = callbacks + 1
          /\ OnceGoto(t, "callback")
       \/ /\ once # Untriggered
          /\ OnceGoto(t, Evaluate(once))
          /\ UNCHANGED <<once, callbacks>>
    /\ UNCHANGED onceQueue

\* The callback itself; its effect is the business of the composing module.
Callback(t) ==
    /\ pc[t] = "callback"
    /\ OnceGoto(t, "complete")
    /\ UNCHANGED onceVars

\* The exchange that tells everyone, and whether there is anyone to wake.
Complete(t) ==
    /\ pc[t] = "complete"
    /\ once' = Completed
    /\ OnceGoto(t, IF once = TriggeredContended THEN "onceWake" ELSE "idle")
    /\ UNCHANGED <<onceQueue, callbacks>>

\* FUTEX_WAKE of INT_MAX threads.
WakeAll(t) ==
    /\ pc[t] = "onceWake"
    /\ onceQueue' = {}
    /\ OnceGoto(t, "idle")
    /\ UNCHANGED <<once, callbacks>>

\* The cmpxchg of the first waiter; when it fails the loop starts again with
\* the value it found.
BecomeWaiter(t) ==
    /\ pc[t] = "onceMark"
    /\ \/ /\ once = TriggeredUncontended
          /\ once' = TriggeredContended
          /\ OnceGoto(t, "onceWait")
       \/ /\ once # TriggeredUncontended
          /\ OnceGoto(t, Evaluate(once))
          /\ UNCHANGED once
    /\ UNCHANGED <<onceQueue, callbacks>>

\* FUTEX_WAIT for as long as the state is contended.
OnceSleep(t) ==
    /\ pc[t] = "onceWait"
    /\ \/ /\ once = TriggeredContended
          /\ onceQueue' = onceQueue \cup {t}
          /\ OnceGoto(t, "onceAsleep")
       \/ /\ once # TriggeredContended
          /\ OnceGoto(t, "reload")
          /\ UNCHANGED onceQueue
    /\ UNCHANGED <<once, callbacks>>

OnceResume(t) ==
    /\ pc[t] = "onceAsleep"
    /\ t \notin onceQueue
    /\ OnceGoto(t, "reload")
    /\ UNCHANGED onceVars

\* Mutant: trusts the wake.
ReloadReturns(t) ==
    /\ pc[t] = "reload"
    /\ OnceGoto(t, "idle")
    /\ UNCHANGED onceVars

\* The load after a wait, which may have ended for no reason.
Reload(t) ==
    /\ pc[t] = "reload"
    /\ OnceGoto(t, Evaluate(once))
    /\ UNCHANGED onceVars

\* A signal handler ran: FUTEX_WAIT returns EINTR.
OnceInterrupted(t) ==
    /\ t \in onceQueue
    /\ onceQueue' = onceQueue \ {t}
    /\ UNCHANGED <<once, callbacks, pc>>

OnceStep(t) == Complete(t) \/ WakeAll(t) \/ BecomeWaiter(t) \/ OnceSleep(t)
               \/ OnceResume(t) \/ Reload(t)
=============================================================================
