------------------------- MODULE SimpleRWLockProofs -------------------------
(***************************************************************************)
(* Exclusion and the absence of lost wakeups of libsimple's readers-writer *)
(* lock, and its initialisation by libsimple_once before any thread uses   *)
(* it, for every finite set of threads and every bound on their calls.     *)
(* The inductive invariant adds where holders and sleepers are in the      *)
(* code, what a thread on its way to FUTEX_WAIT has seen, and that the     *)
(* need-to-wake bit of a lock that no writer has speaks for a writer.  It  *)
(* lets threads be in libsimple_once, so that it serves the lock alone     *)
(* (Spec) and behind its initialisation (InitialisedSpec).                 *)
(***************************************************************************)
EXTENDS SimpleInit, FiniteSetTheorems, TLAPS

(* TypeOK, but for threads that are in libsimple_once. *)
LockType ==
    /\ word \in Words
    /\ pc \in [Threads -> Points \cup OncePoints]
    /\ state2 \in [Threads -> Words]
    /\ readerQueue \subseteq Threads
    /\ writerQueue \subseteq Threads
    /\ readers \subseteq Threads
    /\ writers \subseteq Threads
    /\ calls \in 0..MaxCalls

HoldersAt ==
    \A t \in Threads : /\ t \in readers <=> pc[t] = "reading"
                       /\ t \in writers <=> pc[t] = "writing"

SleepersAt ==
    /\ \A t \in readerQueue : pc[t] = "readAsleep"
    /\ \A t \in writerQueue : pc[t] = "writeAsleep"

WaitsSaw ==
    \A t \in Threads :
        /\ pc[t] = "readWait" => state2[t].lockedWrite /\ state2[t].needToWake
        /\ pc[t] = "writeWait" => ~FreeForWriting(state2[t]) /\ state2[t].needToWake

(* The last reader wakes a writer only: for a reader to sleep behind readers there has to
   be one. *)
BitSpeaksForAWriter ==
    word.needToWake /\ ~word.lockedWrite =>
        \E t \in Threads : WriterComing(t) \/ t \in writerQueue

CountIsNatural == word.count \in Nat

Inv == /\ LockType /\ HoldersAt /\ SleepersAt /\ WaitsSaw /\ BitSpeaksForAWriter
       /\ RWExclusion /\ SleepersAreRemembered

(***************************************************************************)
(* Each part of the invariant is kept by every step.                       *)
(***************************************************************************)

(* The words that are written are words. *)
LEMMA WordsAreWords ==
    Zero \in Words /\ LockedWrite \in Words /\ LockedAndWake \in Words /\ NeedToWake \in Words
<1>1. Zero \in Words
  BY DEF Words, Zero
<1>2. LockedWrite \in Words
  BY <1>1 DEF Words, LockedWrite
<1>3. LockedAndWake \in Words
  BY <1>2 DEF Words, LockedAndWake
<1>4. NeedToWake \in Words
  BY <1>1 DEF Words, NeedToWake
<1>5. QED
  BY <1>1, <1>2, <1>3, <1>4

(* Every step keeps the types. *)
LEMMA LockTypeStep == Inv /\ [Next]_vars => LockType'
<1> SUFFICES ASSUME Inv, [Next]_vars PROVE LockType'
  OBVIOUS
<1> USE RWLockAssumption, WordsAreWords DEF Inv, Goto, See, queues, vars
<1>1. ASSUME NEW t \in Threads, LockRead(t) PROVE LockType'
  BY <1>1 DEF LockRead, Begin, LockType, Points
<1>2. ASSUME NEW t \in Threads, TryLockRead(t) PROVE LockType'
  <2>1. word' \in Words
    BY <1>2 DEF TryLockRead, LockType, Words
  <2>2. QED
    BY <1>2, <2>1 DEF TryLockRead, Begin, LockType, Points
<1>3. ASSUME NEW t \in Threads, LockWrite(t) PROVE LockType'
  BY <1>3 DEF LockWrite, Begin, LockType, Points
<1>4. ASSUME NEW t \in Threads, TryLockWrite(t) PROVE LockType'
  BY <1>4 DEF TryLockWrite, Begin, LockType, Points
<1>5. ASSUME NEW t \in Threads, ReadAcquire(t) PROVE LockType'
  <2>1. [state2[t] EXCEPT !.count = @ + 1] \in Words
    BY <1>5 DEF LockType, Words
  <2>2. QED
    BY <1>5, <2>1 DEF ReadAcquire, Exchange, LockType, Points
<1>6. ASSUME NEW t \in Threads, ReadMark(t) PROVE LockType'
  BY <1>6 DEF ReadMark, Exchange, LockType, Points
<1>7. ASSUME NEW t \in Threads, ReadSleep(t) PROVE LockType'
  BY <1>7 DEF ReadSleep, LockType, Points
<1>8. ASSUME NEW t \in Threads, ReadResume(t) PROVE LockType'
  BY <1>8 DEF ReadResume, LockType, Points
<1>9. ASSUME NEW t \in Threads, ClearNeedToWake(t) PROVE LockType'
  BY <1>9 DEF ClearNeedToWake, LockType, Points
<1>10. ASSUME NEW t \in Threads, WriteAcquire(t) PROVE LockType'
  BY <1>10 DEF WriteAcquire, Exchange, LockType, Points
<1>11. ASSUME NEW t \in Threads, WriteMark(t) PROVE LockType'
  <2>1. [state2[t] EXCEPT !.needToWake = TRUE] \in Words
    BY <1>11 DEF LockType, Words
  <2>2. QED
    BY <1>11, <2>1 DEF WriteMark, Exchange, LockType, Points
<1>12. ASSUME NEW t \in Threads, WriteSleep(t) PROVE LockType'
  BY <1>12 DEF WriteSleep, LockType, Points
<1>13. ASSUME NEW t \in Threads, WriteResume(t) PROVE LockType'
  BY <1>13 DEF WriteResume, LockType, Points
<1>14. ASSUME NEW t \in Threads, WakeReaders(t) PROVE LockType'
  BY <1>14 DEF WakeReaders, LockType, Points
<1>15. ASSUME NEW t \in Threads, WakeWriter(t) PROVE LockType'
  BY <1>15 DEF WakeWriter, LockType, Points
<1>16. ASSUME NEW t \in Threads, UnlockRead(t) PROVE LockType'
  <2>1. word' \in Words
    BY <1>16 DEF UnlockRead, LockType, Words
  <2>2. QED
    BY <1>16, <2>1 DEF UnlockRead, LockType, Points
<1>17. ASSUME NEW t \in Threads, UnlockWrite(t) PROVE LockType'
  BY <1>17 DEF UnlockWrite, LockType, Points
<1>18. ASSUME NEW t \in Threads, Interrupted(t) PROVE LockType'
  BY <1>18 DEF Interrupted, LockType, Points
<1>19. CASE UNCHANGED vars
  BY <1>19 DEF LockType, Points
<1>20. QED
  BY <1>1, <1>2, <1>3, <1>4, <1>5, <1>6, <1>7, <1>8, <1>9, <1>10, <1>11, <1>12, <1>13,
       <1>14, <1>15, <1>16, <1>17, <1>18, <1>19 DEF Next, Step, Call, ReadStep, WriteStep,
       Unlock

(* A thread is where it holds the lock from its acquisition to its unlock. *)
LEMMA HoldersAtStep == Inv /\ [Next]_vars => HoldersAt'
<1> SUFFICES ASSUME Inv, [Next]_vars PROVE HoldersAt'
  OBVIOUS
<1> USE DEF Inv, Goto, See, queues, vars
<1>1. ASSUME NEW t \in Threads, Call(t) PROVE HoldersAt'
  BY <1>1 DEF Call, LockRead, Begin, TryLockRead, FreeForReading, LockWrite, Zero,
       LockedWrite, LockedAndWake, NeedToWake, TryLockWrite, HoldersAt, LockType
<1>2. ASSUME NEW t \in Threads, ReadStep(t) PROVE HoldersAt'
  BY <1>2 DEF ReadStep, ReadAcquire, Exchange, FreeForReading, ReadMark, Zero,
       LockedWrite, LockedAndWake, NeedToWake, ReadSleep, ReadResume, ClearNeedToWake,
       HoldersAt, LockType
<1>3. ASSUME NEW t \in Threads, WriteStep(t) PROVE HoldersAt'
  BY <1>3 DEF WriteStep, WriteAcquire, Exchange, FreeForWriting, Zero, LockedWrite,
       LockedAndWake, NeedToWake, WriteMark, WriteSleep, WriteResume, WakeReaders,
       WakeWriter, HoldersAt, LockType
<1>4. ASSUME NEW t \in Threads, Unlock(t) PROVE HoldersAt'
  BY <1>4 DEF Unlock, UnlockRead, UnlockWrite, Zero, HoldersAt, LockType
<1>5. ASSUME NEW t \in Threads, Interrupted(t) PROVE HoldersAt'
  BY <1>5 DEF Interrupted, HoldersAt, LockType
<1>6. CASE UNCHANGED vars
  BY <1>6 DEF HoldersAt, LockType
<1>7. QED
  BY <1>1, <1>2, <1>3, <1>4, <1>5, <1>6 DEF Next, Step

(* Who is in a queue has called FUTEX_WAIT and has not returned from it. *)
LEMMA SleepersAtStep == Inv /\ [Next]_vars => SleepersAt'
<1> SUFFICES ASSUME Inv, [Next]_vars PROVE SleepersAt'
  OBVIOUS
<1> USE DEF Inv, Goto, See, queues, vars
<1>1. ASSUME NEW t \in Threads, Call(t) PROVE SleepersAt'
  BY <1>1 DEF Call, LockRead, Begin, TryLockRead, FreeForReading, LockWrite, Zero,
       LockedWrite, LockedAndWake, NeedToWake, TryLockWrite, SleepersAt, LockType
<1>2. ASSUME NEW t \in Threads, ReadStep(t) PROVE SleepersAt'
  BY <1>2 DEF ReadStep, ReadAcquire, Exchange, FreeForReading, ReadMark, Zero,
       LockedWrite, LockedAndWake, NeedToWake, ReadSleep, ReadResume, ClearNeedToWake,
       SleepersAt, LockType
<1>3. ASSUME NEW t \in Threads, WriteStep(t) PROVE SleepersAt'
  BY <1>3 DEF WriteStep, WriteAcquire, Exchange, FreeForWriting, Zero, LockedWrite,
       LockedAndWake, NeedToWake, WriteMark, WriteSleep, WriteResume, WakeReaders,
       WakeWriter, SleepersAt, LockType
<1>4. ASSUME NEW t \in Threads, Unlock(t) PROVE SleepersAt'
  BY <1>4 DEF Unlock, UnlockRead, UnlockWrite, Zero, SleepersAt, LockType
<1>5. ASSUME NEW t \in Threads, Interrupted(t) PROVE SleepersAt'
  BY <1>5 DEF Interrupted, SleepersAt, LockType
<1>6. CASE UNCHANGED vars
  BY <1>6 DEF SleepersAt, LockType
<1>7. QED
  BY <1>1, <1>2, <1>3, <1>4, <1>5, <1>6 DEF Next, Step

(* A thread that sets the need-to-wake bit to wait has seen why it has to. *)
LEMMA WaitsSawStep == Inv /\ [Next]_vars => WaitsSaw'
<1> SUFFICES ASSUME Inv, [Next]_vars PROVE WaitsSaw'
  OBVIOUS
<1> USE DEF Inv, Goto, See, queues, vars
<1>1. ASSUME NEW t \in Threads, LockRead(t) PROVE WaitsSaw'
  BY <1>1 DEF LockRead, Begin, WaitsSaw, LockType, Words, FreeForWriting
<1>2. ASSUME NEW t \in Threads, TryLockRead(t) PROVE WaitsSaw'
  BY <1>2 DEF TryLockRead, Begin, FreeForReading, WaitsSaw, LockType, Words, FreeForWriting
<1>3. ASSUME NEW t \in Threads, LockWrite(t) PROVE WaitsSaw'
  BY <1>3 DEF LockWrite, Begin, Zero, LockedWrite, LockedAndWake, NeedToWake, WaitsSaw,
       LockType, Words, FreeForWriting
<1>4. ASSUME NEW t \in Threads, TryLockWrite(t) PROVE WaitsSaw'
  BY <1>4 DEF TryLockWrite, Begin, Zero, LockedWrite, LockedAndWake, NeedToWake, WaitsSaw,
       LockType, Words, FreeForWriting
<1>5. ASSUME NEW t \in Threads, ReadAcquire(t) PROVE WaitsSaw'
  BY <1>5 DEF ReadAcquire, Exchange, FreeForReading, WaitsSaw, LockType, Words,
       FreeForWriting
<1>6. ASSUME NEW t \in Threads, ReadMark(t) PROVE WaitsSaw'
  BY <1>6 DEF ReadMark, Exchange, Zero, LockedWrite, LockedAndWake, NeedToWake, WaitsSaw,
       LockType, Words, FreeForWriting
<1>7. ASSUME NEW t \in Threads, ReadSleep(t) PROVE WaitsSaw'
  BY <1>7 DEF ReadSleep, Zero, WaitsSaw, LockType, Words, FreeForWriting
<1>8. ASSUME NEW t \in Threads, ReadResume(t) PROVE WaitsSaw'
  BY <1>8 DEF ReadResume, Zero, WaitsSaw, LockType, Words, FreeForWriting
<1>9. ASSUME NEW t \in Threads, ClearNeedToWake(t) PROVE WaitsSaw'
  BY <1>9 DEF ClearNeedToWake, NeedToWake, Zero, WaitsSaw, LockType, Words, FreeForWriting
<1>10. ASSUME NEW t \in Threads, WriteAcquire(t) PROVE WaitsSaw'
  BY <1>10 DEF WriteAcquire, Exchange, FreeForWriting, Zero, LockedWrite, LockedAndWake,
       NeedToWake, WaitsSaw, LockType, Words
<1>11. ASSUME NEW t \in Threads, WriteMark(t) PROVE WaitsSaw'
  BY <1>11 DEF WriteMark, Exchange, FreeForWriting, WaitsSaw, LockType, Words
<1>12. ASSUME NEW t \in Threads, WriteSleep(t) PROVE WaitsSaw'
  BY <1>12 DEF WriteSleep, FreeForWriting, Zero, WaitsSaw, LockType, Words
<1>13. ASSUME NEW t \in Threads, WriteResume(t) PROVE WaitsSaw'
  BY <1>13 DEF WriteResume, Zero, WaitsSaw, LockType, Words, FreeForWriting
<1>14. ASSUME NEW t \in Threads, WakeReaders(t) PROVE WaitsSaw'
  BY <1>14 DEF WakeReaders, WaitsSaw, LockType, Words, FreeForWriting
<1>15. ASSUME NEW t \in Threads, WakeWriter(t) PROVE WaitsSaw'
  BY <1>15 DEF WakeWriter, WaitsSaw, LockType, Words, FreeForWriting
<1>16. ASSUME NEW t \in Threads, UnlockRead(t) PROVE WaitsSaw'
  BY <1>16 DEF UnlockRead, WaitsSaw, LockType, Words, FreeForWriting
<1>17. ASSUME NEW t \in Threads, UnlockWrite(t) PROVE WaitsSaw'
  BY <1>17 DEF UnlockWrite, Zero, WaitsSaw, LockType, Words, FreeForWriting
<1>18. ASSUME NEW t \in Threads, Interrupted(t) PROVE WaitsSaw'
  BY <1>18 DEF Interrupted, WaitsSaw, LockType, Words, FreeForWriting
<1>19. CASE UNCHANGED vars
  BY <1>19 DEF WaitsSaw, LockType, Words, FreeForWriting
<1>20. QED
  BY <1>1, <1>2, <1>3, <1>4, <1>5, <1>6, <1>7, <1>8, <1>9, <1>10, <1>11, <1>12, <1>13,
       <1>14, <1>15, <1>16, <1>17, <1>18, <1>19 DEF Next, Step, Call, ReadStep, WriteStep,
       Unlock

(* The readers are finitely many, hence the count is a natural number. *)
LEMMA FiniteReaders == Inv => IsFiniteSet(readers) /\ CountIsNatural
  BY RWLockAssumption, FS_Subset, FS_CardinalityType DEF Inv, LockType, RWExclusion, CountIsNatural

(* The bit is set by a writer, unless a writer has the lock, and that writer clears it or
   leaves its loop by taking the lock. *)
LEMMA BitSpeaksForAWriterStep == Inv /\ [Next]_vars => BitSpeaksForAWriter'
<1> SUFFICES ASSUME Inv, [Next]_vars PROVE BitSpeaksForAWriter'
  OBVIOUS
<1> USE DEF Inv, Goto, See, queues, vars
<1>1. ASSUME NEW t \in Threads, LockRead(t) PROVE BitSpeaksForAWriter'
  BY <1>1 DEF LockRead, Begin, BitSpeaksForAWriter, WriterComing, SleepersAt, LockType,
       Words, FreeForWriting, RWExclusion, HoldersAt
<1>2. ASSUME NEW t \in Threads, TryLockRead(t) PROVE BitSpeaksForAWriter'
  BY <1>2 DEF TryLockRead, Begin, FreeForReading, BitSpeaksForAWriter, WriterComing,
       SleepersAt, LockType, Words, FreeForWriting, RWExclusion, HoldersAt
<1>3. ASSUME NEW t \in Threads, LockWrite(t) PROVE BitSpeaksForAWriter'
  BY <1>3 DEF LockWrite, Begin, Zero, LockedWrite, LockedAndWake, NeedToWake,
       BitSpeaksForAWriter, WriterComing, SleepersAt, LockType, Words, FreeForWriting,
       RWExclusion, HoldersAt
<1>4. ASSUME NEW t \in Threads, TryLockWrite(t) PROVE BitSpeaksForAWriter'
  BY <1>4 DEF TryLockWrite, Begin, Zero, LockedWrite, LockedAndWake, NeedToWake,
       BitSpeaksForAWriter, WriterComing, SleepersAt, LockType, Words, FreeForWriting,
       RWExclusion, HoldersAt
<1>5. ASSUME NEW t \in Threads, ReadAcquire(t) PROVE BitSpeaksForAWriter'
  BY <1>5 DEF ReadAcquire, Exchange, FreeForReading, BitSpeaksForAWriter, WriterComing,
       SleepersAt, LockType, Words, FreeForWriting, RWExclusion, HoldersAt
<1>6. ASSUME NEW t \in Threads, ReadMark(t) PROVE BitSpeaksForAWriter'
  BY <1>6 DEF ReadMark, Exchange, Zero, LockedWrite, LockedAndWake, NeedToWake,
       BitSpeaksForAWriter, WriterComing, SleepersAt, LockType, Words, FreeForWriting,
       RWExclusion, HoldersAt
<1>7. ASSUME NEW t \in Threads, ReadSleep(t) PROVE BitSpeaksForAWriter'
  BY <1>7 DEF ReadSleep, Zero, BitSpeaksForAWriter, WriterComing, SleepersAt, LockType,
       Words, FreeForWriting, RWExclusion, HoldersAt
<1>8. ASSUME NEW t \in Threads, ReadResume(t) PROVE BitSpeaksForAWriter'
  BY <1>8 DEF ReadResume, Zero, BitSpeaksForAWriter, WriterComing, SleepersAt, LockType,
       Words, FreeForWriting, RWExclusion, HoldersAt
<1>9. ASSUME NEW t \in Threads, ClearNeedToWake(t) PROVE BitSpeaksForAWriter'
  BY <1>9 DEF ClearNeedToWake, NeedToWake, Zero, BitSpeaksForAWriter, WriterComing,
       SleepersAt, LockType, Words, FreeForWriting, RWExclusion, HoldersAt
<1>10. ASSUME NEW t \in Threads, WriteAcquire(t) PROVE BitSpeaksForAWriter'
  BY <1>10 DEF WriteAcquire, Exchange, FreeForWriting, Zero, LockedWrite, LockedAndWake,
       NeedToWake, BitSpeaksForAWriter, WriterComing, SleepersAt, LockType, Words,
       RWExclusion, HoldersAt
<1>11. ASSUME NEW t \in Threads, WriteMark(t) PROVE BitSpeaksForAWriter'
  BY <1>11 DEF WriteMark, Exchange, FreeForWriting, BitSpeaksForAWriter, WriterComing,
       SleepersAt, LockType, Words, RWExclusion, HoldersAt
<1>12. ASSUME NEW t \in Threads, WriteSleep(t) PROVE BitSpeaksForAWriter'
  BY <1>12 DEF WriteSleep, FreeForWriting, Zero, BitSpeaksForAWriter, WriterComing,
       SleepersAt, LockType, Words, RWExclusion, HoldersAt
<1>13. ASSUME NEW t \in Threads, WriteResume(t) PROVE BitSpeaksForAWriter'
  BY <1>13 DEF WriteResume, Zero, BitSpeaksForAWriter, WriterComing, SleepersAt, LockType,
       Words, FreeForWriting, RWExclusion, HoldersAt
<1>14. ASSUME NEW t \in Threads, WakeReaders(t) PROVE BitSpeaksForAWriter'
  BY <1>14 DEF WakeReaders, BitSpeaksForAWriter, WriterComing, SleepersAt, LockType, Words,
       FreeForWriting, RWExclusion, HoldersAt
<1>15. ASSUME NEW t \in Threads, WakeWriter(t) PROVE BitSpeaksForAWriter'
  BY <1>15 DEF WakeWriter, BitSpeaksForAWriter, WriterComing, SleepersAt, LockType, Words,
       FreeForWriting, RWExclusion, HoldersAt
<1>16. ASSUME NEW t \in Threads, UnlockRead(t) PROVE BitSpeaksForAWriter'
  BY <1>16 DEF UnlockRead, BitSpeaksForAWriter, WriterComing, SleepersAt, LockType, Words,
       FreeForWriting, RWExclusion, HoldersAt
<1>17. ASSUME NEW t \in Threads, UnlockWrite(t) PROVE BitSpeaksForAWriter'
  BY <1>17 DEF UnlockWrite, Zero, BitSpeaksForAWriter, WriterComing, SleepersAt, LockType,
       Words, FreeForWriting, RWExclusion, HoldersAt
<1>18. ASSUME NEW t \in Threads, Interrupted(t) PROVE BitSpeaksForAWriter'
  BY <1>18 DEF Interrupted, BitSpeaksForAWriter, WriterComing, SleepersAt, LockType, Words,
       FreeForWriting, RWExclusion, HoldersAt
<1>19. CASE UNCHANGED vars
  BY <1>19 DEF BitSpeaksForAWriter, WriterComing, SleepersAt, LockType, Words,
       FreeForWriting, RWExclusion, HoldersAt
<1>20. QED
  BY <1>1, <1>2, <1>3, <1>4, <1>5, <1>6, <1>7, <1>8, <1>9, <1>10, <1>11, <1>12, <1>13,
       <1>14, <1>15, <1>16, <1>17, <1>18, <1>19 DEF Next, Step, Call, ReadStep, WriteStep,
       Unlock

(* Whoever clears the bit goes on to the wakes it stands for; a writer that was woken or
   disturbed is in its loop; a thread falls asleep on a word that has the bit set. *)
LEMMA SleepersAreRememberedStep == Inv /\ [Next]_vars => SleepersAreRemembered'
<1> SUFFICES ASSUME Inv, [Next]_vars PROVE SleepersAreRemembered'
  OBVIOUS
<1> USE DEF Inv, Goto, See, queues, vars
<1>a. CountIsNatural
  BY FiniteReaders
<1>1. ASSUME NEW t \in Threads, LockRead(t) PROVE SleepersAreRemembered'
  BY <1>1, <1>a DEF LockRead, Begin, SleepersAreRemembered, BitSpeaksForAWriter, WaitsSaw,
       WriterComing, SleepersAt, HoldersAt, LockType, Words, RWExclusion, FreeForWriting,
       CountIsNatural
<1>2. ASSUME NEW t \in Threads, TryLockRead(t) PROVE SleepersAreRemembered'
  BY <1>2, <1>a DEF TryLockRead, Begin, FreeForReading, SleepersAreRemembered,
       BitSpeaksForAWriter, WaitsSaw, WriterComing, SleepersAt, HoldersAt, LockType, Words,
       RWExclusion, FreeForWriting, CountIsNatural
<1>3. ASSUME NEW t \in Threads, LockWrite(t) PROVE SleepersAreRemembered'
  BY <1>3, <1>a DEF LockWrite, Begin, Zero, LockedWrite, LockedAndWake, NeedToWake,
       SleepersAreRemembered, BitSpeaksForAWriter, WaitsSaw, WriterComing, SleepersAt,
       HoldersAt, LockType, Words, RWExclusion, FreeForWriting, CountIsNatural
<1>4. ASSUME NEW t \in Threads, TryLockWrite(t) PROVE SleepersAreRemembered'
  BY <1>4, <1>a DEF TryLockWrite, Begin, Zero, LockedWrite, LockedAndWake, NeedToWake,
       SleepersAreRemembered, BitSpeaksForAWriter, WaitsSaw, WriterComing, SleepersAt,
       HoldersAt, LockType, Words, RWExclusion, FreeForWriting, CountIsNatural
<1>5. ASSUME NEW t \in Threads, ReadAcquire(t) PROVE SleepersAreRemembered'
  BY <1>5, <1>a DEF ReadAcquire, Exchange, FreeForReading, SleepersAreRemembered,
       BitSpeaksForAWriter, WaitsSaw, WriterComing, SleepersAt, HoldersAt, LockType, Words,
       RWExclusion, FreeForWriting, CountIsNatural
<1>6. ASSUME NEW t \in Threads, ReadMark(t) PROVE SleepersAreRemembered'
  BY <1>6, <1>a DEF ReadMark, Exchange, Zero, LockedWrite, LockedAndWake, NeedToWake,
       SleepersAreRemembered, BitSpeaksForAWriter, WaitsSaw, WriterComing, SleepersAt,
       HoldersAt, LockType, Words, RWExclusion, FreeForWriting, CountIsNatural
<1>7. ASSUME NEW t \in Threads, ReadSleep(t) PROVE SleepersAreRemembered'
  BY <1>7, <1>a DEF ReadSleep, Zero, SleepersAreRemembered, BitSpeaksForAWriter, WaitsSaw,
       WriterComing, SleepersAt, HoldersAt, LockType, Words, RWExclusion, FreeForWriting,
       CountIsNatural
<1>8. ASSUME NEW t \in Threads, ReadResume(t) PROVE SleepersAreRemembered'
  BY <1>8, <1>a DEF ReadResume, Zero, SleepersAreRemembered, BitSpeaksForAWriter,
       WaitsSaw, WriterComing, SleepersAt, HoldersAt, LockType, Words, RWExclusion,
       FreeForWriting, CountIsNatural
<1>9. ASSUME NEW t \in Threads, ClearNeedToWake(t) PROVE SleepersAreRemembered'
  BY <1>9, <1>a DEF ClearNeedToWake, NeedToWake, Zero, SleepersAreRemembered,
       BitSpeaksForAWriter, WaitsSaw, WriterComing, SleepersAt, HoldersAt, LockType, Words,
       RWExclusion, FreeForWriting, CountIsNatural
<1>10. ASSUME NEW t \in Threads, WriteAcquire(t) PROVE SleepersAreRemembered'
  BY <1>10, <1>a DEF WriteAcquire, Exchange, FreeForWriting, Zero, LockedWrite,
       LockedAndWake, NeedToWake, SleepersAreRemembered, BitSpeaksForAWriter, WaitsSaw,
       WriterComing, SleepersAt, HoldersAt, LockType, Words, RWExclusion, CountIsNatural
<1>11. ASSUME NEW t \in Threads, WriteMark(t) PROVE SleepersAreRemembered'
  BY <1>11, <1>a DEF WriteMark, Exchange, FreeForWriting, SleepersAreRemembered,
       BitSpeaksForAWriter, WaitsSaw, WriterComing, SleepersAt, HoldersAt, LockType, Words,
       RWExclusion, CountIsNatural
<1>12. ASSUME NEW t \in Threads, WriteSleep(t) PROVE SleepersAreRemembered'
  BY <1>12, <1>a DEF WriteSleep, FreeForWriting, Zero, SleepersAreRemembered,
       BitSpeaksForAWriter, WaitsSaw, WriterComing, SleepersAt, HoldersAt, LockType, Words,
       RWExclusion, CountIsNatural
<1>13. ASSUME NEW t \in Threads, WriteResume(t) PROVE SleepersAreRemembered'
  BY <1>13, <1>a DEF WriteResume, Zero, SleepersAreRemembered, BitSpeaksForAWriter,
       WaitsSaw, WriterComing, SleepersAt, HoldersAt, LockType, Words, RWExclusion,
       FreeForWriting, CountIsNatural
<1>14. ASSUME NEW t \in Threads, WakeReaders(t) PROVE SleepersAreRemembered'
  BY <1>14, <1>a DEF WakeReaders, SleepersAreRemembered, BitSpeaksForAWriter, WaitsSaw,
       WriterComing, SleepersAt, HoldersAt, LockType, Words, RWExclusion, FreeForWriting,
       CountIsNatural
<1>15. ASSUME NEW t \in Threads, WakeWriter(t) PROVE SleepersAreRemembered'
  BY <1>15, <1>a DEF WakeWriter, SleepersAreRemembered, BitSpeaksForAWriter, WaitsSaw,
       WriterComing, SleepersAt, HoldersAt, LockType, Words, RWExclusion, FreeForWriting,
       CountIsNatural
<1>16. ASSUME NEW t \in Threads, UnlockRead(t) PROVE SleepersAreRemembered'
  <2>1. t \in readers /\ ~word.lockedWrite
    BY <1>16 DEF UnlockRead, HoldersAt, RWExclusion
  <2>2. \A u \in Threads : u # t => pc'[u] = pc[u]
    BY <1>16 DEF UnlockRead, LockType
  <2>3. \A u \in Threads : WriterComing(u) => WriterComing(u)'
    BY <1>16, <2>2 DEF UnlockRead, WriterComing
  <2>4. readerQueue' # {} => \E u \in Threads : (WriterComing(u) \/ pc[u] = "wakeReaders"
                                               \/ u \in writerQueue)'
    BY <1>16, <2>1, <2>2, <2>3 DEF UnlockRead, SleepersAreRemembered
  <2>5. ASSUME writerQueue' # {}
        PROVE  \/ (word.needToWake /\ (word.lockedWrite \/ word.count > 0))'
               \/ \E u \in Threads : (WriterComing(u) \/ pc[u] \in {"readWake", "readWake2",
                                                        "wakeReaders", "wakeWriter"})'
    <3>1. CASE word.needToWake /\ word.count = 1
      BY <1>16, <2>1, <3>1 DEF UnlockRead, LockType
    <3>2. CASE word.needToWake /\ word.count > 1
      BY <1>16, <2>1, <3>2 DEF UnlockRead, LockType, Words
    <3>3. CASE ~word.needToWake \/ word.count = 0
      BY <1>16, <2>1, <2>2, <2>3, <2>5, <3>3 DEF UnlockRead, SleepersAreRemembered, LockType
    <3>4. QED
      BY <1>a, <3>1, <3>2, <3>3 DEF CountIsNatural
  <2>6. QED
    BY <2>4, <2>5 DEF SleepersAreRemembered
<1>17. ASSUME NEW t \in Threads, UnlockWrite(t) PROVE SleepersAreRemembered'
  BY <1>17, <1>a DEF UnlockWrite, Zero, SleepersAreRemembered, BitSpeaksForAWriter,
       WaitsSaw, WriterComing, SleepersAt, HoldersAt, LockType, Words, RWExclusion,
       FreeForWriting, CountIsNatural
<1>18. ASSUME NEW t \in Threads, Interrupted(t) PROVE SleepersAreRemembered'
  BY <1>18, <1>a DEF Interrupted, SleepersAreRemembered, BitSpeaksForAWriter, WaitsSaw,
       WriterComing, SleepersAt, HoldersAt, LockType, Words, RWExclusion, FreeForWriting,
       CountIsNatural
<1>19. CASE UNCHANGED vars
  BY <1>19 DEF SleepersAreRemembered, BitSpeaksForAWriter, WaitsSaw, WriterComing,
       SleepersAt, HoldersAt, LockType, Words, RWExclusion, FreeForWriting, CountIsNatural
<1>20. QED
  BY <1>1, <1>2, <1>3, <1>4, <1>5, <1>6, <1>7, <1>8, <1>9, <1>10, <1>11, <1>12, <1>13,
       <1>14, <1>15, <1>16, <1>17, <1>18, <1>19 DEF Next, Step, Call, ReadStep, WriteStep,
       Unlock

(* Exclusion: a cmpxchg succeeds on the word as it is, whatever the copy's age. *)
LEMMA RWExclusionStep == Inv /\ [Next]_vars => RWExclusion'
<1> SUFFICES ASSUME Inv, [Next]_vars PROVE RWExclusion'
  OBVIOUS
<1> USE DEF Inv, Goto, See, queues, vars
<1>1. IsFiniteSet(readers) /\ CountIsNatural
  BY FiniteReaders
<1>2. word.count = 0 => readers = {}
  BY <1>1, FS_EmptySet DEF RWExclusion
<1>3. \A t \in Threads \ readers : Cardinality(readers \cup {t}) = Cardinality(readers) + 1
  BY <1>1, FS_AddElement
<1>4. \A t \in readers : Cardinality(readers \ {t}) = Cardinality(readers) - 1
  BY <1>1, FS_RemoveElement
<1>5. Cardinality({}) = 0
  BY FS_EmptySet
<1>6. ASSUME NEW t \in Threads, TryLockRead(t) PROVE RWExclusion'
  BY <1>3, <1>6 DEF TryLockRead, FreeForReading, RWExclusion, HoldersAt, LockType, Words
<1>7. ASSUME NEW t \in Threads, ReadAcquire(t) PROVE RWExclusion'
  BY <1>3, <1>7 DEF ReadAcquire, Exchange, FreeForReading, RWExclusion, HoldersAt, LockType, Words
<1>8. ASSUME NEW t \in Threads, ReadMark(t) PROVE RWExclusion'
  BY <1>5, <1>8 DEF ReadMark, Exchange, LockedAndWake, LockedWrite, Zero, RWExclusion, LockType, Words
<1>9. ASSUME NEW t \in Threads, ClearNeedToWake(t) PROVE RWExclusion'
  BY <1>9 DEF ClearNeedToWake, NeedToWake, Zero, RWExclusion, LockType, Words
<1>10. ASSUME NEW t \in Threads, UnlockRead(t) PROVE RWExclusion'
  BY <1>4, <1>10 DEF UnlockRead, RWExclusion, HoldersAt, LockType, Words
<1>11. ASSUME NEW t \in Threads, LockWrite(t) PROVE RWExclusion'
  <2>1. CASE word = Zero
    <3>1. word.count = 0 /\ ~word.lockedWrite
      BY <2>1 DEF Zero
    <3>2. readers = {} /\ writers = {}
      BY <1>2, <3>1 DEF RWExclusion
    <3>3. word'.count = 0 /\ word'.lockedWrite /\ writers' = {t} /\ readers' = {}
      BY <1>11, <2>1, <3>2 DEF LockWrite, LockedWrite, Zero
    <3>4. QED
      BY <1>5, <3>3 DEF RWExclusion
  <2>2. CASE word # Zero
    BY <1>11, <2>2 DEF LockWrite, RWExclusion
  <2>3. QED
    BY <2>1, <2>2
<1>12. ASSUME NEW t \in Threads, TryLockWrite(t) PROVE RWExclusion'
  BY <1>2, <1>5, <1>12 DEF TryLockWrite, LockedWrite, Zero, RWExclusion, LockType, Words
<1>13. ASSUME NEW t \in Threads, WriteAcquire(t) PROVE RWExclusion'
  BY <1>2, <1>5, <1>13 DEF WriteAcquire, Exchange, FreeForWriting, LockedAndWake, LockedWrite,
       Zero, RWExclusion, LockType, Words
<1>14. ASSUME NEW t \in Threads, WriteMark(t) PROVE RWExclusion'
  BY <1>14 DEF WriteMark, Exchange, RWExclusion, LockType, Words
<1>15. ASSUME NEW t \in Threads, UnlockWrite(t) PROVE RWExclusion'
  BY <1>5, <1>15 DEF UnlockWrite, Zero, RWExclusion, HoldersAt, LockType
<1>16. ASSUME NEW t \in Threads,
              \/ LockRead(t) \/ ReadSleep(t) \/ ReadResume(t) \/ WriteSleep(t) \/ WriteResume(t)
              \/ WakeReaders(t) \/ WakeWriter(t) \/ Interrupted(t)
       PROVE  RWExclusion'
  BY <1>16 DEF LockRead, ReadSleep, ReadResume, WriteSleep, WriteResume, WakeReaders, WakeWriter,
       Interrupted, RWExclusion
<1>17. CASE UNCHANGED vars
  BY <1>17 DEF RWExclusion
<1>18. QED
  BY <1>6, <1>7, <1>8, <1>9, <1>10, <1>11, <1>12, <1>13, <1>14, <1>15, <1>16, <1>17
       DEF Next, Call, Step, ReadStep, WriteStep, Unlock

(***************************************************************************)
(* The invariant holds in every state, hence each of its parts does.       *)
(***************************************************************************)
LEMMA Initially == Init => Inv
<1> SUFFICES ASSUME Init PROVE Inv
  OBVIOUS
<1> USE DEF Init
<1>1. LockType
  BY RWLockAssumption, WordsAreWords DEF LockType, Points
<1>2. HoldersAt /\ SleepersAt /\ WaitsSaw
  BY DEF HoldersAt, SleepersAt, WaitsSaw
<1>3. RWExclusion /\ BitSpeaksForAWriter
  BY FS_EmptySet DEF RWExclusion, BitSpeaksForAWriter, Zero
<1>4. SleepersAreRemembered
  BY DEF SleepersAreRemembered
<1>5. QED
  BY <1>1, <1>2, <1>3, <1>4 DEF Inv

LEMMA Invariance == Spec => []Inv
<1>1. Init => Inv
  BY Initially
<1>2. Inv /\ [Next]_vars => Inv'
  BY LockTypeStep, HoldersAtStep, SleepersAtStep, WaitsSawStep, BitSpeaksForAWriterStep,
     RWExclusionStep, SleepersAreRememberedStep DEF Inv
<1>3. QED
  BY <1>1, <1>2, PTL DEF Spec

(* A call of the lock is made, and ends, outside libsimple_once. *)
LEMMA LockMoves ==
    ASSUME LockType, [Next]_vars
    PROVE  /\ pc' \in [Threads -> Points \cup OncePoints]
           /\ \A u \in Threads : /\ pc[u] \in OncePoints => pc'[u] = pc[u]
                                 /\ pc[u] \in Points => pc'[u] \in Points
<1> DEFINE Moves == \E t \in Threads, p \in Points :
                       pc[t] \in Points /\ pc' = [pc EXCEPT ![t] = p]
<1> USE DEF LockType, Goto, See, Points
<1>1. ASSUME NEW t \in Threads, Call(t) PROVE Moves
  BY <1>1 DEF Call, LockRead, TryLockRead, LockWrite, TryLockWrite
<1>2. ASSUME NEW t \in Threads, ReadStep(t) PROVE Moves \/ pc' = pc
  BY <1>2 DEF ReadStep, ReadAcquire, ReadMark, ReadSleep, ReadResume, ClearNeedToWake, Exchange
<1>3. ASSUME NEW t \in Threads, WriteStep(t) PROVE Moves \/ pc' = pc
  BY <1>3 DEF WriteStep, WriteAcquire, WriteMark, WriteSleep, WriteResume, WakeReaders,
       WakeWriter, Exchange
<1>4. ASSUME NEW t \in Threads, Unlock(t) PROVE Moves
  BY <1>4 DEF Unlock, UnlockRead, UnlockWrite
<1>5. ASSUME NEW t \in Threads, Interrupted(t) PROVE pc' = pc
  BY <1>5 DEF Interrupted
<1>6. Moves \/ pc' = pc
  BY <1>1, <1>2, <1>3, <1>4, <1>5 DEF Next, Step, vars
<1>7. QED
  BY <1>6 DEF OncePoints

\* Without libsimple_once every thread is inside a call of the lock or between two.
AtALockPoint == pc \in [Threads -> Points]

(* Every state of the readers-writer lock has its type. *)
THEOREM TypeCorrect == Spec => []TypeOK
<1>1. Init => AtALockPoint
  BY DEF Init, Points, AtALockPoint
<1>2. Inv /\ AtALockPoint /\ [Next]_vars => AtALockPoint'
  BY LockMoves DEF Inv, LockType, AtALockPoint
<1>3. Inv /\ AtALockPoint => TypeOK
  BY DEF Inv, LockType, TypeOK, AtALockPoint
<1>4. QED
  BY <1>1, <1>2, <1>3, Invariance, PTL DEF Spec

(* However many threads read, write, retry with stale copies of the word or clear its bit
   late, readers and a writer never have the lock together, and the word counts them. *)
THEOREM ReadersAndWritersExclude == Spec => []RWExclusion
<1>1. Inv => RWExclusion
  BY DEF Inv
<1>2. QED
  BY <1>1, Invariance, PTL

(* No sleeper is forgotten, with any number of readers and writers asleep, coming and
   going. *)
THEOREM NoLostWakeup == Spec => []SleepersAreRemembered
<1>1. Inv => SleepersAreRemembered
  BY DEF Inv
<1>2. QED
  BY <1>1, Invariance, PTL

(***************************************************************************)
(* The lock behind libsimple_once.                                         *)
(***************************************************************************)

(* The state of the once says where its callers can be: before it is triggered all
   are about to call it, until it has completed one of them runs the callback and
   nobody has returned, and afterwards nobody runs it. *)
OnceInv ==
    /\ once \in {Untriggered, TriggeredUncontended, TriggeredContended, Completed}
    /\ callbacks = IF once = Untriggered THEN 0 ELSE 1
    /\ once = Untriggered => \A t \in Threads : pc[t] = "start"
    /\ once # Completed => \A t \in Threads : pc[t] \in OncePoints
    /\ once = Completed => \A t \in Threads : pc[t] \notin {"callback", "complete"}
    /\ \A t \in Threads : pc[t] = "onceWake" => once = Completed
    /\ \A t, u \in Threads :
          pc[t] \in {"callback", "complete"} /\ pc[u] \in {"callback", "complete"} => t = u

(* A caller of libsimple_once is no part of the lock's business. *)
LEMMA CallerOfOnce ==
    ASSUME Inv, NEW t \in Threads, pc[t] \in OncePoints, NEW p \in OncePoints \cup {"idle"},
           pc' = [pc EXCEPT ![t] = p], UNCHANGED onlyLock
    PROVE  Inv'
<1> USE DEF Inv, onlyLock
<1>1. LockType'
  BY DEF LockType, Points
<1>2. /\ \A u \in Threads \ {t} : pc'[u] = pc[u]
      /\ pc'[t] = p
  BY DEF LockType
<1>3. HoldersAt' /\ SleepersAt'
  BY <1>2 DEF HoldersAt, SleepersAt, OncePoints, LockType
<1>4. WaitsSaw'
  BY <1>2 DEF WaitsSaw, OncePoints
<1>5. \A u \in Threads : WriterComing(u)' <=> WriterComing(u)
  BY <1>2 DEF WriterComing, OncePoints
<1>6. BitSpeaksForAWriter'
  BY <1>5 DEF BitSpeaksForAWriter
<1>7. SleepersAreRemembered'
  <2>1. \A u \in Threads : pc[u] \in {"readWake", "readWake2", "wakeReaders", "wakeWriter"}
                             => pc'[u] = pc[u]
    BY <1>2 DEF OncePoints
  <2>2. QED
    BY <1>5, <2>1 DEF SleepersAreRemembered
<1>8. RWExclusion'
  BY DEF RWExclusion
<1>9. QED
  BY <1>1, <1>3, <1>4, <1>6, <1>7, <1>8

(* libsimple_rwlock_init may write the word: nobody has used the lock yet. *)
LEMMA InitialisationIsSafe ==
    ASSUME Inv, OnceInv, NEW t \in Threads, InitialiseLock(t)
    PROVE  Inv'
<1> USE DEF Inv
<1>1. /\ pc[t] = "callback" /\ pc' = [pc EXCEPT ![t] = "complete"] /\ word' = Zero
      /\ UNCHANGED <<state2, readerQueue, writerQueue, readers, writers, calls>>
  BY DEF InitialiseLock, Callback, OnceGoto, queues
<1>2. \A u \in Threads : pc[u] \in OncePoints
  BY <1>1 DEF OnceInv
<1>3. readers = {} /\ writers = {} /\ readerQueue = {} /\ writerQueue = {}
  BY <1>2 DEF HoldersAt, SleepersAt, LockType, OncePoints
<1>4. \A u \in Threads : pc'[u] \in OncePoints
  BY <1>1, <1>2 DEF LockType, OncePoints
<1>5. LockType'
  BY <1>1, WordsAreWords DEF LockType, OncePoints
<1>6. HoldersAt' /\ SleepersAt' /\ WaitsSaw'
  BY <1>1, <1>3, <1>4 DEF HoldersAt, SleepersAt, WaitsSaw, OncePoints
<1>7. BitSpeaksForAWriter' /\ SleepersAreRemembered'
  BY <1>1, <1>3 DEF BitSpeaksForAWriter, SleepersAreRemembered, Zero
<1>8. RWExclusion'
  BY <1>1, <1>3, FS_EmptySet DEF RWExclusion, Zero
<1>9. QED
  BY <1>5, <1>6, <1>7, <1>8

(* What a caller that found the once triggered does next. *)
LEMMA Evaluated ==
    ASSUME OnceInv, once # Untriggered
    PROVE  /\ Evaluate(once) \in {"idle", "onceMark", "onceWait"}
           /\ Evaluate(once) = "idle" => once = Completed
  BY DEF OnceInv, Evaluate, Untriggered, TriggeredUncontended, TriggeredContended, Completed

(* Each step of libsimple_once moves one caller within it or out of it. *)
LEMMA OnceMoves ==
    ASSUME LockType, OnceInv, NEW t \in Threads, Trigger(t) \/ OnceStep(t)
    PROVE  /\ pc[t] \in OncePoints
           /\ \E p \in OncePoints \cup {"idle"} : pc' = [pc EXCEPT ![t] = p]
<1> USE DEF OnceGoto, OncePoints
<1>1. CASE Trigger(t)
  BY <1>1, Evaluated DEF Trigger
<1>2. CASE Complete(t) \/ WakeAll(t) \/ OnceSleep(t) \/ OnceResume(t)
  BY <1>2 DEF Complete, WakeAll, OnceSleep, OnceResume
<1>3. CASE BecomeWaiter(t)
  <2>1. once # Untriggered
    BY <1>3 DEF BecomeWaiter, OnceInv
  <2>2. QED
    BY <1>3, <2>1, Evaluated DEF BecomeWaiter
<1>4. CASE Reload(t)
  <2>1. once # Untriggered
    BY <1>4 DEF Reload, OnceInv
  <2>2. QED
    BY <1>4, <2>1, Evaluated DEF Reload
<1>5. QED
  BY <1>1, <1>2, <1>3, <1>4 DEF OnceStep

LEMMA LockInitialised == Inv /\ OnceInv /\ [InitialisedNext]_initVars => Inv'
<1> SUFFICES ASSUME Inv, OnceInv, [InitialisedNext]_initVars PROVE Inv'
  OBVIOUS
<1>1. ASSUME [Next]_vars PROVE Inv'
  BY <1>1, LockTypeStep, HoldersAtStep, SleepersAtStep, WaitsSawStep, BitSpeaksForAWriterStep,
     RWExclusionStep, SleepersAreRememberedStep DEF Inv
<1>2. ASSUME NEW t \in Threads, Trigger(t) \/ OnceStep(t), UNCHANGED onlyLock PROVE Inv'
  BY <1>2, OnceMoves, CallerOfOnce DEF Inv
<1>3. ASSUME NEW t \in Threads, OnceInterrupted(t), UNCHANGED onlyLock PROVE [Next]_vars
  BY <1>3 DEF OnceInterrupted, onlyLock, vars
<1>4. ASSUME NEW t \in Threads, InitialiseLock(t) PROVE Inv'
  BY <1>4, InitialisationIsSafe
<1>5. ASSUME NEW t \in Threads, Call(t) \/ Interrupted(t) \/ Step(t) PROVE [Next]_vars
  BY <1>5 DEF Next
<1>6. CASE UNCHANGED initVars
  BY <1>1, <1>6 DEF initVars
<1>7. QED
  BY <1>1, <1>2, <1>3, <1>4, <1>5, <1>6 DEF InitialisedNext, OncePart, LockPart

LEMMA OnceStepKeeps == Inv /\ OnceInv /\ [InitialisedNext]_initVars => OnceInv'
<1> SUFFICES ASSUME Inv, OnceInv, [InitialisedNext]_initVars PROVE OnceInv'
  OBVIOUS
<1> USE DEF OnceGoto, OncePoints, Untriggered, TriggeredUncontended, TriggeredContended, Completed
<1>0. pc \in [Threads -> Points \cup OncePoints]
  BY DEF Inv, LockType
<1>1. ASSUME NEW t \in Threads, Trigger(t) PROVE OnceInv'
  <2>1. CASE once = Untriggered
    BY <1>0, <1>1, <2>1 DEF Trigger, OnceInv
  <2>2. CASE once # Untriggered
    BY <1>0, <1>1, <2>2, Evaluated DEF Trigger, OnceInv
  <2>3. QED
    BY <2>1, <2>2
<1>2. ASSUME NEW t \in Threads, InitialiseLock(t) PROVE OnceInv'
  BY <1>0, <1>2 DEF InitialiseLock, Callback, onceVars, OnceInv
<1>3. ASSUME NEW t \in Threads, Complete(t) PROVE OnceInv'
  BY <1>0, <1>3 DEF Complete, OnceInv
<1>4. ASSUME NEW t \in Threads, WakeAll(t) PROVE OnceInv'
  BY <1>0, <1>4 DEF WakeAll, OnceInv
<1>5. ASSUME NEW t \in Threads, BecomeWaiter(t) PROVE OnceInv'
  <2>1. once # Untriggered
    BY <1>5 DEF BecomeWaiter, OnceInv
  <2>2. QED
    BY <1>0, <1>5, <2>1, Evaluated DEF BecomeWaiter, OnceInv
<1>6. ASSUME NEW t \in Threads, OnceSleep(t) \/ OnceResume(t) PROVE OnceInv'
  BY <1>0, <1>6 DEF OnceSleep, OnceResume, onceVars, OnceInv
<1>7. ASSUME NEW t \in Threads, Reload(t) PROVE OnceInv'
  <2>1. once # Untriggered
    BY <1>7 DEF Reload, OnceInv
  <2>2. QED
    BY <1>0, <1>7, <2>1, Evaluated DEF Reload, onceVars, OnceInv
<1>8. ASSUME NEW t \in Threads, OnceInterrupted(t) PROVE OnceInv'
  BY <1>8 DEF OnceInterrupted, OnceInv
<1>9. ASSUME [Next]_vars, UNCHANGED onlyOnce PROVE OnceInv'
  <2>1. \A u \in Threads : /\ pc[u] \in OncePoints => pc'[u] = pc[u]
                           /\ pc[u] \in Points => pc'[u] \in Points
    BY <1>9, LockMoves DEF Inv
  <2>2. \A u \in Threads : pc'[u] \in {"callback", "complete"} => pc'[u] = pc[u]
    BY <1>0, <2>1 DEF Points
  <2>3. QED
    BY <1>9, <2>1, <2>2 DEF onlyOnce, OnceInv
<1>10. ASSUME NEW t \in Threads, Call(t) \/ Interrupted(t) \/ Step(t) PROVE [Next]_vars
  BY <1>10 DEF Next
<1>11. CASE UNCHANGED initVars
  BY <1>9, <1>11 DEF initVars
<1>12. QED
  BY <1>1, <1>2, <1>3, <1>4, <1>5, <1>6, <1>7, <1>8, <1>9, <1>10, <1>11
     DEF InitialisedNext, OncePart, LockPart, OnceStep

LEMMA InitialisedInvariance == InitialisedSpec => [](Inv /\ OnceInv)
<1>1. InitialisedInit => Inv /\ OnceInv
  <2> SUFFICES ASSUME InitialisedInit PROVE Inv /\ OnceInv
    OBVIOUS
  <2> USE DEF InitialisedInit, OnceInit
  <2>1. LockType
    BY RWLockAssumption, WordsAreWords DEF LockType, OncePoints
  <2>2. HoldersAt /\ SleepersAt /\ WaitsSaw
    BY DEF HoldersAt, SleepersAt, WaitsSaw
  <2>3. RWExclusion /\ BitSpeaksForAWriter
    BY FS_EmptySet DEF RWExclusion, BitSpeaksForAWriter, Zero
  <2>4. SleepersAreRemembered
    BY DEF SleepersAreRemembered
  <2>5. OnceInv
    BY DEF OnceInv, OncePoints, Untriggered, TriggeredUncontended, TriggeredContended, Completed
  <2>6. QED
    BY <2>1, <2>2, <2>3, <2>4, <2>5 DEF Inv
<1>2. Inv /\ OnceInv /\ [InitialisedNext]_initVars => (Inv /\ OnceInv)'
  BY LockInitialised, OnceStepKeeps
<1>3. QED
  BY <1>1, <1>2, PTL DEF InitialisedSpec

(* The callback of libsimple_once runs once, and no thread is past libsimple_once before
   it has finished, by whichever of its ways the thread's wait ended. *)
THEOREM NobodyBeforeTheCallback == InitialisedSpec => []InitialisedBeforeUse
<1>1. OnceInv => InitialisedBeforeUse
  BY DEF OnceInv, InitialisedBeforeUse, Untriggered, Completed
<1>2. QED
  BY <1>1, InitialisedInvariance, PTL

(* The lock that is initialised by the callback excludes and remembers as the lock alone
   does: libsimple_rwlock_init never writes a word that is in use. *)
THEOREM InitialisedLockIsSound == InitialisedSpec => [](RWExclusion /\ SleepersAreRemembered)
<1>1. Inv => RWExclusion /\ SleepersAreRemembered
  BY DEF Inv
<1>2. QED
  BY <1>1, InitialisedInvariance, PTL
=============================================================================
