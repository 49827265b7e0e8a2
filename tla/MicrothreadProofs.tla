-------------------------- MODULE MicrothreadProofs --------------------------
(***************************************************************************)
(* Proofs about Microthread, for any sets of workers, impersonators and    *)
(* stacks and any bounds: at most one of them has the thread at any time;  *)
(* a dead thread without an active call is marked as terminating; no       *)
(* stack is lost or used twice; every call that the client waits for is in *)
(* exactly one place; and the throws that guard the thread's state are not *)
(* reached.                                                                *)
(***************************************************************************)
EXTENDS Microthread, FiniteSetTheorems, SequenceTheorems, TLAPS

Places == InPlay \cup {"idle", "unlocking"}

(* Who may have the thread, and the flag for it. *)
HoldType == /\ pc \in [Worker -> Places]
            /\ impersonator \in [Impersonator -> {"idle", "waiting", "acting"}]
            /\ running \in BOOLEAN

(* DeadIsFinal as an impersonator sees it, which sets and clears _running
   without looking at the call. *)
DeadIsMarked == /\ terminating \in BOOLEAN
                /\ dead /\ activeCall = Nothing /\ (\A w \in Worker : pc[w] \notin InPlay)
                     => terminating

HoldInv == HoldType /\ OneHolder
Inv == HoldInv /\ DeadIsMarked

holdVars == <<pc, impersonator, running>>

(* A step that leaves pc, impersonator and _running alone keeps the holder. *)
LEMMA Frame == HoldInv /\ UNCHANGED holdVars => HoldInv'
BY DEF HoldInv, HoldType, OneHolder, Holders, holdVars

(* A worker that is in doWork is the only holder. *)
LEMMA InPlayAlone ==
    ASSUME HoldInv, NEW w \in Worker, pc[w] \in InPlay
    PROVE  /\ running
           /\ Holders = {w}
           /\ \A v \in Worker : v # w => pc[v] \notin InPlay
           /\ \A i \in Impersonator : impersonator[i] # "acting"
<1>1. w \in Holders BY DEF Holders
<1>2. Holders = {w} /\ running BY <1>1 DEF HoldInv, OneHolder
<1>3. QED BY <1>2, WorkerAssumption DEF Holders

(* A worker that goes from one place in doWork to another stays the holder. *)
LEMMA StaysInPlay ==
    ASSUME HoldInv, NEW w \in Worker, pc[w] \in InPlay, NEW p \in InPlay,
           pc' = [pc EXCEPT ![w] = p], UNCHANGED <<impersonator, running>>
    PROVE  HoldInv'
<1>1. HoldType' BY DEF HoldInv, HoldType, Places
<1>2. Holders' = Holders BY DEF HoldInv, HoldType, Holders
<1>3. QED BY <1>1, <1>2 DEF HoldInv, OneHolder

(* A worker that leaves doWork leaves the thread free. *)
LEMMA LeavesPlay ==
    ASSUME HoldInv, NEW w \in Worker, pc[w] \in InPlay, NEW p \in {"idle", "unlocking"},
           pc' = [pc EXCEPT ![w] = p], running' = FALSE, UNCHANGED impersonator
    PROVE  HoldInv'
<1>1. HoldType' BY DEF HoldInv, HoldType, Places
<1>2. Holders' = {} BY InPlayAlone DEF HoldInv, HoldType, Holders, InPlay
<1>3. QED BY <1>1, <1>2 DEF HoldInv, OneHolder

(* A worker or an impersonator that finds _running clear takes the thread. *)
LEMMA Free == ASSUME HoldInv, ~running
              PROVE  /\ \A w \in Worker : pc[w] \notin InPlay
                     /\ \A i \in Impersonator : impersonator[i] # "acting"
BY DEF HoldInv, OneHolder, Holders

(* doneWorking: the worker leaves. *)
LEMMA DoneHold == ASSUME HoldInv, NEW w \in Worker, pc[w] \in InPlay, DoneWorking(w),
                         UNCHANGED impersonator
                  PROVE  HoldInv'
BY LeavesPlay DEF DoneWorking

(* Every step of the client leaves the holders alone. *)
LEMMA ClientHold ==
    ASSUME HoldInv,
           ClientCall \/ ClientSignal \/ ClientExit \/ ClientStep \/ ClientKilled
    PROVE  HoldInv'
<1>1. UNCHANGED holdVars
  BY DEF ClientCall, ClientSignal, ClientExit, ClientStep, ClientKilled, ClientReceive,
         ClientPushReply, ClientPushed, ServerVars, impVars, holdVars
<1>2. QED BY <1>1, Frame

(* notifyDead may let a thread_block fall through, within the call. *)
LEMMA ServerHold ==
    ASSUME HoldInv, ReceiveCall \/ ReceivePush \/ DeathStep \/ Release \/ Wake
    PROVE  HoldInv'
<1>1. CASE ReceiveCall BY <1>1, Frame DEF ReceiveCall, impVars, holdVars
<1>2. CASE ReceivePush BY <1>2, Frame DEF ReceivePush, impVars, holdVars
<1>3. CASE Release BY <1>3, Frame DEF Release, impVars, holdVars
<1>4. CASE Wake BY <1>4, Frame DEF Wake, impVars, holdVars
<1>5. CASE NotifyDead \/ ResumeDead
  BY <1>5, Frame DEF NotifyDead, ResumeDead, impVars, holdVars
<1>6. CASE ThreadDying
  <2>1. /\ pc' = [w \in Worker |-> IF pc[w] = "blocking" THEN "run" ELSE pc[w]]
        /\ UNCHANGED <<impersonator, running>>
    BY <1>6 DEF ThreadDying, impVars
  <2>2. HoldType' BY <2>1 DEF HoldInv, HoldType, Places, InPlay
  <2>3. Holders' = Holders BY <2>1 DEF HoldInv, HoldType, Holders, InPlay
  <2>4. QED BY <2>1, <2>2, <2>3 DEF HoldInv, OneHolder
<1>7. QED BY <1>1, <1>2, <1>3, <1>4, <1>5, <1>6 DEF DeathStep

LEMMA ImpersonatorHold ==
    ASSUME HoldInv, NEW i \in Impersonator, Impersonate(i) \/ ImpersonatorStep(i)
    PROVE  HoldInv'
<1>1. CASE Impersonate(i) /\ running
  <2>1. /\ impersonator' = [impersonator EXCEPT ![i] = "waiting"]
        /\ impersonator[i] = "idle" /\ running' = TRUE /\ pc' = pc
    BY <1>1 DEF Impersonate
  <2>2. HoldType' BY <2>1 DEF HoldInv, HoldType
  <2>3. Holders' = Holders BY <2>1 DEF HoldInv, HoldType, Holders
  <2>4. QED BY <1>1, <2>1, <2>2, <2>3 DEF HoldInv, OneHolder
<1>2. CASE (Impersonate(i) \/ ImpersonateWhenStopped(i)) /\ ~running
  <2>1. /\ impersonator' = [impersonator EXCEPT ![i] = "acting"]
        /\ running' = TRUE /\ pc' = pc
    BY <1>2 DEF Impersonate, ImpersonateWhenStopped
  <2>2. HoldType' BY <2>1 DEF HoldInv, HoldType
  <2>3. Holders' = {i} BY <1>2, <2>1, Free DEF HoldInv, HoldType, Holders
  <2>4. QED BY <2>1, <2>2, <2>3 DEF HoldInv, OneHolder
<1>3. CASE StopImpersonating(i)
  <2>1. /\ impersonator' = [impersonator EXCEPT ![i] = "idle"]
        /\ impersonator[i] = "acting" /\ running' = FALSE /\ pc' = pc
    BY <1>3 DEF StopImpersonating
  <2>2. HoldType' BY <2>1 DEF HoldInv, HoldType
  <2>3. i \in Holders BY <2>1 DEF Holders
  <2>4. Holders = {i} BY <2>3 DEF HoldInv, OneHolder
  <2>5. Holders' = {}
    BY <2>1, <2>4, WorkerAssumption DEF HoldInv, HoldType, Holders
  <2>6. QED BY <2>1, <2>2, <2>5 DEF HoldInv, OneHolder
<1>4. QED BY <1>1, <1>2, <1>3 DEF ImpersonatorStep, ImpersonateWhenStopped

(* doWork takes the thread only when _running is clear, and leaves it at the
   end; no step between lets go of it. *)
LEMMA SchedulerHold ==
    ASSUME HoldInv, NEW w \in Worker, SchedulerStep(w)
    PROVE  HoldInv'
<1>1. CASE PickUp(w)
  <2>1. UNCHANGED impersonator /\ pc[w] = "idle" BY <1>1 DEF PickUp, impVars, At
  <2>2. CASE UNCHANGED <<pc, running>> BY <2>1, <2>2, Frame DEF holdVars
  <2>3. CASE PickUpToRun(w)
    <3>1. ~running /\ running' = TRUE /\ pc' = [pc EXCEPT ![w] = "begin"]
      BY <2>3 DEF PickUpToRun
    <3>2. HoldType' BY <2>1, <3>1 DEF HoldInv, HoldType, Places, InPlay
    <3>3. Holders' = {w} BY <2>1, <3>1, Free DEF HoldInv, HoldType, Holders, InPlay
    <3>4. QED BY <3>1, <3>2, <3>3 DEF HoldInv, OneHolder
  <2>4. QED
    BY <1>1, <2>2, <2>3 DEF PickUp, PickUpDeferred, PickUpRunning, PickUpDead
<1>2. CASE Begin(w)
  <2>1. UNCHANGED impersonator /\ pc[w] = "begin" BY <1>2 DEF Begin, impVars, At
  <2>2. pc[w] \in InPlay BY <2>1 DEF InPlay
  <2>3. CASE UNCHANGED <<pc, running>> BY <2>1, <2>3, Frame DEF holdVars
  <2>4. CASE BeginResumes(w) BY <2>1, <2>2, <2>4, StaysInPlay DEF BeginResumes, InPlay
  <2>5. CASE BeginStarts(w) BY <2>1, <2>2, <2>5, StaysInPlay DEF BeginStarts, InPlay
  <2>6. CASE BeginFindsNothing(w)
    BY <2>1, <2>2, <2>6, DoneHold DEF BeginFindsNothing
  <2>7. QED BY <1>2, <2>3, <2>4, <2>5, <2>6 DEF Begin
<1>3. CASE StartCall(w) BY <1>3, StaysInPlay DEF StartCall, impVars, At, InPlay
<1>4. CASE ReturnToTop(w)
  BY <1>4, DoneHold DEF ReturnToTop, impVars, At, InPlay
<1>5. CASE Unlock(w)
  <2>1. /\ pc' = [pc EXCEPT ![w] = "idle"] /\ pc[w] = "unlocking"
        /\ UNCHANGED <<impersonator, running>>
    BY <1>5 DEF Unlock, impVars, At
  <2>2. HoldType' BY <2>1 DEF HoldInv, HoldType, Places
  <2>3. Holders' = Holders BY <2>1 DEF HoldInv, HoldType, Holders, InPlay
  <2>4. QED BY <2>1, <2>2, <2>3 DEF HoldInv, OneHolder
<1>6. QED BY <1>1, <1>2, <1>3, <1>4, <1>5 DEF SchedulerStep

(* The code of a call goes on, or back to the top. *)
LEMMA CodeHold ==
    ASSUME HoldInv, NEW w \in Worker,
           CodeStep(w) \/ SuspendLocked(w) \/ AssertWait(w)
    PROVE  HoldInv'
<1>1. CASE SuspendLocked(w) \/ FinishCall(w) \/ ThreadBlock(w)
  BY <1>1, StaysInPlay DEF SuspendLocked, FinishCall, ThreadBlock, impVars, At, InPlay
<1>2. CASE AssertWait(w) \/ LookAtWait(w)
  BY <1>2, StaysInPlay DEF AssertWait, LookAtWait, impVars, At, InPlay
<1>3. CASE Reply(w) \/ PopInterrupt(w)
  BY <1>3, Frame DEF Reply, PopInterrupt, impVars, holdVars
<1>4. CASE EnterInterrupt(w) \/ ReplyInterrupted(w) \/ FinishEnter(w)
  BY <1>4, Frame DEF EnterInterrupt, ReplyInterrupted, FinishEnter, impVars, holdVars
<1>5. QED BY <1>1, <1>2, <1>3, <1>4 DEF CodeStep

LEMMA HoldStep == HoldInv /\ [Next]_vars => HoldInv'
<1> SUFFICES ASSUME HoldInv, [Next]_vars PROVE HoldInv' OBVIOUS
<1>1. CASE UNCHANGED vars BY <1>1, Frame DEF vars, impVars, holdVars
<1>2. CASE Next
  BY <1>2, ClientHold, ServerHold, ImpersonatorHold, SchedulerHold, CodeHold DEF Next
<1>3. QED BY <1>1, <1>2

LEMMA HoldInit == Init => HoldInv
<1> SUFFICES ASSUME Init PROVE HoldInv OBVIOUS
<1>1. HoldType BY DEF Init, HoldType, Places
<1>2. Holders = {} /\ ~running BY DEF Init, Holders, InPlay
<1>3. QED BY <1>1, <1>2 DEF HoldInv, OneHolder

(* At most one worker or impersonator has the thread, and _running says whether
   one does (doWork, impersonate), whatever the number of workers. *)
THEOREM MutualExclusion == Spec => []OneHolder
<1>1. Init => HoldInv BY HoldInit
<1>2. HoldInv /\ [Next]_vars => HoldInv' BY HoldStep
<1>3. HoldInv => OneHolder BY DEF HoldInv
<1>4. QED BY <1>1, <1>2, <1>3, PTL DEF Spec

deathVars == <<pc, dead, activeCall, terminating>>

LEMMA DeathFrame == DeadIsMarked /\ UNCHANGED deathVars => DeadIsMarked'
BY DEF DeadIsMarked, deathVars, InPlay

(* While a worker is in doWork there is nothing to show but the type. *)
LEMMA DeathInPlay == ASSUME DeadIsMarked, NEW w \in Worker, pc'[w] \in InPlay,
                            terminating' \in BOOLEAN
                     PROVE  DeadIsMarked'
BY DEF DeadIsMarked, InPlay

(* doneWorking notices the death that waited for the call. *)
LEMMA DoneDeath == ASSUME DeadIsMarked, NEW w \in Worker, DoneWorking(w),
                          UNCHANGED <<dead, activeCall>>
                   PROVE  DeadIsMarked'
<1>1. \/ terminating' = TRUE
      \/ ~(dead /\ activeCall = Nothing /\ ~terminating) /\ terminating' = terminating
  BY DEF DoneWorking, FinishesDying
<1>2. terminating' \in BOOLEAN BY <1>1 DEF DeadIsMarked
<1>3. (dead /\ activeCall = Nothing)' => terminating' BY <1>1
<1>4. QED BY <1>2, <1>3 DEF DeadIsMarked

LEMMA SchedulerDeath ==
    ASSUME HoldInv, DeadIsMarked, NEW w \in Worker, SchedulerStep(w)
    PROVE  DeadIsMarked'
<1>1. CASE PickUp(w)
  <2>1. UNCHANGED <<dead, activeCall>> BY <1>1 DEF PickUp, callVars
  <2>2. CASE UNCHANGED <<pc, terminating>> BY <2>1, <2>2, DeathFrame DEF deathVars
  <2>3. CASE PickUpDead(w)
    <3>1. terminating' = TRUE BY <2>3 DEF PickUpDead
    <3>2. QED BY <3>1 DEF DeadIsMarked
  <2>4. CASE PickUpToRun(w)
    <3>1. pc'[w] \in InPlay /\ terminating' = terminating
      BY <2>4 DEF PickUpToRun, HoldInv, HoldType, InPlay
    <3>2. QED BY <3>1, DeathInPlay DEF DeadIsMarked
  <2>5. QED BY <1>1, <2>2, <2>3, <2>4 DEF PickUp, PickUpDeferred, PickUpRunning
<1>2. CASE Begin(w)
  <2>1. dead' = dead /\ pc[w] = "begin" BY <1>2 DEF Begin, At
  <2>2. CASE BeginFindsNothing(w)
    <3>1. activeCall' = activeCall
      BY <1>2, <2>2 DEF Begin, BeginFindsNothing, EnterContext, TakesInterrupt, Nothing
    <3>2. QED BY <2>1, <2>2, <3>1, DoneDeath DEF BeginFindsNothing
  <2>3. CASE ~BeginFindsNothing(w)
    <3>1. pc'[w] \in InPlay /\ terminating' = terminating
      BY <1>2, <2>1, <2>3 DEF Begin, BeginResumes, BeginStarts, HoldInv, HoldType, InPlay
    <3>2. QED BY <3>1, DeathInPlay DEF DeadIsMarked
  <2>4. QED BY <2>2, <2>3
<1>3. CASE StartCall(w)
  <2>1. pc'[w] \in InPlay /\ terminating' = terminating
    BY <1>3 DEF StartCall, lifeVars, HoldInv, HoldType, InPlay
  <2>2. QED BY <2>1, DeathInPlay DEF DeadIsMarked
<1>4. CASE ReturnToTop(w) BY <1>4, DoneDeath DEF ReturnToTop
<1>5. CASE Unlock(w)
  <2>1. /\ pc' = [pc EXCEPT ![w] = "idle"] /\ pc[w] = "unlocking"
        /\ UNCHANGED <<dead, activeCall, terminating>>
    BY <1>5 DEF Unlock, lifeVars, callVars, At
  <2>2. (\A v \in Worker : pc'[v] \notin InPlay) => \A v \in Worker : pc[v] \notin InPlay
    BY <2>1 DEF HoldInv, HoldType, InPlay
  <2>3. QED BY <2>1, <2>2 DEF DeadIsMarked, InPlay
<1>6. QED BY <1>1, <1>2, <1>3, <1>4, <1>5 DEF SchedulerStep

LEMMA CodeDeath ==
    ASSUME HoldInv, DeadIsMarked, NEW w \in Worker,
           CodeStep(w) \/ SuspendLocked(w) \/ AssertWait(w)
    PROVE  DeadIsMarked'
<1>1. terminating' = terminating
  BY DEF CodeStep, SuspendLocked, AssertWait, LookAtWait, ThreadBlock, Reply, PopInterrupt,
         FinishCall, EnterInterrupt, ReplyInterrupted, FinishEnter, lifeVars
<1>2. pc'[w] \in InPlay
  <2>1. pc[w] \in InPlay
    BY DEF CodeStep, SuspendLocked, AssertWait, LookAtWait, ThreadBlock, Reply,
           PopInterrupt, FinishCall, EnterInterrupt, ReplyInterrupted, FinishEnter, At, InPlay
  <2>2. \/ pc' = pc
        \/ \E p \in {"top", "blocking", "suspending"} : pc' = [pc EXCEPT ![w] = p]
    BY DEF CodeStep, SuspendLocked, AssertWait, LookAtWait, ThreadBlock, Reply,
           PopInterrupt, FinishCall, EnterInterrupt, ReplyInterrupted, FinishEnter
  <2>3. QED BY <2>1, <2>2 DEF HoldInv, HoldType, InPlay
<1>3. QED BY <1>1, <1>2, DeathInPlay DEF DeadIsMarked

(* notifyDead marks the thread unless a call is active; then the worker that
   finishes the call does. *)
LEMMA ServerDeath ==
    ASSUME HoldInv, DeadIsMarked,
           ReceiveCall \/ ReceivePush \/ DeathStep \/ Release \/ Wake
    PROVE  DeadIsMarked'
<1>1. CASE NotifyDead
  <2>1. activeCall' = activeCall BY <1>1 DEF NotifyDead, callVars
  <2>2. CASE activeCall = Nothing
    <3>1. terminating' = TRUE BY <1>1, <2>2 DEF NotifyDead
    <3>2. QED BY <3>1 DEF DeadIsMarked
  <2>3. CASE activeCall # Nothing
    <3>1. terminating' = terminating BY <1>1, <2>3 DEF NotifyDead, DeadIsMarked
    <3>2. Nothing' = Nothing BY DEF Nothing
    <3>3. QED BY <2>1, <2>3, <3>1, <3>2 DEF DeadIsMarked
  <2>4. QED BY <2>2, <2>3
<1>2. CASE ReceiveCall \/ ReceivePush
  BY <1>2, DeathFrame DEF ReceiveCall, ReceivePush, lifeVars, callVars, deathVars
<1>3. CASE Release \/ Wake
  BY <1>3, DeathFrame DEF Release, Wake, lifeVars, callVars, deathVars
<1>4. CASE ResumeDead
  BY <1>4, DeathFrame DEF ResumeDead, callVars, deathVars
<1>5. CASE ThreadDying
  <2>1. /\ pc' = [w \in Worker |-> IF pc[w] = "blocking" THEN "run" ELSE pc[w]]
        /\ UNCHANGED <<dead, activeCall, terminating>>
    BY <1>5 DEF ThreadDying, callVars
  <2>2. (\A v \in Worker : pc'[v] \notin InPlay) => \A v \in Worker : pc[v] \notin InPlay
    BY <2>1 DEF InPlay
  <2>3. QED BY <2>1, <2>2 DEF DeadIsMarked, InPlay
<1>6. QED BY <1>1, <1>2, <1>3, <1>4, <1>5 DEF DeathStep

LEMMA OtherDeath ==
    ASSUME DeadIsMarked,
           \/ ClientCall \/ ClientSignal \/ ClientExit \/ ClientStep \/ ClientKilled
           \/ \E i \in Impersonator : Impersonate(i) \/ ImpersonatorStep(i)
    PROVE  DeadIsMarked'
<1>1. UNCHANGED deathVars
  BY DEF ClientCall, ClientSignal, ClientExit, ClientStep, ClientKilled, ClientReceive,
         ClientPushReply, ClientPushed, ServerVars, Impersonate, ImpersonatorStep,
         ImpersonateWhenStopped, StopImpersonating, lifeVars, callVars, deathVars
<1>2. QED BY <1>1, DeathFrame

LEMMA InvStep == Inv /\ [Next]_vars => Inv'
<1> SUFFICES ASSUME Inv, [Next]_vars PROVE Inv' OBVIOUS
<1>1. HoldInv' BY HoldStep DEF Inv
<1>2. CASE UNCHANGED vars
  BY <1>1, <1>2, DeathFrame DEF Inv, vars, lifeVars, callVars, deathVars
<1>3. CASE Next
  BY <1>1, <1>3, SchedulerDeath, CodeDeath, ServerDeath, OtherDeath DEF Inv, Next
<1>4. QED BY <1>2, <1>3

(* A thread that is dead, has no active call and is not running is marked as
   terminating, so that no worker runs it again (notifyDead, doWork). *)
THEOREM DeathIsNoticed == Spec => []DeadIsFinal
<1>1. Init => Inv BY HoldInit DEF Init, Inv, DeadIsMarked
<1>2. Inv /\ [Next]_vars => Inv' BY InvStep
<1>3. Inv => DeadIsFinal
  BY Free DEF Inv, DeadIsMarked, DeadIsFinal
<1>4. QED BY <1>1, <1>2, <1>3, PTL DEF Spec

-----------------------------------------------------------------------------
(* Counting: how often a call occurs in a sequence of messages or of calls. *)

Bit(b) == IF b THEN 1 ELSE 0
Marked(s, c) == {i \in 1 .. Len(s) : CarriedBy(s[i]) = c}
Count(s, c) == Cardinality(Marked(s, c))

LEMMA CountNat ==
    ASSUME NEW S, NEW s \in Seq(S), NEW c
    PROVE  /\ IsFiniteSet(Marked(s, c))
           /\ Count(s, c) \in Nat
           /\ Count(s, c) = 0 <=> \A i \in 1 .. Len(s) : CarriedBy(s[i]) # c
<1>1. IsFiniteSet(1 .. Len(s)) BY LenProperties, FS_Interval
<1>2. IsFiniteSet(Marked(s, c)) BY <1>1, FS_Subset DEF Marked
<1>3. Count(s, c) \in Nat BY <1>2, FS_CardinalityType DEF Count
<1>4. Count(s, c) = 0 <=> Marked(s, c) = {} BY <1>2, FS_EmptySet DEF Count
<1>5. QED BY <1>2, <1>3, <1>4 DEF Marked

(* One more element at the end. *)
LEMMA CountExtended ==
    ASSUME NEW S, NEW s \in Seq(S), NEW t \in Seq(S), NEW c,
           Len(t) = Len(s) + 1, \A j \in 1 .. Len(s) : t[j] = s[j]
    PROVE  Count(t, c) = Count(s, c) + Bit(CarriedBy(t[Len(t)]) = c)
<1> DEFINE n == Len(t)
<1>1. IsFiniteSet(Marked(s, c)) /\ Count(s, c) \in Nat BY CountNat
<1>2. n \in Nat /\ Len(s) \in Nat /\ n = Len(s) + 1 BY LenProperties
<1>3. n \notin Marked(s, c) BY <1>2 DEF Marked
<1>4. CASE CarriedBy(t[n]) = c
  <2>1. Marked(t, c) = Marked(s, c) \cup {n} BY <1>2, <1>4 DEF Marked
  <2>2. Cardinality(Marked(t, c)) = Cardinality(Marked(s, c)) + 1
    BY <1>1, <1>3, <2>1, FS_AddElement
  <2>3. QED BY <1>4, <2>2 DEF Count, Bit
<1>5. CASE CarriedBy(t[n]) # c
  <2>1. Marked(t, c) = Marked(s, c) BY <1>2, <1>5 DEF Marked
  <2>2. QED BY <1>1, <1>5, <2>1 DEF Count, Bit
<1>6. QED BY <1>4, <1>5

LEMMA CountAppend ==
    ASSUME NEW S, NEW s \in Seq(S), NEW e \in S, NEW c
    PROVE  Count(Append(s, e), c) = Count(s, c) + Bit(CarriedBy(e) = c)
<1> DEFINE t == Append(s, e)
<1>1. /\ t \in Seq(S) /\ Len(t) = Len(s) + 1
      /\ \A j \in 1 .. Len(s) : t[j] = s[j]
      /\ t[Len(s) + 1] = e
  BY AppendProperties
<1> HIDE DEF t
<1>2. Count(t, c) = Count(s, c) + Bit(CarriedBy(t[Len(t)]) = c)
  BY <1>1, CountExtended
<1>3. Count(t, c) = Count(s, c) + Bit(CarriedBy(e) = c) BY <1>1, <1>2
<1>4. QED BY <1>3 DEF t

(* One element less at the front. *)
LEMMA CountTail ==
    ASSUME NEW S, NEW s \in Seq(S), s # <<>>, NEW c
    PROVE  Count(s, c) = Count(Tail(s), c) + Bit(CarriedBy(Head(s)) = c)
<1> DEFINE t == Tail(s)
           X == Marked(s, c) \ {1}
           f == [i \in Marked(t, c) |-> i + 1]
<1>1. /\ t \in Seq(S) /\ Len(t) = Len(s) - 1
      /\ \A i \in 1 .. Len(t) : t[i] = s[i + 1]
  BY HeadTailProperties
<1>2. Len(s) \in Nat \ {0} /\ Len(t) \in Nat BY <1>1, EmptySeq, LenProperties
<1>3. Head(s) = s[1] OBVIOUS
<1>4. IsFiniteSet(Marked(s, c)) /\ IsFiniteSet(Marked(t, c)) /\ Count(t, c) \in Nat
  BY <1>1, CountNat
<1>5. f \in Bijection(Marked(t, c), X)
  <2>1. \A i \in Marked(t, c) : i \in Nat /\ i + 1 \in X BY <1>1, <1>2 DEF Marked
  <2>2. \A j \in X : j - 1 \in Marked(t, c) /\ f[j - 1] = j
    <3>1. TAKE j \in X
    <3>2. j \in 2 .. Len(s) /\ CarriedBy(s[j]) = c BY <1>2 DEF Marked
    <3>3. j - 1 \in 1 .. Len(t) /\ (j - 1) + 1 = j BY <1>1, <1>2, <3>2
    <3>4. j - 1 \in Marked(t, c) BY <1>1, <3>2, <3>3 DEF Marked
    <3>5. QED BY <3>3, <3>4
  <2>3. f \in [Marked(t, c) -> X] BY <2>1
  <2>4. \A i, j \in Marked(t, c) : f[i] = f[j] => i = j BY <2>1
  <2>5. f \in Injection(Marked(t, c), X) BY <2>3, <2>4 DEF Injection, IsInjective
  <2>6. f \in Surjection(Marked(t, c), X) BY <2>2, <2>3 DEF Surjection
  <2>7. QED BY <2>5, <2>6 DEF Bijection
<1>6. ExistsBijection(Marked(t, c), X) BY <1>5 DEF ExistsBijection
<1>7. Cardinality(X) = Count(t, c) BY <1>4, <1>6, FS_Bijection DEF Count
<1>8. CASE CarriedBy(s[1]) = c
  <2>1. 1 \in Marked(s, c) BY <1>2, <1>8 DEF Marked
  <2>2. Cardinality(X) = Count(s, c) - 1 /\ Count(s, c) \in Nat
    BY <1>4, <2>1, FS_RemoveElement, CountNat DEF Count
  <2>3. QED BY <1>3, <1>7, <1>4, <1>8, <2>2 DEF Bit
<1>9. CASE CarriedBy(s[1]) # c
  <2>1. X = Marked(s, c) BY <1>9 DEF Marked
  <2>2. Count(s, c) = Count(t, c) BY <1>7, <2>1 DEF Count
  <2>3. QED BY <1>3, <1>4, <1>9, <2>2 DEF Bit
<1>10. QED BY <1>8, <1>9

(* One element replaced. *)
LEMMA CountReplaced ==
    ASSUME NEW S, NEW s \in Seq(S), NEW t \in Seq(S), NEW c, NEW i \in 1 .. Len(s),
           Len(t) = Len(s), \A j \in 1 .. Len(s) : j # i => t[j] = s[j]
    PROVE  Count(t, c) + Bit(CarriedBy(s[i]) = c) = Count(s, c) + Bit(CarriedBy(t[i]) = c)
<1> DEFINE Others == Marked(s, c) \ {i}
<1>1. Others = Marked(t, c) \ {i} BY DEF Marked
<1>2. IsFiniteSet(Marked(s, c)) /\ IsFiniteSet(Marked(t, c)) BY CountNat
<1>3. Count(s, c) \in Nat /\ Count(t, c) \in Nat BY CountNat
<1>4. \A X : IsFiniteSet(X) /\ i \in X => Cardinality(X \ {i}) = Cardinality(X) - 1
  BY FS_RemoveElement
<1>5. Count(s, c) = Cardinality(Others) + Bit(CarriedBy(s[i]) = c)
  <2>1. CASE CarriedBy(s[i]) = c
    <3>1. i \in Marked(s, c) BY <2>1 DEF Marked
    <3>2. Cardinality(Others) = Count(s, c) - 1 BY <1>2, <1>4, <3>1 DEF Count
    <3>3. QED BY <1>3, <2>1, <3>2 DEF Bit
  <2>2. CASE CarriedBy(s[i]) # c
    <3>1. Others = Marked(s, c) BY <2>2 DEF Marked
    <3>2. Cardinality(Others) = Count(s, c) BY <3>1 DEF Count
    <3>3. QED BY <1>3, <2>2, <3>2 DEF Bit
  <2>3. QED BY <2>1, <2>2
<1>6. Count(t, c) = Cardinality(Others) + Bit(CarriedBy(t[i]) = c)
  <2>1. CASE CarriedBy(t[i]) = c
    <3>1. i \in Marked(t, c) BY <2>1 DEF Marked
    <3>2. Cardinality(Others) = Count(t, c) - 1 BY <1>1, <1>2, <1>4, <3>1 DEF Count
    <3>3. QED BY <1>3, <2>1, <3>2 DEF Bit
  <2>2. CASE CarriedBy(t[i]) # c
    <3>1. Others = Marked(t, c) BY <1>1, <2>2 DEF Marked
    <3>2. Cardinality(Others) = Count(t, c) BY <3>1 DEF Count
    <3>3. QED BY <1>3, <2>2, <3>2 DEF Bit
  <2>3. QED BY <2>1, <2>2
<1>7. IsFiniteSet(Others) BY <1>2, FS_Subset
<1>8. Cardinality(Others) \in Nat BY <1>7, FS_CardinalityType
<1>9. QED BY <1>5, <1>6, <1>8 DEF Bit

-----------------------------------------------------------------------------
(* Stacks, contexts and replies.  What a microthread does next is in the place of the
   worker that has it and in its mode (Modes).  With the contexts they say which stack
   is whose (Stacks).  That only one call, and behind it only the interrupt_enter that
   interrupts it, is ever under way to the server (Pipeline), and that a call or its
   reply is in one place (AtMostOnce, Exact), depends on the client, which waits for
   each answer (Sync) and finds the answers in the order it needs them (ClientSees). *)

Pushed == [kind : {"push"}, level : Level, reply : Call]
Message == Call \cup Pushed
Types ==
    /\ TypeOK
    /\ toServer \in Seq(Message) /\ toClient \in Seq(Call)
    /\ level \in Level /\ frames \in [Level -> {"user", "calling"}]
    /\ pushAcked \in BOOLEAN

Starting == \E w \in Worker : pc[w] = "start"
Coding == \E w \in Worker : pc[w] = "run"
Returning == \E w \in Worker : pc[w] = "top"
OnStack == Starting \/ Coding \/ Blocking
EnterModes == {"enter", "interrupted", "entered"}

Finished == /\ mode = "done" /\ activeCall = Nothing
            /\ ~handlingInterruptedCall /\ ~continuationCallback
Waiting == mode = "call" /\ activeCall.kind = "call" /\ ~handlingInterruptedCall
Modes ==
    /\ Starting => /\ pendingCall # Nothing /\ activeCall = Nothing
                   /\ ~handlingInterruptedCall /\ mode \in {"done", "call"}
    /\ Coding => /\ mode = "call" => activeCall # Nothing
                 /\ mode \in {"popping", "done"} => activeCall = Nothing
                 /\ mode # "interrupted" => ~handlingInterruptedCall
    /\ Blocking => Waiting
    /\ OnStack => ~suspended /\ ~continuationCallback
    /\ suspended => Waiting \/ (mode = "interrupted" /\ ~continuationCallback)
    /\ ~suspended /\ ~OnStack => Finished
    /\ mode = "popping" => Coding
    /\ mode \in EnterModes => activeCall.kind = "enter"
    /\ activeCall.kind = "enter" => mode \in EnterModes \cup {"call"}

(* The context of an interrupt_enter exists before its call is active. *)
Taken == Starting /\ pendingCall.kind = "enter"
Entering == Taken \/ mode \in EnterModes
SavedTop == IF interrupts = <<>> THEN NoStack ELSE Top.savedStack
Own == IF handlingInterruptedCall THEN SavedTop ELSE stack
Stacks ==
    /\ stack # NoStack <=> (OnStack \/ Returning \/ (suspended /\ ~continuationCallback))
    /\ \A i \in 1 .. Len(interrupts) :
          interrupts[i].savedStack # NoStack => i = Len(interrupts) /\ Entering
    /\ allocated = {stack, SavedTop} \ {NoStack}
    /\ stack = SavedTop => stack = NoStack
    /\ OnStack => executing = Own
    /\ suspended /\ ~continuationCallback => resumeContext = Own
    /\ handlingInterruptedCall => SavedTop # NoStack /\ mode = "interrupted"
    /\ mode = "interrupted" => returnContext = stack /\ Top.interruptedCall # Nothing
    /\ (Taken \/ mode = "enter") /\ Top.interruptedCall # Nothing =>
          interruptedContinuation \/ (SavedTop = resumeContext /\ SavedTop # NoStack)
    /\ (Taken \/ mode = "enter") /\ interruptedContinuation => Top.interruptedCall # Nothing

Msgs(s) == {s[i] : i \in 1 .. Len(s)}
Has(s, k) == \E m \in Msgs(s) : m.kind = k
Requests(s) == {m \in Msgs(s) : m.kind # "push"}
Orderly(s) == \/ Len(s) <= 1
              \/ Len(s) = 2 /\ s[1].kind = "call" /\ s[2].kind = "enter"
              \/ Len(s) = 2 /\ s[1].kind = "enter" /\ s[2].kind = "push"

(* The level of the client's code as far as the calls that are done tell, and with
   the interrupt_enter that is on its way. *)
Depth == Len(interrupts) - Bit(mode = "popping") - Bit(Taken)
EnterComing == pendingCall.kind = "enter" \/ pendingInterrupts # <<>> \/ Has(toServer, "enter")
LevelSeen == Depth + Bit(EnterComing)

Fits(c, d) == c.level = d + Bit(c.kind = "enter") /\ (c.kind = "exit" => d > 0)
CallsOnly == activeCall.kind \in {"call", "none"} /\ pendingCall.kind \in {"call", "none"}
Nested == mode = "popping" \/ Taken \/ activeCall.kind = "enter" => interrupts # <<>>
Levels ==
    /\ activeCall # Nothing => activeCall.level = Depth /\ (activeCall.kind = "exit" => Depth > 0)
    /\ pendingCall # Nothing => Fits(pendingCall, Depth)
    /\ \A m \in Msgs(pendingInterrupts) : m.kind = "enter" /\ Fits(m, Depth)
    /\ \A m \in Requests(toServer) : Fits(m, Depth)
OneByOne ==
    /\ activeCall # Nothing /\ pendingCall # Nothing =>
          activeCall.kind = "call" /\ pendingCall.kind = "enter"
    /\ pendingInterrupts # <<>> =>
          /\ CallsOnly /\ Requests(toServer) = {} /\ Len(pendingInterrupts) = 1
          /\ pendingCall = Nothing => mode \in {"call", "done"}
    /\ Requests(toServer) # {} /\ (activeCall # Nothing \/ pendingCall # Nothing) =>
          CallsOnly /\ ~Has(toServer, "call") /\ ~Has(toServer, "exit")
    /\ Orderly(toServer)
Pipeline == Nested /\ Levels /\ OneByOne

CallAt(k) == [kind |-> "call", level |-> k]
EnterAt(k) == [kind |-> "enter", level |-> k]
ExitAt(k) == [kind |-> "exit", level |-> k]

(* A reply that is pushed back is the one of the call that was interrupted. *)
Pushes ==
    /\ pendingSavedReply # Nothing => /\ pendingSavedReply = CallAt(LevelSeen - 1)
                                      /\ pendingCall.kind = "enter" \/ mode = "enter"
    /\ ~dead => \A m \in Msgs(toServer) : m.kind = "push" =>
          /\ m.reply = CallAt(LevelSeen - 1)
          /\ mode = "popping" => pendingCall.kind = "enter" \/ Has(toServer, "enter")
          /\ activeCall.kind # "exit" /\ pendingCall.kind # "exit"

(* What a context keeps: the call it interrupts or its reply.  A reply that is pushed
   back while another context is on top goes there, with the level of that one. *)
InterruptedAt(i) ==
    /\ interrupts[i].interruptedCall \in {Nothing, CallAt(i - 1)}
    /\ interrupts[i].interruptedCall # Nothing =>
          i = Len(interrupts) /\ (Taken \/ mode \in {"enter", "interrupted"})
SavedAt(i) ==
    /\ interrupts[i].savedReply \in {Nothing, CallAt(i - 1), CallAt(i)}
    /\ i = Len(interrupts) /\ (Taken \/ activeCall.kind = "enter") =>
          interrupts[i].savedReply # CallAt(i)
Contexts == \A i \in 1 .. Len(interrupts) : InterruptedAt(i) /\ SavedAt(i)

AtMostOnce == \A c \in Call : Occurrences(c) <= 1

(* The release that is done, asked for, or about to be asked for by notifyDead. *)
Owed == releases + Bit(~dtapeThread) + Bit(dying = "release")
Releasing == /\ Owed <= Bit(terminating)
             /\ terminating => dead
             /\ dead => client = "killed"

Caller == level > 0 /\ frames[level - 1] = "calling"
ClientSees ==
    /\ client \in {"user", "calling", "entering", "pushing", "exiting", "killed"}
    /\ client \in {"entering", "pushing", "exiting"} => level > 0
    /\ client = "user" => toClient = <<>>
    /\ client = "calling" => toClient \in {<<>>, <<CallAt(level)>>}
    /\ client \in {"entering", "pushing"} =>
          \/ toClient \in {<<>>, <<EnterAt(level)>>}
          \/ Caller /\ toClient \in {<<CallAt(level - 1)>>, <<CallAt(level - 1), EnterAt(level)>>}
    /\ client = "exiting" =>
          \/ toClient \in {<<>>, <<ExitAt(level)>>}
          \/ Caller /\ toClient = <<ExitAt(level), CallAt(level - 1)>>

CallComing == activeCall.kind = "call" \/ pendingCall.kind = "call" \/ Has(toServer, "call")
Exact == \A c \in Call : Occurrences(c) = Bit(c \in Outstanding)
ExitReplied == client = "exiting" /\ toClient # <<>>
Sync ==
    /\ level = LevelSeen + Bit(ExitReplied)
    /\ Has(toServer, "push") <=> client = "pushing" /\ ~pushAcked
    /\ pushAcked => client = "pushing"
    /\ ExitReplied => ~CallComing
    /\ Has(toClient, "enter") => mode # "popping"
    /\ Exact

Protocol == /\ ClientSees
            /\ Ok => Pipeline /\ Pushes /\ Contexts /\ AtMostOnce
            /\ Ok /\ client # "killed" => Sync
Whole == HoldInv /\ Types /\ Modes /\ Stacks /\ Releasing /\ Protocol

(* Where the one worker that has the thread is. *)
LEMMA PlaceOf ==
    ASSUME HoldInv, NEW w \in Worker, pc[w] \in InPlay
    PROVE  /\ Starting <=> pc[w] = "start"
           /\ Coding <=> pc[w] = "run"
           /\ Blocking <=> pc[w] \in {"blocking", "suspending"}
           /\ Returning <=> pc[w] = "top"
<1>1. \A v \in Worker : v # w => pc[v] \notin InPlay
  BY InPlayAlone
<1>2. QED BY <1>1 DEF Starting, Coding, Blocking, Returning, InPlay

LEMMA PlaceNext ==
    ASSUME HoldInv, NEW w \in Worker, pc[w] \in InPlay, NEW x, pc' = [pc EXCEPT ![w] = x]
    PROVE  /\ Starting' <=> x = "start"
           /\ Coding' <=> x = "run"
           /\ Blocking' <=> x \in {"blocking", "suspending"}
           /\ Returning' <=> x = "top"
<1>1. \A v \in Worker : v # w => pc[v] \notin InPlay
  BY InPlayAlone
<1>2. pc'[w] = x /\ \A v \in Worker : v # w => pc'[v] = pc[v]
  BY DEF HoldInv, HoldType
<1>3. QED BY <1>1, <1>2 DEF Starting, Coding, Blocking, Returning, InPlay

(* A worker that comes or goes leaves the others where they are. *)
LEMMA PlaceElsewhere ==
    ASSUME HoldInv, NEW w \in Worker, pc[w] \in {"idle", "unlocking"},
           NEW x \in {"idle", "begin"}, pc' = [pc EXCEPT ![w] = x]
    PROVE  UNCHANGED <<Starting, Coding, Blocking, Returning>>
<1>1. pc'[w] = x /\ \A v \in Worker : v # w => pc'[v] = pc[v]
  BY DEF HoldInv, HoldType
<1>2. QED BY <1>1 DEF Starting, Coding, Blocking, Returning

-----------------------------------------------------------------------------
(* Messages of a sequence. *)
LEMMA MsgsEmpty == Msgs(<<>>) = {}
BY DEF Msgs

LEMMA MsgsAppend ==
    ASSUME NEW S, NEW s \in Seq(S), NEW e \in S
    PROVE  Msgs(Append(s, e)) = Msgs(s) \cup {e}
<1> DEFINE t == Append(s, e)
<1>1. /\ Len(t) = Len(s) + 1 /\ Len(s) \in Nat
      /\ \A j \in 1 .. Len(s) : t[j] = s[j]
      /\ t[Len(s) + 1] = e
  BY AppendProperties, LenProperties
<1> HIDE DEF t
<1>2. \A i \in 1 .. Len(t) : i \in 1 .. Len(s) \/ i = Len(s) + 1 BY <1>1
<1>3. \A i \in 1 .. Len(s) : i \in 1 .. Len(t) BY <1>1
<1>4. Len(s) + 1 \in 1 .. Len(t) BY <1>1
<1>5. Msgs(t) = Msgs(s) \cup {e}
  <2>1. ASSUME NEW x \in Msgs(t) PROVE x \in Msgs(s) \cup {e} BY <1>1, <1>2 DEF Msgs
  <2>2. ASSUME NEW x \in Msgs(s) PROVE x \in Msgs(t) BY <1>1, <1>3 DEF Msgs
  <2>3. e \in Msgs(t) BY <1>1, <1>4 DEF Msgs
  <2>4. QED BY <2>1, <2>2, <2>3
<1>6. QED BY <1>5 DEF t

LEMMA MsgsTail ==
    ASSUME NEW S, NEW s \in Seq(S), s # <<>>
    PROVE  /\ Msgs(s) = Msgs(Tail(s)) \cup {Head(s)}
           /\ Msgs(s) \subseteq S
<1> DEFINE t == Tail(s)
<1>1. /\ Len(t) = Len(s) - 1 /\ Len(s) \in Nat \ {0} /\ Head(s) = s[1]
      /\ \A i \in 1 .. Len(t) : t[i] = s[i + 1]
  BY HeadTailProperties, EmptySeq, LenProperties
<1> HIDE DEF t
<1>2. \A i \in 1 .. Len(s) : i = 1 \/ (i - 1 \in 1 .. Len(t) /\ s[i] = t[i - 1])
  <2>1. TAKE i \in 1 .. Len(s)
  <2>2. i = 1 \/ (i - 1 \in 1 .. Len(t) /\ (i - 1) + 1 = i) BY <1>1
  <2>3. QED BY <1>1, <2>2
<1>3. \A i \in 1 .. Len(t) : i + 1 \in 1 .. Len(s) BY <1>1
<1>4. 1 \in 1 .. Len(s) BY <1>1
<1>5. Msgs(s) = Msgs(t) \cup {Head(s)}
  <2>1. ASSUME NEW x \in Msgs(s) PROVE x \in Msgs(t) \cup {Head(s)} BY <1>1, <1>2 DEF Msgs
  <2>2. ASSUME NEW x \in Msgs(t) PROVE x \in Msgs(s) BY <1>1, <1>3 DEF Msgs
  <2>3. Head(s) \in Msgs(s) BY <1>1, <1>4 DEF Msgs
  <2>4. QED BY <2>1, <2>2, <2>3
<1>6. QED BY <1>5, ElementOfSeq DEF t, Msgs

LEMMA MsgsIn ==
    ASSUME NEW S, NEW s \in Seq(S)
    PROVE  /\ Msgs(s) \subseteq S
           /\ s = <<>> <=> Msgs(s) = {}
<1>1. Msgs(s) \subseteq S BY ElementOfSeq DEF Msgs
<1>2. CASE s = <<>> BY <1>1, <1>2, MsgsEmpty
<1>3. CASE s # <<>> BY <1>1, <1>3, MsgsTail
<1>4. QED BY <1>2, <1>3

(* A call of the sequence counts, and nothing else does. *)
LEMMA CountMsgs ==
    ASSUME NEW S, NEW s \in Seq(S), NEW c
    PROVE  /\ Count(s, c) \in Nat
           /\ Count(s, c) > 0 <=> \E m \in Msgs(s) : CarriedBy(m) = c
BY CountNat DEF Msgs

LEMMA CountEmpty == ASSUME NEW c PROVE Count(<<>>, c) = 0
<1>1. <<>> \in Seq({}) /\ Len(<<>>) = 0 BY EmptySeq
<1>2. Count(<<>>, c) = 0 <=> \A i \in 1 .. Len(<<>>) : CarriedBy(<<>>[i]) # c
  BY <1>1, CountNat
<1>3. QED BY <1>1, <1>2

LEMMA OrderlyTail ==
    ASSUME NEW s \in Seq(Message), s # <<>>, Orderly(s)
    PROVE  /\ Orderly(Tail(s))
           /\ \A m \in Msgs(Tail(s)) :
                 \/ Head(s).kind = "call" /\ m.kind = "enter"
                 \/ Head(s).kind = "enter" /\ m.kind = "push"
<1> DEFINE t == Tail(s)
<1>1. /\ Len(t) = Len(s) - 1 /\ Len(s) \in Nat \ {0} /\ Head(s) = s[1]
      /\ \A i \in 1 .. Len(t) : t[i] = s[i + 1]
  BY HeadTailProperties, EmptySeq, LenProperties
<1> HIDE DEF t
<1>2. Len(t) = 0 \/ Len(t) = 1 BY <1>1 DEF Orderly
<1>3. Orderly(t) BY <1>2 DEF Orderly
<1>4. ASSUME NEW i \in 1 .. Len(t)
      PROVE  \/ Head(s).kind = "call" /\ t[i].kind = "enter"
             \/ Head(s).kind = "enter" /\ t[i].kind = "push"
  <2>1. i = 1 /\ Len(s) = 2 BY <1>1, <1>2
  <2>2. t[i] = s[2] BY <1>1, <2>1
  <2>3. QED BY <1>1, <2>1, <2>2 DEF Orderly
<1>5. QED BY <1>3, <1>4 DEF t, Msgs

LEMMA OrderlyAppend ==
    ASSUME NEW s \in Seq(Message), Orderly(s), NEW e \in Message,
           \A m \in Msgs(s) : \/ m.kind = "call" /\ e.kind = "enter"
                              \/ m.kind = "enter" /\ e.kind = "push"
    PROVE  Orderly(Append(s, e))
<1> DEFINE t == Append(s, e)
<1>1. /\ Len(t) = Len(s) + 1 /\ Len(s) \in Nat
      /\ \A j \in 1 .. Len(s) : t[j] = s[j]
      /\ t[Len(s) + 1] = e
  BY AppendProperties, LenProperties
<1> HIDE DEF t
<1>2. \A j \in 1 .. Len(s) : s[j] \in Msgs(s) BY DEF Msgs
<1>3. Len(s) # 2
  <2>1. ASSUME Len(s) = 2 PROVE FALSE
    <3>1. s[1] \in Msgs(s) /\ s[2] \in Msgs(s) BY <1>2, <2>1
    <3>2. QED BY <2>1, <3>1 DEF Orderly
  <2>2. QED BY <2>1
<1>4. CASE Len(s) = 0
  <2>1. Len(t) <= 1 BY <1>1, <1>4
  <2>2. Orderly(t) BY <2>1 DEF Orderly
  <2>3. QED BY <2>2 DEF t
<1>5. CASE Len(s) = 1
  <2>1. s[1] \in Msgs(s) BY <1>2, <1>5
  <2>2. Len(t) = 2 /\ t[1] = s[1] /\ t[2] = e BY <1>1, <1>5
  <2>3. Orderly(t) BY <2>1, <2>2 DEF Orderly
  <2>4. QED BY <2>3 DEF t
<1>6. Len(s) <= 1 BY <1>3 DEF Orderly
<1>7. \A n \in Nat : n <= 1 => n = 0 \/ n = 1 OBVIOUS
<1>8. QED BY <1>1, <1>4, <1>5, <1>6, <1>7

-----------------------------------------------------------------------------
(* The places a call or its reply can be in. *)
Interrupted(s) == [i \in 1 .. Len(s) |-> s[i].interruptedCall]
SavedReplies(s) == [i \in 1 .. Len(s) |-> s[i].savedReply]

LEMMA OccurrencesSum ==
    ASSUME NEW c
    PROVE  Occurrences(c)
             = Count(toServer, c) + Count(toClient, c) + Count(pendingInterrupts, c)
               + Bit(pendingCall = c) + Bit(activeCall = c) + Bit(pendingSavedReply = c)
               + Count(Interrupted(interrupts), c) + Count(SavedReplies(interrupts), c)
BY DEF Occurrences, Count, Marked, Bit, Interrupted, SavedReplies

LEMMA CarriedCall == \A x \in CallOrNone : CarriedBy(x) = x
BY DEF CarriedBy, CallOrNone, Call, Nothing

LEMMA ContextSeqs ==
    ASSUME NEW s \in Seq(Context)
    PROVE  /\ Interrupted(s) \in Seq(CallOrNone) /\ Len(Interrupted(s)) = Len(s)
           /\ \A i \in 1 .. Len(s) : Interrupted(s)[i] = s[i].interruptedCall
           /\ SavedReplies(s) \in Seq(CallOrNone) /\ Len(SavedReplies(s)) = Len(s)
           /\ \A i \in 1 .. Len(s) : SavedReplies(s)[i] = s[i].savedReply
<1>1. Len(s) \in Nat /\ \A i \in 1 .. Len(s) : s[i] \in Context
  BY LenProperties, ElementOfSeq
<1>2. /\ Interrupted(s) \in [1 .. Len(s) -> CallOrNone]
      /\ SavedReplies(s) \in [1 .. Len(s) -> CallOrNone]
  BY <1>1 DEF Interrupted, SavedReplies, Context
<1>3. Interrupted(s) \in Seq(CallOrNone) /\ SavedReplies(s) \in Seq(CallOrNone)
  BY <1>1, <1>2, SeqDef
<1>4. /\ DOMAIN Interrupted(s) = 1 .. Len(s) /\ DOMAIN SavedReplies(s) = 1 .. Len(s)
      /\ \A i \in 1 .. Len(s) : /\ Interrupted(s)[i] = s[i].interruptedCall
                                /\ SavedReplies(s)[i] = s[i].savedReply
  BY DEF Interrupted, SavedReplies
<1>5. /\ Len(Interrupted(s)) \in Nat /\ DOMAIN Interrupted(s) = 1 .. Len(Interrupted(s))
      /\ Len(SavedReplies(s)) \in Nat /\ DOMAIN SavedReplies(s) = 1 .. Len(SavedReplies(s))
  BY <1>3, LenProperties
<1>6. \A m, n \in Nat : 1 .. m = 1 .. n => m = n
  <2>1. TAKE m, n \in Nat
  <2>2. HAVE 1 .. m = 1 .. n
  <2>3. ASSUME m < n PROVE FALSE
    <3>1. n \in 1 .. n /\ n \notin 1 .. m BY <2>3
    <3>2. QED BY <2>2, <3>1
  <2>4. ASSUME n < m PROVE FALSE
    <3>1. m \in 1 .. m /\ m \notin 1 .. n BY <2>4
    <3>2. QED BY <2>2, <3>1
  <2>5. QED BY <2>3, <2>4
<1>7. Len(Interrupted(s)) = Len(s) BY <1>1, <1>4, <1>5, <1>6
<1>8. Len(SavedReplies(s)) = Len(s) BY <1>1, <1>4, <1>5, <1>6
<1>9. QED BY <1>3, <1>4, <1>7, <1>8

(* The places of a call are counted in natural numbers. *)
LEMMA CountsAreNat ==
    ASSUME Types, NEW c
    PROVE  /\ Count(toServer, c) \in Nat /\ Count(toClient, c) \in Nat
           /\ Count(pendingInterrupts, c) \in Nat
           /\ Count(Interrupted(interrupts), c) \in Nat
           /\ Count(SavedReplies(interrupts), c) \in Nat
<1>1. /\ toServer \in Seq(Message) /\ toClient \in Seq(Call)
      /\ pendingInterrupts \in Seq(Call) /\ interrupts \in Seq(Context)
  BY DEF Types, TypeOK
<1>2. Interrupted(interrupts) \in Seq(CallOrNone) /\ SavedReplies(interrupts) \in Seq(CallOrNone)
  BY <1>1, ContextSeqs
<1>3. QED BY <1>1, <1>2, CountMsgs

(* A context on top of the others. *)
LEMMA CountPushed ==
    ASSUME NEW s \in Seq(Context), NEW t \in Seq(Context), NEW c,
           Len(t) = Len(s) + 1, \A j \in 1 .. Len(s) : t[j] = s[j]
    PROVE  /\ Count(Interrupted(t), c)
                = Count(Interrupted(s), c) + Bit(t[Len(t)].interruptedCall = c)
           /\ Count(SavedReplies(t), c)
                = Count(SavedReplies(s), c) + Bit(t[Len(t)].savedReply = c)
<1> DEFINE a == Interrupted(s)
           b == Interrupted(t)
           x == SavedReplies(s)
           y == SavedReplies(t)
<1>1. /\ a \in Seq(CallOrNone) /\ Len(a) = Len(s) /\ Len(s) \in Nat
      /\ x \in Seq(CallOrNone) /\ Len(x) = Len(s)
      /\ \A i \in 1 .. Len(s) : a[i] = s[i].interruptedCall /\ x[i] = s[i].savedReply
  BY ContextSeqs, LenProperties
<1>2. /\ b \in Seq(CallOrNone) /\ Len(b) = Len(t) /\ Len(t) \in Nat \ {0}
      /\ y \in Seq(CallOrNone) /\ Len(y) = Len(t)
      /\ \A i \in 1 .. Len(t) : b[i] = t[i].interruptedCall /\ y[i] = t[i].savedReply
  BY <1>1, ContextSeqs
<1> HIDE DEF a, b, x, y
<1>3. \A j \in 1 .. Len(s) : b[j] = a[j] /\ y[j] = x[j]
  <2>1. \A j \in 1 .. Len(s) : j \in 1 .. Len(t) BY <1>1, <1>2
  <2>2. QED BY <1>1, <1>2, <2>1
<1>4. /\ Count(b, c) = Count(a, c) + Bit(CarriedBy(b[Len(b)]) = c)
      /\ Count(y, c) = Count(x, c) + Bit(CarriedBy(y[Len(y)]) = c)
  <2>1. Len(b) = Len(a) + 1 /\ \A j \in 1 .. Len(a) : b[j] = a[j] BY <1>1, <1>2, <1>3
  <2>2. Len(y) = Len(x) + 1 /\ \A j \in 1 .. Len(x) : y[j] = x[j] BY <1>1, <1>2, <1>3
  <2>3. a \in Seq(CallOrNone) /\ b \in Seq(CallOrNone) BY <1>1, <1>2
  <2>4. x \in Seq(CallOrNone) /\ y \in Seq(CallOrNone) BY <1>1, <1>2
  <2>5. Count(b, c) = Count(a, c) + Bit(CarriedBy(b[Len(b)]) = c)
    BY <2>1, <2>3, CountExtended, SMTT(30)
  <2>6. Count(y, c) = Count(x, c) + Bit(CarriedBy(y[Len(y)]) = c)
    BY <2>2, <2>4, CountExtended, SMTT(30)
  <2>7. QED BY <2>5, <2>6
<1>5. Len(t) \in 1 .. Len(t) BY <1>2
<1>6. /\ b[Len(b)] = t[Len(t)].interruptedCall /\ b[Len(b)] \in CallOrNone
      /\ y[Len(y)] = t[Len(t)].savedReply /\ y[Len(y)] \in CallOrNone
  BY <1>2, <1>5, ElementOfSeq
<1>7. QED BY <1>4, <1>6, CarriedCall DEF a, b, x, y

(* The context on top changed. *)
LEMMA CountTopChanged ==
    ASSUME NEW s \in Seq(Context), NEW t \in Seq(Context), NEW c, s # <<>>,
           Len(t) = Len(s), \A j \in 1 .. Len(s) : j # Len(s) => t[j] = s[j]
    PROVE  /\ Count(Interrupted(t), c) + Bit(s[Len(s)].interruptedCall = c)
                = Count(Interrupted(s), c) + Bit(t[Len(s)].interruptedCall = c)
           /\ Count(SavedReplies(t), c) + Bit(s[Len(s)].savedReply = c)
                = Count(SavedReplies(s), c) + Bit(t[Len(s)].savedReply = c)
<1> DEFINE a == Interrupted(s)
           b == Interrupted(t)
           x == SavedReplies(s)
           y == SavedReplies(t)
<1>1. /\ a \in Seq(CallOrNone) /\ Len(a) = Len(s) /\ Len(s) \in Nat \ {0}
      /\ x \in Seq(CallOrNone) /\ Len(x) = Len(s)
      /\ \A i \in 1 .. Len(s) : a[i] = s[i].interruptedCall /\ x[i] = s[i].savedReply
  BY ContextSeqs, EmptySeq
<1>2. /\ b \in Seq(CallOrNone) /\ Len(b) = Len(s)
      /\ y \in Seq(CallOrNone) /\ Len(y) = Len(s)
      /\ \A i \in 1 .. Len(s) : b[i] = t[i].interruptedCall /\ y[i] = t[i].savedReply
  BY ContextSeqs
<1> HIDE DEF a, b, x, y
<1> DEFINE n == Len(s)
<1>3. \A j \in 1 .. n : j # n => b[j] = a[j] /\ y[j] = x[j] BY <1>1, <1>2
<1>4. n \in 1 .. n BY <1>1
<1>5. /\ Count(b, c) + Bit(CarriedBy(a[n]) = c) = Count(a, c) + Bit(CarriedBy(b[n]) = c)
      /\ Count(y, c) + Bit(CarriedBy(x[n]) = c) = Count(x, c) + Bit(CarriedBy(y[n]) = c)
  BY <1>1, <1>2, <1>3, <1>4, CountReplaced
<1>6. /\ a[n] = s[n].interruptedCall /\ a[n] \in CallOrNone
      /\ b[n] = t[n].interruptedCall /\ b[n] \in CallOrNone
      /\ x[n] = s[n].savedReply /\ x[n] \in CallOrNone
      /\ y[n] = t[n].savedReply /\ y[n] \in CallOrNone
  BY <1>1, <1>2, <1>4, ElementOfSeq
<1>7. QED BY <1>5, <1>6, CarriedCall DEF a, b, x, y

-----------------------------------------------------------------------------
(* Every variable keeps its type. *)
flowVars == <<pendingCall, activeCall, pendingInterrupts, interrupts, pendingSavedReply,
              mode, toServer, toClient, client, level, frames, pushAcked>>

LEMMA TopType == ASSUME NEW s \in Seq(Context), s # <<>>
                 PROVE  /\ Len(s) \in 1 .. Len(s) /\ Len(s) \in Nat \ {0}
                        /\ s[Len(s)] \in Context
BY EmptySeq, ElementOfSeq

LEMMA ClientTypes ==
    ASSUME Whole, ClientCall \/ ClientSignal \/ ClientExit \/ ClientStep \/ ClientKilled
    PROVE  Types'
<1>1. TypeOK'
  <2>1. TypeOK BY DEF Whole, Types
  <2>2. UNCHANGED ServerVars
    BY DEF ClientCall, ClientSignal, ClientExit, ClientStep, ClientKilled, ClientReceive,
           ClientPushReply, ClientPushed
  <2>3. QED
    BY <2>1, <2>2 DEF TypeOK, ServerVars, callVars, interruptVars, stackVars, lifeVars,
                      waitVars, impVars
<1>2. /\ toServer \in Seq(Message) /\ toClient \in Seq(Call) /\ level \in 0 .. MaxDepth
      /\ frames \in [0 .. MaxDepth -> {"user", "calling"}] /\ pushAcked \in BOOLEAN
      /\ MaxDepth \in Nat
  BY BoundsAssumption DEF Whole, Types, Level
<1>3. \A m \in Message : Append(toServer, m) \in Seq(Message) BY <1>2, AppendProperties
<1>4. toClient # <<>> => Tail(toClient) \in Seq(Call) /\ Head(toClient) \in Call
  BY <1>2, HeadTailProperties
<1>5. client = "exiting" => level > 0 BY DEF Whole, Protocol, ClientSees
<1>6. CASE ClientCall \/ ClientExit
  <2>1. /\ [kind |-> "call", level |-> level] \in Message
        /\ [kind |-> "exit", level |-> level] \in Message
    BY <1>2 DEF Message, Call, Level
  <2>2. toServer' \in Seq(Message) BY <1>3, <1>6, <2>1 DEF ClientCall, ClientExit
  <2>3. QED BY <1>1, <1>2, <1>6, <2>2 DEF ClientCall, ClientExit, Types, Level
<1>7. CASE ClientSignal
  <2>1. level + 1 \in 0 .. MaxDepth BY <1>2, <1>7 DEF ClientSignal
  <2>2. [kind |-> "enter", level |-> level + 1] \in Message BY <2>1 DEF Message, Call, Level
  <2>3. toServer' \in Seq(Message) BY <1>3, <1>7, <2>2 DEF ClientSignal
  <2>4. frames' \in [0 .. MaxDepth -> {"user", "calling"}] BY <1>2, <1>7 DEF ClientSignal
  <2>5. QED BY <1>1, <1>2, <1>7, <2>1, <2>3, <2>4 DEF ClientSignal, Types, Level
<1>8. CASE ClientReceive
  <2>1. level' \in 0 .. MaxDepth BY <1>2, <1>5, <1>8 DEF ClientReceive
  <2>2. toClient' \in Seq(Call) BY <1>4, <1>8 DEF ClientReceive
  <2>3. QED BY <1>1, <1>2, <1>8, <2>1, <2>2 DEF ClientReceive, Types, Level
<1>9. CASE ClientPushReply
  <2>1. toClient' \in Seq(Call) /\ Head(toClient) \in Call BY <1>4, <1>9 DEF ClientPushReply
  <2>2. [kind |-> "push", level |-> level, reply |-> Head(toClient)] \in Message
    BY <1>2, <2>1 DEF Message, Pushed, Level
  <2>3. toServer' \in Seq(Message) BY <1>3, <1>9, <2>2 DEF ClientPushReply
  <2>4. QED BY <1>1, <1>2, <1>9, <2>1, <2>3 DEF ClientPushReply, Types, Level
<1>10. CASE ClientPushed \/ ClientKilled
  BY <1>1, <1>2, <1>10 DEF ClientPushed, ClientKilled, Types, Level
<1>11. QED BY <1>6, <1>7, <1>8, <1>9, <1>10 DEF ClientStep

(* The context on top with other fields. *)
LEMMA TopUpdate ==
    ASSUME NEW s \in Seq(Context), s # <<>>, NEW e \in Context
    PROVE  /\ [s EXCEPT ![Len(s)] = e] \in Seq(Context)
           /\ Len([s EXCEPT ![Len(s)] = e]) = Len(s)
           /\ [s EXCEPT ![Len(s)] = e][Len(s)] = e
           /\ \A j \in 1 .. Len(s) : j # Len(s) => [s EXCEPT ![Len(s)] = e][j] = s[j]
BY TopType, ExceptSeq

LEMMA ButLast ==
    ASSUME NEW S, NEW s \in Seq(S), s # <<>>, NEW t, t = SubSeq(s, 1, Len(s) - 1)
    PROVE  /\ t \in Seq(S) /\ Len(s) = Len(t) + 1 /\ Len(t) = Len(s) - 1
           /\ \A i \in 1 .. Len(t) : t[i] = s[i] /\ i \in 1 .. Len(s)
<1> DEFINE n == Len(s) - 1
<1>1. n \in Nat /\ Len(s) = n + 1 /\ Len(s) \in Nat BY EmptySeq
<1>2. \A i \in 1 .. n : i \in 1 .. Len(s) BY <1>1
<1>3. \A i \in 1 .. n : s[i] \in S BY <1>2, ElementOfSeq
<1> HIDE DEF n
<1>4. /\ SubSeq(s, 1, n) \in Seq(S) /\ Len(SubSeq(s, 1, n)) = IF 1 <= n THEN n - 1 + 1 ELSE 0
      /\ \A i \in 1 .. n - 1 + 1 : SubSeq(s, 1, n)[i] = s[1 + i - 1]
  BY <1>1, <1>3, SubSeqProperties
<1>5. t = SubSeq(s, 1, n) BY DEF n
<1>6. Len(t) = n BY <1>1, <1>4, <1>5
<1>7. n - 1 + 1 = n /\ \A i \in 1 .. n : 1 + i - 1 = i BY <1>1
<1>8. \A i \in 1 .. n : t[i] = s[i] BY <1>4, <1>5, <1>7
<1>9. QED BY <1>1, <1>2, <1>4, <1>5, <1>6, <1>8 DEF n

LEMMA SavedTopUpdate ==
    ASSUME NEW s \in Seq(Context), s # <<>>, NEW r \in CallOrNone,
           NEW t, t = [s EXCEPT ![Len(s)].savedReply = r]
    PROVE  /\ t \in Seq(Context) /\ Len(t) = Len(s)
           /\ t[Len(s)] = [s[Len(s)] EXCEPT !.savedReply = r]
           /\ \A j \in 1 .. Len(s) : j # Len(s) => t[j] = s[j]
<1>1. s[Len(s)] \in Context BY TopType
<1>2. [s[Len(s)] EXCEPT !.savedReply = r] \in Context BY <1>1 DEF Context
<1>3. t = [s EXCEPT ![Len(s)] = [s[Len(s)] EXCEPT !.savedReply = r]] OBVIOUS
<1>4. QED BY <1>2, <1>3, TopUpdate

(* TypeOK in parts; the places of the workers and impersonators are in HoldType. *)
CallTypes == /\ pendingCall \in CallOrNone /\ activeCall \in CallOrNone
             /\ pendingSavedReply \in CallOrNone
             /\ pendingInterrupts \in Seq(Call) /\ interrupts \in Seq(Context)
FlagTypes == /\ suspended \in BOOLEAN /\ continuationCallback \in BOOLEAN
             /\ interruptedContinuation \in BOOLEAN /\ interruptedForSignal \in BOOLEAN
             /\ handlingInterruptedCall \in BOOLEAN
             /\ dead \in BOOLEAN /\ terminating \in BOOLEAN /\ dtapeThread \in BOOLEAN
             /\ dying \in {"no", "release", "resume", "cleared"}
ModeTypes == /\ deferralState \in {"NotDeferred", "DeferredNotPending", "DeferredPending"}
             /\ mode \in {"call", "popping", "done", "enter", "interrupted", "entered"}
             /\ waiting \in {"no", "locked", "unlocked"}
             /\ queueLock \in Worker \cup {Nobody} /\ unheard \in BOOLEAN
StackTypes == /\ stack \in MaybeStack /\ resumeContext \in MaybeStack
              /\ returnContext \in MaybeStack /\ executing \in MaybeStack
              /\ allocated \subseteq StackId
CountTypes == scheduled \in Nat /\ releases \in Nat /\ waits \in Nat /\ impersonations \in Nat
SentTypes == toServer \in Seq(Message) /\ toClient \in Seq(Call) /\ pushAcked \in BOOLEAN

LEMMA TypesInParts ==
    TypeOK <=> CallTypes /\ FlagTypes /\ ModeTypes /\ StackTypes /\ CountTypes /\ HoldType
<1>1. {stack, resumeContext, returnContext, executing} \subseteq MaybeStack
        <=> /\ stack \in MaybeStack /\ resumeContext \in MaybeStack
            /\ returnContext \in MaybeStack /\ executing \in MaybeStack
  OBVIOUS
<1>2. QED
  BY <1>1 DEF TypeOK, CallTypes, FlagTypes, ModeTypes, StackTypes, CountTypes, HoldType, Places

LEMMA ServerTypes ==
    ASSUME Types, HoldInv', (CallTypes /\ FlagTypes /\ ModeTypes /\ StackTypes)',
           (CountTypes /\ SentTypes)', UNCHANGED <<level, frames>>
    PROVE  Types'
<1>1. ({stack, resumeContext, returnContext, executing} \subseteq MaybeStack)'
  BY DEF StackTypes
<1>2. TypeOK'
  BY <1>1 DEF TypeOK, CallTypes, FlagTypes, ModeTypes, StackTypes, CountTypes, HoldInv,
              HoldType, Places
<1>3. QED BY <1>2 DEF Types, SentTypes

LEMMA WholeTypes ==
    ASSUME Whole
    PROVE  /\ CallTypes /\ FlagTypes /\ ModeTypes /\ StackTypes /\ CountTypes /\ HoldType
           /\ SentTypes /\ Types /\ HoldInv
BY TypesInParts DEF Whole, Types, SentTypes

LEMMA ReceiveTypes ==
    ASSUME Whole, ReceiveCall \/ ReceivePush \/ DeathStep \/ Release \/ Wake
    PROVE  Types'
<1>1. /\ CallTypes /\ FlagTypes /\ ModeTypes /\ StackTypes /\ CountTypes /\ SentTypes
      /\ Types /\ HoldInv'
  BY WholeTypes, ServerHold
<1>2. toServer # <<>> => Tail(toServer) \in Seq(Message) /\ Head(toServer) \in Message
  BY <1>1, HeadTailProperties DEF SentTypes
<1>3. \A m \in Message : /\ m.kind # "push" => m \in Call
                         /\ m.kind = "push" => m.reply \in Call
  BY DEF Message, Call, Pushed
<1>4. CASE ReceiveCall
  <2>1. Head(toServer) \in Call /\ toServer' \in Seq(Message)
    BY <1>2, <1>3, <1>4 DEF ReceiveCall, Receiving
  <2>2. Append(pendingInterrupts, Head(toServer)) \in Seq(Call)
    BY <1>1, <2>1, AppendProperties DEF CallTypes
  <2>3. pendingInterrupts' \in Seq(Call) /\ pendingCall' \in CallOrNone
    BY <1>1, <1>4, <2>1, <2>2 DEF ReceiveCall, CallTypes, CallOrNone
  <2>4. CallTypes' BY <1>1, <1>4, <2>3 DEF ReceiveCall, CallTypes, interruptVars
  <2>5. FlagTypes' BY <1>1, <1>4 DEF ReceiveCall, FlagTypes, interruptVars, lifeVars
  <2>6. ModeTypes' BY <1>1, <1>4 DEF ReceiveCall, ModeTypes, waitVars
  <2>7. StackTypes' BY <1>1, <1>4 DEF ReceiveCall, StackTypes, stackVars, interruptVars
  <2>8. CountTypes'
    <3>1. scheduled' = scheduled \/ scheduled' = scheduled + 1 BY <1>4 DEF ReceiveCall
    <3>2. UNCHANGED <<releases, waits, impersonations>>
      BY <1>4 DEF ReceiveCall, lifeVars, waitVars, impVars
    <3>3. QED BY <1>1, <3>1, <3>2 DEF CountTypes
  <2>9. SentTypes' BY <1>1, <1>4, <2>1 DEF ReceiveCall, SentTypes
  <2>10. QED
    BY <1>1, <1>4, <2>4, <2>5, <2>6, <2>7, <2>8, <2>9, ServerTypes DEF ReceiveCall
<1>5. CASE ReceivePush
  <2>1. /\ Head(toServer).reply \in Call /\ toServer' \in Seq(Message)
        /\ PushedReply(Head(toServer)) = Head(toServer).reply
    BY <1>2, <1>3, <1>5 DEF ReceivePush, Receiving, PushedReply
  <2>2. ASSUME interrupts # <<>>, SaveInTop(Head(toServer).reply)
        PROVE  interrupts' \in Seq(Context)
    <3>1. interrupts \in Seq(Context) /\ Head(toServer).reply \in CallOrNone
      BY <1>1, <2>1 DEF CallTypes, CallOrNone
    <3>2. QED BY <2>2, <3>1, SavedTopUpdate DEF SaveInTop
  <2>3. interrupts' \in Seq(Context) /\ pendingSavedReply' \in CallOrNone
    BY <1>1, <1>5, <2>1, <2>2 DEF ReceivePush, CallTypes, CallOrNone
  <2>4. CallTypes' BY <1>1, <1>5, <2>3 DEF ReceivePush, CallTypes, callVars
  <2>5. FlagTypes' BY <1>1, <1>5 DEF ReceivePush, FlagTypes, lifeVars
  <2>6. ModeTypes' BY <1>1, <1>5 DEF ReceivePush, ModeTypes, waitVars
  <2>7. StackTypes' BY <1>1, <1>5 DEF ReceivePush, StackTypes, stackVars
  <2>8. CountTypes'
    BY <1>1, <1>5 DEF ReceivePush, CountTypes, lifeVars, waitVars, impVars
  <2>9. SentTypes' BY <1>1, <1>5, <2>1 DEF ReceivePush, SentTypes
  <2>10. QED
    BY <1>1, <1>5, <2>4, <2>5, <2>6, <2>7, <2>8, <2>9, ServerTypes DEF ReceivePush
<1>6. CASE DeathStep
  <2>1. CallTypes'
    BY <1>1, <1>6 DEF DeathStep, NotifyDead, ThreadDying, ResumeDead, CallTypes, callVars,
                      interruptVars
  <2>2. FlagTypes'
    <3>1. CASE NotifyDead BY <1>1, <3>1 DEF NotifyDead, FlagTypes, interruptVars
    <3>2. CASE ThreadDying \/ ResumeDead
      BY <1>1, <3>2 DEF ThreadDying, ResumeDead, FlagTypes, interruptVars
    <3>3. QED BY <1>6, <3>1, <3>2 DEF DeathStep
  <2>3. ModeTypes'
    BY <1>1, <1>6 DEF DeathStep, NotifyDead, ThreadDying, ResumeDead, Resume, ModeTypes,
                      ClearWait, waitVars
  <2>4. StackTypes'
    BY <1>1, <1>6 DEF DeathStep, NotifyDead, ThreadDying, ResumeDead, StackTypes, stackVars,
                      interruptVars
  <2>5. CountTypes'
    BY <1>1, <1>6 DEF DeathStep, NotifyDead, ThreadDying, ResumeDead, Resume, CountTypes,
                      impVars, waitVars
  <2>6. SentTypes' /\ UNCHANGED <<level, frames>>
    BY <1>1, <1>6 DEF DeathStep, NotifyDead, ThreadDying, ResumeDead, SentTypes, clientVars
  <2>7. QED BY <1>1, <2>1, <2>2, <2>3, <2>4, <2>5, <2>6, ServerTypes
<1>7. CASE Release \/ Wake
  <2>1. CallTypes' BY <1>1, <1>7 DEF Release, Wake, CallTypes, callVars, interruptVars
  <2>2. FlagTypes' BY <1>1, <1>7 DEF Release, Wake, FlagTypes, interruptVars, lifeVars
  <2>3. ModeTypes' BY <1>1, <1>7 DEF Release, Wake, Resume, ModeTypes, waitVars
  <2>4. StackTypes' BY <1>1, <1>7 DEF Release, Wake, StackTypes, stackVars, interruptVars
  <2>5. CountTypes'
    <3>1. CASE Release
      <4>1. releases' = releases - 1 /\ releases > 0 BY <3>1 DEF Release
      <4>2. UNCHANGED <<scheduled, waits, impersonations>>
        BY <3>1 DEF Release, waitVars, impVars
      <4>3. QED BY <1>1, <4>1, <4>2 DEF CountTypes
    <3>2. CASE Wake BY <1>1, <3>2 DEF Wake, Resume, CountTypes, lifeVars, waitVars, impVars
    <3>3. QED BY <1>7, <3>1, <3>2
  <2>6. SentTypes' BY <1>1, <1>7 DEF Release, Wake, SentTypes, clientVars
  <2>7. QED
    BY <1>1, <1>7, <2>1, <2>2, <2>3, <2>4, <2>5, <2>6, ServerTypes
    DEF Release, Wake, clientVars
<1>8. QED BY <1>4, <1>5, <1>6, <1>7

LEMMA ImpersonatorTypes ==
    ASSUME Whole, NEW i \in Impersonator, Impersonate(i) \/ ImpersonatorStep(i)
    PROVE  Types'
<1> USE DEF Impersonate, ImpersonatorStep, ImpersonateWhenStopped, StopImpersonating
<1>1. /\ CallTypes /\ FlagTypes /\ ModeTypes /\ StackTypes /\ CountTypes /\ SentTypes
      /\ Types /\ HoldInv'
  BY WholeTypes, ImpersonatorHold
<1>2. CallTypes' BY <1>1 DEF CallTypes, callVars, interruptVars
<1>3. FlagTypes' BY <1>1 DEF FlagTypes, interruptVars, lifeVars
<1>4. ModeTypes' BY <1>1 DEF ModeTypes, waitVars
<1>5. StackTypes' BY <1>1 DEF StackTypes, stackVars, interruptVars
<1>6. CountTypes' BY <1>1 DEF CountTypes, lifeVars, waitVars
<1>7. SentTypes' /\ UNCHANGED <<level, frames>> BY <1>1 DEF SentTypes, clientVars
<1>8. QED BY <1>1, <1>2, <1>3, <1>4, <1>5, <1>6, <1>7, ServerTypes

(* doneWorking: the interrupt that waited, if any, is the pending call. *)
LEMMA DoneTypes ==
    ASSUME Whole, NEW w \in Worker, DoneWorking(w)
    PROVE  /\ pendingCall' \in CallOrNone /\ pendingInterrupts' \in Seq(Call)
           /\ terminating' \in BOOLEAN /\ releases' \in Nat /\ scheduled' \in Nat
<1>1. /\ pendingInterrupts \in Seq(Call) /\ pendingCall \in CallOrNone
      /\ scheduled \in Nat /\ releases \in Nat /\ terminating \in BOOLEAN
  BY WholeTypes DEF CallTypes, CountTypes, FlagTypes
<1>2. pendingInterrupts # <<>> => /\ Head(pendingInterrupts) \in Call
                                  /\ Tail(pendingInterrupts) \in Seq(Call)
  BY <1>1, HeadTailProperties
<1>3. pendingCall' \in CallOrNone /\ pendingInterrupts' \in Seq(Call)
  BY <1>1, <1>2 DEF DoneWorking, CallOrNone
<1>4. scheduled' = scheduled \/ scheduled' = scheduled + 1 BY DEF DoneWorking
<1>5. releases' = releases \/ releases' = releases + 1 BY DEF DoneWorking
<1>6. terminating' \in BOOLEAN BY <1>1 DEF DoneWorking
<1>7. releases' \in Nat /\ scheduled' \in Nat BY <1>1, <1>4, <1>5
<1>8. QED BY <1>3, <1>6, <1>7

LEMMA SchedulerTypes ==
    ASSUME Whole, NEW w \in Worker, SchedulerStep(w)
    PROVE  Types'
<1>1. /\ CallTypes /\ FlagTypes /\ ModeTypes /\ StackTypes /\ CountTypes /\ SentTypes
      /\ Types /\ HoldInv'
  BY WholeTypes, SchedulerHold
<1>2. CASE PickUp(w)
  <2>1. CallTypes' BY <1>1, <1>2 DEF PickUp, CallTypes, callVars, interruptVars
  <2>2. FlagTypes'
    <3>1. terminating' \in BOOLEAN
      BY <1>1, <1>2 DEF PickUp, PickUpDeferred, PickUpRunning, PickUpDead, PickUpToRun, FlagTypes
    <3>2. QED BY <1>1, <1>2, <3>1 DEF PickUp, FlagTypes, interruptVars
  <2>3. ModeTypes'
    BY <1>1, <1>2 DEF PickUp, PickUpDeferred, PickUpRunning, PickUpDead, PickUpToRun,
                      ModeTypes, waitVars
  <2>4. StackTypes' BY <1>1, <1>2 DEF PickUp, StackTypes, stackVars, interruptVars
  <2>5. CountTypes'
    <3>1. scheduled' = scheduled - 1 /\ scheduled > 0 BY <1>2 DEF PickUp
    <3>2. UNCHANGED <<releases, waits, impersonations>> BY <1>2 DEF PickUp, waitVars, impVars
    <3>3. QED BY <1>1, <3>1, <3>2 DEF CountTypes
  <2>6. SentTypes' /\ UNCHANGED <<level, frames>>
    BY <1>1, <1>2 DEF PickUp, SentTypes, clientVars
  <2>7. QED BY <1>1, <2>1, <2>2, <2>3, <2>4, <2>5, <2>6, ServerTypes
<1>3. CASE Begin(w)
  <2>1. /\ pendingCall' \in CallOrNone /\ pendingInterrupts' \in Seq(Call)
        /\ terminating' \in BOOLEAN /\ releases' \in Nat /\ scheduled' \in Nat
    <3>1. CASE BeginFindsNothing(w) BY <3>1, DoneTypes DEF BeginFindsNothing
    <3>2. CASE ~BeginFindsNothing(w)
      <4>1. UNCHANGED <<pendingCall, pendingInterrupts, terminating, releases, scheduled>>
        BY <1>3, <3>2 DEF Begin, BeginResumes, BeginStarts
      <4>2. QED BY <1>1, <4>1 DEF CallTypes, FlagTypes, CountTypes
    <3>3. QED BY <3>1, <3>2
  <2>2. CallTypes'
    <3>1. interrupts' \in Seq(Context)
      <4>1. [savedStack |-> stack, interruptedCall |-> activeCall, savedReply |-> Nothing]
              \in Context
        BY <1>1 DEF Context, CallTypes, StackTypes, CallOrNone
      <4>2. interrupts \in Seq(Context) BY <1>1 DEF CallTypes
      <4>3. \A x \in Context : Append(interrupts, x) \in Seq(Context)
        BY <4>2, AppendProperties
      <4>4. QED BY <1>3, <4>1, <4>2, <4>3 DEF Begin, EnterContext
    <3>2. activeCall' \in CallOrNone /\ pendingSavedReply' = pendingSavedReply
      BY <1>1, <1>3 DEF Begin, EnterContext, CallTypes, CallOrNone
    <3>3. QED BY <1>1, <2>1, <3>1, <3>2 DEF CallTypes
  <2>3. FlagTypes'
    <3>1. suspended' \in BOOLEAN /\ continuationCallback' \in BOOLEAN
      BY <1>1, <1>3 DEF Begin, BeginResumes, BeginStarts, BeginFindsNothing, ContinuationNow,
                        FlagTypes
    <3>2. /\ interruptedContinuation' \in BOOLEAN
          /\ UNCHANGED <<interruptedForSignal, handlingInterruptedCall>>
          /\ UNCHANGED <<dead, dying, dtapeThread>>
      BY <1>1, <1>3 DEF Begin, EnterContext, FlagTypes
    <3>3. QED BY <1>1, <2>1, <3>1, <3>2 DEF FlagTypes
  <2>4. ModeTypes' BY <1>1, <1>3 DEF Begin, ModeTypes, waitVars
  <2>5. StackTypes'
    <3>1. returnContext' = returnContext BY <1>3 DEF Begin, EnterContext
    <3>2. StackNow \in MaybeStack BY <1>1 DEF StackNow, StackTypes, MaybeStack
    <3>3. CASE UNCHANGED stackVars BY <1>1, <3>1, <3>3 DEF StackTypes, stackVars
    <3>4. CASE BeginResumes(w)
      BY <1>1, <3>1, <3>2, <3>4 DEF BeginResumes, StackTypes, MaybeStack
    <3>5. CASE BeginStarts(w)
      BY <1>1, <3>1, <3>2, <3>5 DEF BeginStarts, StackTypes, MaybeStack
    <3>6. QED BY <1>3, <3>3, <3>4, <3>5 DEF Begin, BeginFindsNothing
  <2>6. CountTypes' BY <1>1, <1>3, <2>1 DEF Begin, CountTypes, waitVars, impVars
  <2>7. SentTypes' /\ UNCHANGED <<level, frames>>
    BY <1>1, <1>3 DEF Begin, SentTypes, clientVars
  <2>8. QED BY <1>1, <2>2, <2>3, <2>4, <2>5, <2>6, <2>7, ServerTypes
<1>4. CASE StartCall(w)
  <2>1. CallTypes' BY <1>1, <1>4 DEF StartCall, CallTypes, CallOrNone, interruptVars
  <2>2. FlagTypes' BY <1>1, <1>4 DEF StartCall, FlagTypes, interruptVars, lifeVars
  <2>3. ModeTypes' BY <1>1, <1>4 DEF StartCall, ModeTypes, waitVars
  <2>4. StackTypes' BY <1>1, <1>4 DEF StartCall, StackTypes, stackVars, interruptVars
  <2>5. CountTypes' BY <1>1, <1>4 DEF StartCall, CountTypes, lifeVars, waitVars, impVars
  <2>6. SentTypes' /\ UNCHANGED <<level, frames>>
    BY <1>1, <1>4 DEF StartCall, SentTypes, clientVars
  <2>7. QED BY <1>1, <2>1, <2>2, <2>3, <2>4, <2>5, <2>6, ServerTypes
<1>5. CASE ReturnToTop(w)
  <2>1. /\ pendingCall' \in CallOrNone /\ pendingInterrupts' \in Seq(Call)
        /\ terminating' \in BOOLEAN /\ releases' \in Nat /\ scheduled' \in Nat
    BY <1>5, DoneTypes DEF ReturnToTop
  <2>2. CallTypes' BY <1>1, <1>5, <2>1 DEF ReturnToTop, CallTypes, interruptVars
  <2>3. FlagTypes' BY <1>1, <1>5, <2>1 DEF ReturnToTop, FlagTypes, interruptVars
  <2>4. ModeTypes' BY <1>1, <1>5 DEF ReturnToTop, ModeTypes, waitVars
  <2>5. StackTypes'
    BY <1>1, <1>5 DEF ReturnToTop, StackTypes, interruptVars, MaybeStack
  <2>6. CountTypes' BY <1>1, <1>5, <2>1 DEF ReturnToTop, CountTypes, waitVars, impVars
  <2>7. SentTypes' /\ UNCHANGED <<level, frames>>
    BY <1>1, <1>5 DEF ReturnToTop, SentTypes, clientVars
  <2>8. QED BY <1>1, <2>2, <2>3, <2>4, <2>5, <2>6, <2>7, ServerTypes
<1>6. CASE Unlock(w)
  <2>1. CallTypes' BY <1>1, <1>6 DEF Unlock, CallTypes, callVars, interruptVars
  <2>2. FlagTypes' BY <1>1, <1>6 DEF Unlock, FlagTypes, interruptVars, lifeVars
  <2>3. ModeTypes' BY <1>1, <1>6 DEF Unlock, ModeTypes
  <2>4. StackTypes' BY <1>1, <1>6 DEF Unlock, StackTypes, stackVars, interruptVars
  <2>5. CountTypes' BY <1>1, <1>6 DEF Unlock, CountTypes, lifeVars, impVars
  <2>6. SentTypes' /\ UNCHANGED <<level, frames>>
    BY <1>1, <1>6 DEF Unlock, SentTypes, clientVars
  <2>7. QED BY <1>1, <2>1, <2>2, <2>3, <2>4, <2>5, <2>6, ServerTypes
<1>7. QED BY <1>2, <1>3, <1>4, <1>5, <1>6 DEF SchedulerStep

(* The interrupt_enter that is handled has the context on top. *)
LEMMA HasContext ==
    ASSUME Whole, Ok, mode \in EnterModes \/ mode = "popping"
    PROVE  interrupts # <<>>
BY DEF Whole, Modes, Protocol, Pipeline, Nested

LEMMA CodeTypes ==
    ASSUME Whole, NEW w \in Worker, CodeStep(w) \/ SuspendLocked(w) \/ AssertWait(w)
    PROVE  Types'
<1>1. /\ CallTypes /\ FlagTypes /\ ModeTypes /\ StackTypes /\ CountTypes /\ SentTypes
      /\ Types /\ HoldInv' /\ HoldInv
  BY WholeTypes, CodeHold
<1>2. interrupts \in Seq(Context) /\ toClient \in Seq(Call) BY <1>1 DEF CallTypes, SentTypes
<1>3. /\ interrupts # <<>> => Top \in Context
      /\ \A e \in Context : interrupts # <<>> =>
            [interrupts EXCEPT ![Len(interrupts)] = e] \in Seq(Context)
  BY <1>2, TopType, TopUpdate DEF Top
<1>4. \A c \in Call : toClient \o <<c>> \in Seq(Call) /\ toClient \o <<>> \in Seq(Call)
  BY <1>2, ConcatProperties
<1>5. CASE \/ SuspendLocked(w) \/ AssertWait(w) \/ LookAtWait(w) \/ ThreadBlock(w)
           \/ FinishCall(w)
  <2> USE DEF SuspendLocked, AssertWait, LookAtWait, ThreadBlock, FinishCall
  <2>1. CallTypes' BY <1>1, <1>5 DEF CallTypes, callVars, interruptVars
  <2>2. FlagTypes'
    <3>1. UNCHANGED <<interruptVars, lifeVars>> BY <1>5
    <3>2. suspended' \in BOOLEAN /\ continuationCallback' \in BOOLEAN
      BY <1>1, <1>5 DEF FlagTypes
    <3>3. QED BY <1>1, <3>1, <3>2 DEF FlagTypes, interruptVars, lifeVars
  <2>3. ModeTypes' BY <1>1, <1>5 DEF ModeTypes, waitVars
  <2>4. StackTypes' BY <1>1, <1>5 DEF StackTypes, stackVars, interruptVars
  <2>5. CountTypes' BY <1>1, <1>5 DEF CountTypes, lifeVars, impVars, waitVars
  <2>6. SentTypes' /\ UNCHANGED <<level, frames>> BY <1>1, <1>5 DEF SentTypes, clientVars
  <2>7. QED BY <1>1, <2>1, <2>2, <2>3, <2>4, <2>5, <2>6, ServerTypes
<1>6. CASE Reply(w)
  <2>1. activeCall \in Call
    <3>1. pc[w] = "run" /\ mode = "call" BY <1>6 DEF Reply, At
    <3>2. activeCall # Nothing BY <3>1 DEF Whole, Modes, Coding
    <3>3. QED BY <1>1, <3>2 DEF CallTypes, CallOrNone
  <2>2. CallTypes' BY <1>1, <1>6 DEF Reply, CallTypes, CallOrNone, interruptVars
  <2>3. FlagTypes' BY <1>1, <1>6 DEF Reply, FlagTypes, interruptVars, lifeVars
  <2>4. ModeTypes' BY <1>1, <1>6 DEF Reply, ModeTypes, waitVars
  <2>5. StackTypes' BY <1>1, <1>6 DEF Reply, StackTypes, stackVars, interruptVars
  <2>6. CountTypes' BY <1>1, <1>6 DEF Reply, CountTypes, lifeVars, impVars, waitVars
  <2>7. toClient' \in Seq(Call) BY <1>4, <1>6, <2>1 DEF Reply, ReplyOut
  <2>8. SentTypes' /\ UNCHANGED <<level, frames>>
    BY <1>1, <1>6, <2>7 DEF Reply, SentTypes, clientVars
  <2>9. QED BY <1>1, <2>2, <2>3, <2>4, <2>5, <2>6, <2>8, ServerTypes
<1>7. CASE PopInterrupt(w)
  <2>1. /\ interrupts # <<>>
        /\ interrupts' = SubSeq(interrupts, 1, Len(interrupts) - 1)
        /\ toClient' = toClient \o SavedReplyOut
    BY <1>7, HasContext DEF PopInterrupt, At
  <2>2. interrupts' \in Seq(Context) BY <1>2, <2>1, ButLast
  <2>3. toClient' \in Seq(Call)
    <3>1. Top.savedReply \in CallOrNone BY <1>3, <2>1 DEF Context
    <3>2. SavedReplyOut = <<>> \/ (SavedReplyOut = <<Top.savedReply>> /\ Top.savedReply \in Call)
      BY <3>1 DEF SavedReplyOut, CallOrNone
    <3>3. toClient \o <<>> = toClient BY <1>2, ConcatEmptySeq
    <3>4. QED BY <1>2, <1>4, <2>1, <3>2, <3>3
  <2>4. CallTypes' BY <1>1, <1>7, <2>2 DEF PopInterrupt, CallTypes, callVars
  <2>5. FlagTypes' BY <1>1, <1>7 DEF PopInterrupt, FlagTypes, lifeVars
  <2>6. ModeTypes' BY <1>1, <1>7 DEF PopInterrupt, ModeTypes, waitVars
  <2>7. StackTypes' BY <1>1, <1>7 DEF PopInterrupt, StackTypes, stackVars
  <2>8. CountTypes' BY <1>1, <1>7 DEF PopInterrupt, CountTypes, lifeVars, impVars, waitVars
  <2>9. SentTypes' /\ UNCHANGED <<level, frames>>
    BY <1>1, <1>7, <2>3 DEF PopInterrupt, SentTypes, clientVars
  <2>10. QED BY <1>1, <2>4, <2>5, <2>6, <2>7, <2>8, <2>9, ServerTypes
<1>8. CASE EnterInterrupt(w)
  <2>1. interrupts # <<>> BY <1>8, HasContext DEF EnterInterrupt, At, EnterModes
  <2>2. ASSUME SaveInTop(pendingSavedReply) PROVE interrupts' \in Seq(Context)
    BY <1>1, <1>2, <2>1, <2>2, SavedTopUpdate DEF SaveInTop, CallTypes
  <2>3. interrupts' \in Seq(Context) BY <1>2, <1>8, <2>2 DEF EnterInterrupt
  <2>4. CallTypes' BY <1>1, <1>8, <2>3 DEF EnterInterrupt, CallTypes, CallOrNone, callVars
  <2>5. FlagTypes' BY <1>1, <1>8 DEF EnterInterrupt, FlagTypes, lifeVars
  <2>6. ModeTypes' BY <1>1, <1>8 DEF EnterInterrupt, ModeTypes, ClearWait
  <2>7. StackTypes' BY <1>1, <1>8 DEF EnterInterrupt, StackTypes
  <2>8. CountTypes' BY <1>1, <1>8 DEF EnterInterrupt, CountTypes, lifeVars, impVars
  <2>9. SentTypes' /\ UNCHANGED <<level, frames>>
    BY <1>1, <1>8 DEF EnterInterrupt, SentTypes, clientVars
  <2>10. QED BY <1>1, <2>4, <2>5, <2>6, <2>7, <2>8, <2>9, ServerTypes
<1>9. CASE ReplyInterrupted(w)
  <2>1. interrupts # <<>> BY <1>9, HasContext DEF ReplyInterrupted, At, EnterModes
  <2>2. [Top EXCEPT !.savedReply = Top.interruptedCall, !.interruptedCall = Nothing] \in Context
    BY <1>3, <2>1 DEF Context, CallOrNone
  <2>3. interrupts' = interrupts
        \/ interrupts' = [interrupts EXCEPT ![Len(interrupts)] =
               [Top EXCEPT !.savedReply = Top.interruptedCall, !.interruptedCall = Nothing]]
    BY <1>9 DEF ReplyInterrupted, Top
  <2>4. CallTypes'
    BY <1>1, <1>2, <1>3, <1>9, <2>1, <2>2, <2>3 DEF ReplyInterrupted, CallTypes, callVars
  <2>5. FlagTypes' BY <1>1, <1>9 DEF ReplyInterrupted, FlagTypes, lifeVars
  <2>6. ModeTypes' BY <1>1, <1>9 DEF ReplyInterrupted, ModeTypes, waitVars
  <2>7. StackTypes' BY <1>1, <1>9 DEF ReplyInterrupted, StackTypes
  <2>8. CountTypes' BY <1>1, <1>9 DEF ReplyInterrupted, CountTypes, lifeVars, impVars, waitVars
  <2>9. SentTypes' /\ UNCHANGED <<level, frames>>
    BY <1>1, <1>9 DEF ReplyInterrupted, SentTypes, clientVars
  <2>10. QED BY <1>1, <2>4, <2>5, <2>6, <2>7, <2>8, <2>9, ServerTypes
<1>10. CASE FinishEnter(w)
  <2>1. interrupts # <<>> BY <1>10, HasContext DEF FinishEnter, At, EnterModes
  <2>2. [Top EXCEPT !.savedStack = NoStack, !.interruptedCall = Nothing] \in Context
    BY <1>3, <2>1 DEF Context, CallOrNone, MaybeStack
  <2>3. interrupts' = [interrupts EXCEPT ![Len(interrupts)] =
               [Top EXCEPT !.savedStack = NoStack, !.interruptedCall = Nothing]]
    BY <1>10 DEF FinishEnter, Top
  <2>4. CallTypes'
    BY <1>1, <1>2, <1>3, <1>10, <2>1, <2>2, <2>3 DEF FinishEnter, CallTypes, callVars
  <2>5. FlagTypes' BY <1>1, <1>10 DEF FinishEnter, FlagTypes, lifeVars
  <2>6. ModeTypes' BY <1>1, <1>10 DEF FinishEnter, ModeTypes, waitVars
  <2>7. StackTypes' BY <1>1, <1>10 DEF FinishEnter, StackTypes
  <2>8. CountTypes' BY <1>1, <1>10 DEF FinishEnter, CountTypes, lifeVars, impVars, waitVars
  <2>9. SentTypes' /\ UNCHANGED <<level, frames>>
    BY <1>1, <1>10 DEF FinishEnter, SentTypes, clientVars
  <2>10. QED BY <1>1, <2>4, <2>5, <2>6, <2>7, <2>8, <2>9, ServerTypes
<1>11. QED BY <1>5, <1>6, <1>7, <1>8, <1>9, <1>10 DEF CodeStep

LEMMA TypesStep == ASSUME Whole, [Next]_vars PROVE Types'
<1>1. CASE Next
  BY <1>1, ClientTypes, ReceiveTypes, ImpersonatorTypes, SchedulerTypes, CodeTypes DEF Next
<1>2. CASE UNCHANGED vars
  <2>1. /\ CallTypes /\ FlagTypes /\ ModeTypes /\ StackTypes /\ CountTypes /\ SentTypes
        /\ Types /\ HoldInv'
    BY WholeTypes, HoldStep
  <2>2. /\ UNCHANGED <<callVars, interruptVars, stackVars, lifeVars, waitVars, impVars>>
        /\ UNCHANGED <<clientVars, toClient, suspended, deferralState, continuationCallback>>
        /\ UNCHANGED <<scheduled, mode>>
    BY <1>2 DEF vars
  <2>3. CallTypes' BY <2>1, <2>2 DEF CallTypes, callVars, interruptVars
  <2>4. FlagTypes' BY <2>1, <2>2 DEF FlagTypes, interruptVars, lifeVars
  <2>5. ModeTypes' BY <2>1, <2>2 DEF ModeTypes, waitVars
  <2>6. StackTypes' BY <2>1, <2>2 DEF StackTypes, stackVars, interruptVars
  <2>7. CountTypes' BY <2>1, <2>2 DEF CountTypes, lifeVars, impVars, waitVars
  <2>8. SentTypes' /\ UNCHANGED <<level, frames>> BY <2>1, <2>2 DEF SentTypes, clientVars
  <2>9. QED BY <2>1, <2>3, <2>4, <2>5, <2>6, <2>7, <2>8, ServerTypes
<1>3. QED BY <1>1, <1>2

-----------------------------------------------------------------------------
(* The place and the mode of the microthread.  Most steps leave them alone. *)
machineVars == <<activeCall, mode, suspended, continuationCallback, handlingInterruptedCall,
                 interruptedContinuation, returnContext, stack, resumeContext, allocated,
                 executing>>
Quiet == /\ UNCHANGED <<Starting, Coding, Blocking, Returning>>
         /\ UNCHANGED machineVars
         /\ Starting => pendingCall' = pendingCall

LEMMA SamePlaces == pc' = pc => UNCHANGED <<Starting, Coding, Blocking, Returning>>
BY DEF Starting, Coding, Blocking, Returning

LEMMA QuietSteps ==
    ASSUME Whole,
           \/ ClientCall \/ ClientSignal \/ ClientExit \/ ClientStep \/ ClientKilled
           \/ ReceiveCall \/ ReceivePush \/ NotifyDead \/ ResumeDead \/ Release \/ Wake
           \/ UNCHANGED vars
           \/ \E i \in Impersonator : Impersonate(i) \/ ImpersonatorStep(i)
           \/ \E w \in Worker : PickUp(w) \/ Unlock(w) \/ LookAtWait(w)
    PROVE  Quiet
<1>1. UNCHANGED machineVars
  <2> USE DEF machineVars, callVars, interruptVars, stackVars
  <2>1. CASE UNCHANGED ServerVars BY <2>1 DEF ServerVars
  <2>2. CASE ReceiveCall BY <2>2 DEF ReceiveCall
  <2>3. CASE ReceivePush BY <2>3 DEF ReceivePush
  <2>4. CASE NotifyDead \/ ResumeDead \/ Release \/ Wake
    BY <2>4 DEF NotifyDead, ResumeDead, Release, Wake
  <2>5. CASE UNCHANGED vars BY <2>5 DEF vars
  <2>6. CASE \E i \in Impersonator : Impersonate(i) \/ ImpersonatorStep(i)
    BY <2>6 DEF Impersonate, ImpersonatorStep, ImpersonateWhenStopped, StopImpersonating
  <2>7. CASE \E w \in Worker : PickUp(w) \/ Unlock(w) \/ LookAtWait(w)
    BY <2>7 DEF PickUp, Unlock, LookAtWait
  <2>8. QED
    BY <2>1, <2>2, <2>3, <2>4, <2>5, <2>6, <2>7
    DEF ClientCall, ClientSignal, ClientExit, ClientStep, ClientKilled, ClientReceive,
        ClientPushReply, ClientPushed
<1>2. UNCHANGED <<Starting, Coding, Blocking, Returning>>
  <2>1. CASE pc' = pc BY <2>1, SamePlaces
  <2>2. ASSUME NEW w \in Worker, PickUp(w) \/ Unlock(w) \/ LookAtWait(w)
        PROVE  UNCHANGED <<Starting, Coding, Blocking, Returning>>
    <3>1. CASE Unlock(w) BY <3>1, PlaceElsewhere, WholeTypes DEF Unlock, At
    <3>2. CASE PickUpToRun(w) /\ PickUp(w)
      BY <3>2, PlaceElsewhere, WholeTypes DEF PickUpToRun, PickUp, At
    <3>3. CASE LookAtWait(w)
      <4>1. pc[w] = "blocking" /\ pc' = [pc EXCEPT ![w] = "suspending"]
        BY <3>3 DEF LookAtWait, At
      <4>2. /\ ~Starting /\ ~Coding /\ Blocking /\ ~Returning
            /\ ~Starting' /\ ~Coding' /\ Blocking' /\ ~Returning'
        BY <4>1, PlaceOf, PlaceNext, WholeTypes DEF InPlay
      <4>3. QED BY <4>2 DEF Starting, Coding, Blocking, Returning
    <3>4. QED
      BY <2>1, <2>2, <3>1, <3>2, <3>3 DEF PickUp, PickUpDeferred, PickUpRunning, PickUpDead
  <2>3. QED
    BY <2>1, <2>2
    DEF ClientCall, ClientSignal, ClientExit, ClientStep, ClientKilled, ClientReceive,
        ClientPushReply, ClientPushed, ServerVars, ReceiveCall, ReceivePush, NotifyDead,
        ResumeDead, Release, Wake, vars, Impersonate, ImpersonatorStep, ImpersonateWhenStopped, StopImpersonating
<1>3. Starting => pendingCall' = pendingCall
  <2>1. Starting => pendingCall # Nothing BY DEF Whole, Modes
  <2>2. CASE ReceiveCall BY <2>1, <2>2 DEF ReceiveCall
  <2>3. CASE ~ReceiveCall
    BY <2>3
    DEF ClientCall, ClientSignal, ClientExit, ClientStep, ClientKilled, ClientReceive,
        ClientPushReply, ClientPushed, ServerVars, ReceivePush, NotifyDead, ResumeDead,
        Release, Wake, callVars, vars, Impersonate, ImpersonatorStep,
        ImpersonateWhenStopped, StopImpersonating, PickUp, Unlock, LookAtWait
  <2>4. QED BY <2>2, <2>3
<1>4. QED BY <1>1, <1>2, <1>3 DEF Quiet

LEMMA QuietModes == ASSUME Whole, Quiet PROVE Modes'
BY DEF Whole, Quiet, Modes, machineVars, OnStack, Finished, Waiting, EnterModes, Nothing

(* dtape_thread_dying may let a thread_block fall through. *)
LEMMA DeadPlaces ==
    ASSUME Whole, ThreadDying
    PROVE  /\ Starting' = Starting /\ Returning' = Returning /\ OnStack' = OnStack
           /\ Blocking' => Blocking
           /\ Coding => Coding'
           /\ Coding' => Coding \/ Blocking
<1>1. pc' = [w \in Worker |-> IF pc[w] = "blocking" THEN "run" ELSE pc[w]]
  BY DEF ThreadDying
<1>2. Starting' = Starting /\ Returning' = Returning BY <1>1 DEF Starting, Returning
<1>3. /\ Blocking' => Blocking
      /\ Coding => Coding'
      /\ Coding' => Coding \/ Blocking
      /\ Blocking => Blocking' \/ Coding'
  BY <1>1 DEF Coding, Blocking
<1>4. QED BY <1>2, <1>3 DEF OnStack

LEMMA DeadModes == ASSUME Whole, ThreadDying PROVE Modes'
<1>1. /\ Starting' = Starting /\ OnStack' = OnStack /\ (Blocking' => Blocking)
      /\ (Coding => Coding') /\ (Coding' => Coding \/ Blocking)
  BY DeadPlaces
<1>2. UNCHANGED <<activeCall, mode, suspended, continuationCallback,
                  handlingInterruptedCall, pendingCall>>
  BY DEF ThreadDying, callVars, interruptVars
<1>3. Blocking => Waiting BY DEF Whole, Modes
<1>4. Waiting => activeCall # Nothing BY DEF Waiting, Nothing
<1>5. QED
  BY <1>1, <1>2, <1>3, <1>4 DEF Whole, Modes, Finished, Waiting, EnterModes, Nothing

(* What doWork finds when it begins: a finished microthread or a suspended one. *)
LEMMA BeginFinds ==
    ASSUME Whole, NEW w \in Worker, At(w, "begin")
    PROVE  /\ ~OnStack /\ ~Returning /\ ~Taken
           /\ suspended => Waiting \/ (mode = "interrupted" /\ ~continuationCallback)
           /\ ~suspended => Finished
           /\ continuationCallback => suspended /\ Waiting
           /\ activeCall # Nothing /\ pendingCall # Nothing =>
                 activeCall.kind = "call" /\ pendingCall.kind = "enter"
           /\ mode = "interrupted" => activeCall.kind = "enter"
<1>1. pc[w] = "begin" /\ Ok BY DEF At
<1>2. ~Starting /\ ~Coding /\ ~Blocking /\ ~Returning
  BY <1>1, PlaceOf, WholeTypes DEF InPlay
<1>3. Modes /\ OneByOne BY <1>1 DEF Whole, Protocol, Pipeline
<1>4. QED BY <1>2, <1>3 DEF Modes, OneByOne, OnStack, Taken, Finished, EnterModes

(* A continuation never meets a pending call. *)
LEMMA BeginCases ==
    ASSUME Whole, NEW w \in Worker, Begin(w)
    PROVE  BeginResumes(w) \/ BeginStarts(w) \/ BeginFindsNothing(w)
<1>1. At(w, "begin") BY DEF Begin
<1>2. ~(ContinuationNow /\ pendingCall # Nothing)
  BY <1>1, BeginFinds DEF ContinuationNow, TakesInterrupt, Waiting, Nothing
<1>3. QED BY <1>2 DEF Begin

LEMMA ResumesModes ==
    ASSUME Whole, NEW w \in Worker, Begin(w), BeginResumes(w)
    PROVE  /\ ~TakesInterrupt /\ Modes' /\ UNCHANGED <<activeCall, interrupts>>
           /\ Coding' /\ ~Starting' /\ ~Blocking' /\ ~Returning'
<1>1. At(w, "begin") /\ pc[w] = "begin" BY DEF Begin, At
<1>2. ~TakesInterrupt
  <2>1. handlingInterruptedCall \/ pendingCall = Nothing BY DEF BeginResumes
  <2>2. QED BY <2>1 DEF TakesInterrupt, Nothing
<1>3. Coding' /\ ~Starting' /\ ~Blocking' /\ ~Returning'
  BY <1>1, PlaceNext, WholeTypes DEF BeginResumes, InPlay
<1>4. /\ UNCHANGED <<activeCall, interrupts, mode, handlingInterruptedCall, pendingCall>>
      /\ suspended /\ suspended' = FALSE /\ continuationCallback' = FALSE
  BY <1>2 DEF Begin, BeginResumes, EnterContext
<1>5. Waiting \/ (mode = "interrupted" /\ activeCall.kind = "enter")
  BY <1>1, <1>4, BeginFinds
<1>6. Modes'
  BY <1>3, <1>4, <1>5 DEF Modes, OnStack, Waiting, EnterModes, Nothing
<1>7. QED BY <1>2, <1>3, <1>4, <1>6

(* A call starts on a finished microthread, or an interrupt_enter on a waiting one. *)
LEMMA StartsModes ==
    ASSUME Whole, NEW w \in Worker, Begin(w), BeginStarts(w)
    PROVE  /\ ~handlingInterruptedCall /\ mode \in {"done", "call"} /\ Modes'
           /\ TakesInterrupt <=> pendingCall.kind = "enter"
           /\ ~TakesInterrupt => Finished /\ ~suspended
           /\ Starting' /\ ~Coding' /\ ~Blocking' /\ ~Returning'
           /\ pendingCall' = pendingCall /\ pendingCall # Nothing /\ activeCall' = Nothing
<1>1. At(w, "begin") /\ pc[w] = "begin" BY DEF Begin, At
<1>2. pendingCall # Nothing /\ ~(suspended /\ handlingInterruptedCall) BY DEF BeginStarts
<1>3. Starting' /\ ~Coding' /\ ~Blocking' /\ ~Returning'
  BY <1>1, PlaceNext, WholeTypes DEF BeginStarts, InPlay
<1>4. ~handlingInterruptedCall BY <1>1, <1>2, BeginFinds DEF Finished
<1>5. TakesInterrupt <=> pendingCall.kind = "enter" BY <1>4 DEF TakesInterrupt
<1>6. ~(mode = "interrupted")
  BY <1>1, <1>2, BeginFinds DEF Nothing
<1>7. mode \in {"done", "call"} BY <1>1, <1>6, BeginFinds DEF Finished, Waiting
<1>8. ~TakesInterrupt => Finished /\ ~suspended
  BY <1>1, <1>2, <1>5, <1>6, BeginFinds DEF Waiting, Nothing
<1>9. activeCall' = Nothing /\ continuationCallback' = FALSE
  BY <1>8 DEF Begin, BeginStarts, EnterContext, ContinuationNow, Finished
<1>10. /\ UNCHANGED <<mode, pendingCall, handlingInterruptedCall>> /\ suspended' = FALSE
  BY DEF Begin, BeginStarts, EnterContext
<1>11. Modes'
  BY <1>2, <1>3, <1>4, <1>7, <1>9, <1>10 DEF Modes, OnStack, EnterModes, Nothing
<1>12. QED BY <1>2, <1>3, <1>4, <1>5, <1>7, <1>8, <1>9, <1>10, <1>11

LEMMA LeavesModes ==
    ASSUME Whole, NEW w \in Worker,
           (Begin(w) /\ BeginFindsNothing(w)) \/ ReturnToTop(w)
    PROVE  /\ Modes' /\ ~OnStack /\ ~OnStack' /\ ~Starting' /\ ~Returning'
           /\ UNCHANGED <<activeCall, mode, suspended, continuationCallback,
                          handlingInterruptedCall, interrupts, interruptedContinuation,
                          resumeContext, returnContext, executing>>
<1>1. pc[w] \in {"begin", "top"} /\ pc[w] \in InPlay BY DEF Begin, ReturnToTop, At, InPlay
<1>2. ~Starting /\ ~Coding /\ ~Blocking BY <1>1, PlaceOf, WholeTypes
<1>3. ~Starting' /\ ~Coding' /\ ~Blocking' /\ ~Returning'
  <2>1. PICK x \in {"idle", "unlocking"} : pc' = [pc EXCEPT ![w] = x]
    BY DEF BeginFindsNothing, ReturnToTop, DoneWorking
  <2>2. QED BY <1>1, <2>1, PlaceNext, WholeTypes
<1>4. UNCHANGED <<activeCall, mode, suspended, continuationCallback, handlingInterruptedCall,
                  interrupts, interruptedContinuation, resumeContext, returnContext,
                  executing>>
  <2>1. CASE ReturnToTop(w) BY <2>1 DEF ReturnToTop, interruptVars
  <2>2. CASE Begin(w) /\ BeginFindsNothing(w)
    <3>1. ~TakesInterrupt BY <2>2 DEF BeginFindsNothing, TakesInterrupt, Nothing
    <3>2. QED BY <2>2, <3>1 DEF Begin, BeginFindsNothing, EnterContext, stackVars
  <2>3. QED BY <2>1, <2>2
<1>5. Modes'
  BY <1>2, <1>3, <1>4 DEF Whole, Modes, OnStack, Finished, Waiting, EnterModes, Nothing
<1>6. QED BY <1>2, <1>3, <1>4, <1>5 DEF OnStack

LEMMA StartCallModes ==
    ASSUME Whole, NEW w \in Worker, StartCall(w)
    PROVE  /\ Modes' /\ Starting /\ Coding' /\ ~Starting' /\ ~Blocking' /\ ~Returning'
<1>1. pc[w] = "start" BY DEF StartCall, At
<1>2. Starting /\ ~Coding /\ ~Blocking BY <1>1, PlaceOf, WholeTypes DEF InPlay
<1>3. ~Starting' /\ Coding' /\ ~Blocking' /\ ~Returning'
  BY <1>1, PlaceNext, WholeTypes DEF StartCall, InPlay
<1>4. /\ pendingCall # Nothing /\ activeCall = Nothing /\ ~handlingInterruptedCall
      /\ ~suspended /\ ~continuationCallback
  BY <1>2 DEF Whole, Modes, OnStack
<1>5. /\ activeCall' = pendingCall
      /\ mode' = IF pendingCall.kind = "enter" THEN "enter" ELSE "call"
      /\ UNCHANGED <<suspended, continuationCallback, handlingInterruptedCall>>
  BY DEF StartCall, interruptVars
<1>6. Modes' BY <1>3, <1>4, <1>5 DEF Modes, OnStack, EnterModes, Nothing
<1>7. QED BY <1>2, <1>3, <1>6

LEMMA WaitModes ==
    ASSUME Whole, NEW w \in Worker,
           SuspendLocked(w) \/ AssertWait(w) \/ ThreadBlock(w) \/ FinishCall(w)
    PROVE  /\ Modes' /\ OnStack /\ ~Starting /\ ~Starting'
           /\ AssertWait(w) => OnStack'
           /\ ~AssertWait(w) => Returning' /\ ~OnStack'
           /\ ~FinishCall(w) /\ ~AssertWait(w) => suspended'
           /\ AssertWait(w) \/ FinishCall(w) => ~suspended'
<1>1. pc[w] \in {"run", "suspending"} /\ pc[w] \in InPlay
  BY DEF SuspendLocked, AssertWait, ThreadBlock, FinishCall, At, InPlay
<1>2. /\ Coding <=> pc[w] = "run"
      /\ Blocking <=> pc[w] = "suspending"
      /\ ~Starting /\ ~Returning
  BY <1>1, PlaceOf, WholeTypes
<1>3. ~suspended /\ ~continuationCallback /\ OnStack
  BY <1>1, <1>2 DEF Whole, Modes, OnStack
<1>4. UNCHANGED <<activeCall, mode, handlingInterruptedCall>>
  BY DEF SuspendLocked, AssertWait, ThreadBlock, FinishCall, callVars, interruptVars
<1>5. CASE SuspendLocked(w)
  <2>1. ~Starting' /\ ~Coding' /\ ~Blocking' /\ Returning'
    BY <1>1, <1>5, PlaceNext, WholeTypes DEF SuspendLocked
  <2>2. Coding /\ suspended' = TRUE /\ continuationCallback' = continuationCallback
    BY <1>2, <1>5 DEF SuspendLocked, At
  <2>3. (mode = "call" /\ activeCall.kind = "call") \/ mode = "interrupted"
    BY <1>5 DEF SuspendLocked, MayWait
  <2>4. mode # "interrupted" => Waiting BY <2>2, <2>3 DEF Whole, Modes, Waiting
  <2>5. Modes'
    BY <1>3, <1>4, <2>1, <2>2, <2>3, <2>4 DEF Whole, Modes, OnStack, Waiting, EnterModes
  <2>6. ~AssertWait(w) /\ ~FinishCall(w)
    BY <1>1, <1>5, <2>1, PlaceNext, WholeTypes, <1>2, <2>3 DEF AssertWait, FinishCall
  <2>7. QED BY <1>2, <1>3, <2>1, <2>2, <2>5, <2>6 DEF OnStack
<1>6. CASE AssertWait(w)
  <2>1. ~Starting' /\ ~Coding' /\ Blocking' /\ ~Returning'
    BY <1>1, <1>6, PlaceNext, WholeTypes DEF AssertWait
  <2>2. Coding /\ UNCHANGED <<suspended, continuationCallback>>
    BY <1>2, <1>6 DEF AssertWait, At
  <2>3. mode = "call" /\ activeCall.kind = "call" BY <1>6 DEF AssertWait, MayWait
  <2>4. Waiting BY <2>2, <2>3 DEF Whole, Modes, Waiting
  <2>5. Modes'
    BY <1>3, <1>4, <2>1, <2>2, <2>3, <2>4 DEF Whole, Modes, OnStack, Waiting, EnterModes
  <2>6. QED BY <1>2, <1>3, <1>6, <2>1, <2>2, <2>5 DEF OnStack
<1>7. CASE ThreadBlock(w)
  <2>1. ~Starting' /\ ~Coding' /\ ~Blocking' /\ Returning'
    BY <1>1, <1>7, PlaceNext, WholeTypes DEF ThreadBlock
  <2>2. Blocking /\ suspended' = TRUE BY <1>2, <1>7 DEF ThreadBlock, At
  <2>3. Waiting BY <2>2 DEF Whole, Modes
  <2>4. Modes' BY <1>4, <2>1, <2>2, <2>3 DEF Whole, Modes, OnStack, Waiting, EnterModes
  <2>5. ~AssertWait(w) /\ ~FinishCall(w)
    BY <1>7 DEF ThreadBlock, AssertWait, FinishCall, At
  <2>6. QED BY <1>2, <1>3, <2>1, <2>2, <2>4, <2>5 DEF OnStack
<1>8. CASE FinishCall(w)
  <2>1. ~Starting' /\ ~Coding' /\ ~Blocking' /\ Returning'
    BY <1>1, <1>8, PlaceNext, WholeTypes DEF FinishCall
  <2>2. Coding /\ mode = "done" /\ UNCHANGED <<suspended, continuationCallback>>
    BY <1>2, <1>8 DEF FinishCall, At
  <2>3. Finished BY <1>3, <2>2 DEF Whole, Modes, Finished
  <2>4. Modes'
    BY <1>3, <1>4, <2>1, <2>2, <2>3 DEF Whole, Modes, OnStack, Finished, EnterModes, Nothing
  <2>5. ~AssertWait(w) BY <2>2 DEF AssertWait
  <2>6. QED BY <1>2, <1>3, <1>8, <2>1, <2>2, <2>4, <2>5 DEF OnStack
<1>9. QED BY <1>5, <1>6, <1>7, <1>8

(* The steps of the code that stay on the stack. *)
LEMMA CodePlaces ==
    ASSUME Whole, NEW w \in Worker,
           \/ Reply(w) \/ PopInterrupt(w)
           \/ EnterInterrupt(w) \/ ReplyInterrupted(w) \/ FinishEnter(w)
    PROVE  /\ Coding /\ ~Starting /\ ~Blocking /\ ~Returning /\ Ok
           /\ Coding' /\ ~Starting' /\ ~Blocking' /\ ~Returning'
           /\ ~suspended /\ ~continuationCallback
           /\ UNCHANGED <<suspended, continuationCallback, pendingCall, pendingInterrupts>>
           /\ mode # "interrupted" => ~handlingInterruptedCall
<1>1. pc[w] = "run" /\ pc' = pc /\ Ok
  BY DEF Reply, PopInterrupt, EnterInterrupt, ReplyInterrupted, FinishEnter, At
<1>2. Coding /\ ~Starting /\ ~Blocking /\ ~Returning
  BY <1>1, PlaceOf, WholeTypes DEF InPlay
<1>3. UNCHANGED <<Starting, Coding, Blocking, Returning>> BY <1>1, SamePlaces
<1>4. /\ ~suspended /\ ~continuationCallback
      /\ mode # "interrupted" => ~handlingInterruptedCall
  BY <1>2 DEF Whole, Modes, OnStack
<1>5. UNCHANGED <<suspended, continuationCallback, pendingCall, pendingInterrupts>>
  BY DEF Reply, PopInterrupt, EnterInterrupt, ReplyInterrupted, FinishEnter, callVars
<1>6. QED BY <1>1, <1>2, <1>3, <1>4, <1>5

LEMMA CodeModes ==
    ASSUME Whole, NEW w \in Worker,
           \/ Reply(w) \/ PopInterrupt(w)
           \/ EnterInterrupt(w) \/ ReplyInterrupted(w) \/ FinishEnter(w)
    PROVE  Modes'
<1>1. /\ Coding /\ Coding' /\ ~Starting' /\ ~Blocking' /\ ~suspended' /\ ~continuationCallback'
      /\ mode # "interrupted" => ~handlingInterruptedCall
  BY CodePlaces
<1>2. /\ mode \in {"popping", "done"} => activeCall = Nothing
      /\ mode \in EnterModes => activeCall.kind = "enter"
      /\ activeCall.kind = "enter" => mode \in EnterModes \cup {"call"}
  BY <1>1 DEF Whole, Modes
<1>3. CASE Reply(w)
  <2>1. /\ activeCall' = Nothing /\ mode' \in {"popping", "done"} /\ mode = "call"
        /\ UNCHANGED handlingInterruptedCall
    BY <1>3 DEF Reply, interruptVars
  <2>2. QED BY <1>1, <2>1 DEF Modes, OnStack, EnterModes, Nothing
<1>4. CASE PopInterrupt(w)
  <2>1. /\ mode = "popping" /\ mode' = "done" /\ UNCHANGED <<activeCall, handlingInterruptedCall>>
    BY <1>4 DEF PopInterrupt, callVars
  <2>2. QED BY <1>1, <1>2, <2>1 DEF Modes, OnStack, EnterModes, Nothing
<1>5. CASE EnterInterrupt(w)
  <2>1. /\ mode = "enter" /\ mode' \in {"interrupted", "entered"} /\ UNCHANGED activeCall
        /\ mode' # "interrupted" => UNCHANGED handlingInterruptedCall
    BY <1>5 DEF EnterInterrupt, callVars
  <2>2. QED BY <1>1, <1>2, <2>1 DEF Modes, OnStack, EnterModes, Nothing
<1>6. CASE ReplyInterrupted(w)
  <2>1. /\ mode = "interrupted" /\ mode' = "entered" /\ UNCHANGED activeCall
        /\ handlingInterruptedCall' = FALSE
    BY <1>6 DEF ReplyInterrupted, callVars
  <2>2. QED BY <1>1, <1>2, <2>1 DEF Modes, OnStack, EnterModes, Nothing
<1>7. CASE FinishEnter(w)
  <2>1. /\ mode = "entered" /\ mode' = "call" /\ UNCHANGED <<activeCall, handlingInterruptedCall>>
    BY <1>7 DEF FinishEnter, callVars
  <2>2. QED BY <1>1, <1>2, <2>1 DEF Modes, OnStack, EnterModes, Nothing
<1>8. QED BY <1>3, <1>4, <1>5, <1>6, <1>7

LEMMA ModesStep == ASSUME Whole, [Next]_vars PROVE Modes'
<1>1. ASSUME NEW w \in Worker, SchedulerStep(w) PROVE Modes'
  <2>1. CASE PickUp(w) \/ Unlock(w) BY <1>1, <2>1, QuietSteps, QuietModes
  <2>2. CASE Begin(w) BY <2>2, BeginCases, ResumesModes, StartsModes, LeavesModes
  <2>3. CASE StartCall(w) BY <2>3, StartCallModes
  <2>4. CASE ReturnToTop(w) BY <2>4, LeavesModes
  <2>5. QED BY <1>1, <2>1, <2>2, <2>3, <2>4 DEF SchedulerStep
<1>2. ASSUME NEW w \in Worker, CodeStep(w) \/ SuspendLocked(w) \/ AssertWait(w) PROVE Modes'
  <2>1. CASE LookAtWait(w) BY <1>2, <2>1, QuietSteps, QuietModes
  <2>2. QED BY <1>2, <2>1, WaitModes, CodeModes DEF CodeStep
<1>3. CASE ThreadDying BY <1>3, DeadModes
<1>4. QED BY <1>1, <1>2, <1>3, QuietSteps, QuietModes DEF Next, DeathStep

-----------------------------------------------------------------------------
(* Which stack is whose. *)

(* A step may change the saved reply of the context on top. *)
SameSaved == \/ interrupts' = interrupts
             \/ /\ interrupts # <<>> /\ Len(interrupts') = Len(interrupts)
                /\ \A i \in 1 .. Len(interrupts) :
                      /\ interrupts'[i].savedStack = interrupts[i].savedStack
                      /\ interrupts'[i].interruptedCall = interrupts[i].interruptedCall

LEMMA SavedReplyOnly ==
    ASSUME Types, interrupts # <<>>, NEW r \in CallOrNone, SaveInTop(r)
    PROVE  SameSaved
<1>1. interrupts \in Seq(Context) BY DEF Types, TypeOK
<1>2. /\ Len(interrupts') = Len(interrupts)
      /\ interrupts'[Len(interrupts)] = [interrupts[Len(interrupts)] EXCEPT !.savedReply = r]
      /\ \A j \in 1 .. Len(interrupts) : j # Len(interrupts) => interrupts'[j] = interrupts[j]
  BY <1>1, SavedTopUpdate DEF SaveInTop
<1>3. interrupts[Len(interrupts)] \in Context BY <1>1, TopType
<1>4. /\ interrupts'[Len(interrupts)].savedStack = interrupts[Len(interrupts)].savedStack
      /\ interrupts'[Len(interrupts)].interruptedCall
           = interrupts[Len(interrupts)].interruptedCall
  BY <1>2, <1>3 DEF Context
<1>5. QED BY <1>2, <1>4 DEF SameSaved

LEMMA SameSavedFacts ==
    ASSUME Types, Types', SameSaved
    PROVE  /\ Len(interrupts') = Len(interrupts)
           /\ SavedTop' = SavedTop /\ Top'.interruptedCall = Top.interruptedCall
           /\ \A i \in 1 .. Len(interrupts) :
                 interrupts'[i].savedStack = interrupts[i].savedStack
<1>1. CASE interrupts' = interrupts BY <1>1 DEF SavedTop, Top
<1>2. CASE interrupts' # interrupts
  <2>1. /\ interrupts # <<>> /\ Len(interrupts') = Len(interrupts)
        /\ \A i \in 1 .. Len(interrupts) :
              /\ interrupts'[i].savedStack = interrupts[i].savedStack
              /\ interrupts'[i].interruptedCall = interrupts[i].interruptedCall
    BY <1>2 DEF SameSaved
  <2>2. Len(interrupts) \in 1 .. Len(interrupts) /\ Len(interrupts) # 0
    BY <2>1, TopType DEF Types, TypeOK
  <2>3. interrupts' # <<>> BY <2>1, <2>2
  <2>4. QED BY <2>1, <2>2, <2>3 DEF SavedTop, Top
<1>3. QED BY <1>1, <1>2

LEMMA NoSavedStack ==
    ASSUME Types, Stacks, ~Entering
    PROVE  /\ SavedTop = NoStack
           /\ \A i \in 1 .. Len(interrupts) : interrupts[i].savedStack = NoStack
<1>1. \A i \in 1 .. Len(interrupts) : interrupts[i].savedStack = NoStack BY DEF Stacks
<1>2. interrupts # <<>> => Len(interrupts) \in 1 .. Len(interrupts)
  BY TopType DEF Types, TypeOK
<1>3. QED BY <1>1, <1>2 DEF SavedTop, Top

LEMMA QuietStacks ==
    ASSUME Whole, Types', Quiet, SameSaved
    PROVE  Stacks'
<1>1. /\ Len(interrupts') = Len(interrupts)
      /\ SavedTop' = SavedTop /\ Top'.interruptedCall = Top.interruptedCall
      /\ \A i \in 1 .. Len(interrupts) :
            interrupts'[i].savedStack = interrupts[i].savedStack
  BY SameSavedFacts DEF Whole
<1>2. /\ UNCHANGED <<Starting, Coding, Blocking, Returning>> /\ UNCHANGED machineVars
      /\ Taken' = Taken
  BY DEF Quiet, Taken
<1>3. OnStack' = OnStack /\ Entering' = Entering /\ Own' = Own
  BY <1>1, <1>2 DEF OnStack, Entering, EnterModes, Own, machineVars
<1>4. Stacks BY DEF Whole
<1> HIDE DEF Whole
<1>5. QED BY <1>1, <1>2, <1>3, <1>4 DEF Stacks, machineVars, Nothing, NoStack

LEMMA DeadStacks == ASSUME Whole, ThreadDying PROVE Stacks'
<1>1. Starting' = Starting /\ Returning' = Returning /\ OnStack' = OnStack
  BY DeadPlaces
<1>2. UNCHANGED machineVars /\ UNCHANGED <<interrupts, pendingCall>>
  BY DEF ThreadDying, callVars, interruptVars, stackVars, machineVars
<1>3. /\ Taken' = Taken /\ SavedTop' = SavedTop
      /\ Top'.interruptedCall = Top.interruptedCall
  BY <1>1, <1>2 DEF Taken, SavedTop, Top
<1>4. Entering' = Entering /\ Own' = Own
  BY <1>2, <1>3 DEF Entering, EnterModes, Own, machineVars
<1>5. Stacks BY DEF Whole
<1>6. QED BY <1>1, <1>2, <1>3, <1>4, <1>5 DEF Stacks, machineVars, Nothing, NoStack

LEMMA ResumesStacks ==
    ASSUME Whole, NEW w \in Worker, Begin(w), BeginResumes(w)
    PROVE  Stacks' /\ error' = error
<1>1. /\ ~TakesInterrupt /\ UNCHANGED <<activeCall, interrupts>>
      /\ Coding' /\ ~Starting' /\ ~Blocking' /\ ~Returning'
  BY ResumesModes
<1>2. At(w, "begin") /\ suspended BY DEF Begin, BeginResumes
<1>3. ~OnStack /\ ~Returning /\ ~Taken /\ (continuationCallback => Waiting)
  BY <1>2, BeginFinds
<1>4. /\ suspended' = FALSE /\ continuationCallback' = FALSE
      /\ UNCHANGED <<mode, handlingInterruptedCall, interruptedContinuation, returnContext>>
  BY <1>1 DEF Begin, BeginResumes, EnterContext
<1>5. /\ StackNow = stack /\ ContinuationNow = continuationCallback
      /\ OnStack' /\ ~Taken' /\ SavedTop' = SavedTop
      /\ Top'.interruptedCall = Top.interruptedCall
  BY <1>1, WholeTypes
  DEF StackNow, ContinuationNow, OnStack, Taken, SavedTop, Top, FlagTypes
<1>6. Entering' = Entering BY <1>3, <1>4, <1>5 DEF Entering, EnterModes
<1>7. Types /\ Stacks /\ allocated \subseteq StackId
  BY WholeTypes DEF Whole, StackTypes
<1>8. CASE continuationCallback
  <2>1. stack = NoStack BY <1>3, <1>7, <1>8 DEF Stacks
  <2>2. mode = "call" /\ ~handlingInterruptedCall BY <1>3, <1>8 DEF Waiting
  <2>3. ~Entering BY <1>3, <2>2 DEF Entering, EnterModes
  <2>4. SavedTop = NoStack /\ \A i \in 1 .. Len(interrupts) : interrupts[i].savedStack = NoStack
    BY <1>7, <2>3, NoSavedStack
  <2>5. PICK s \in StackId \ allocated :
           stack' = s /\ executing' = s /\ resumeContext' = s /\ allocated' = allocated \cup {s}
    BY <1>5, <1>8 DEF BeginResumes
  <2>6. s # NoStack BY StackAssumption
  <2>7. allocated' = {stack', SavedTop'} \ {NoStack}
    BY <1>5, <1>7, <2>1, <2>4, <2>5, <2>6 DEF Stacks
  <2>8. Own' = s BY <1>4, <2>2, <2>5 DEF Own
  <2>9. Stacks'
    BY <1>1, <1>4, <1>5, <2>2, <2>4, <2>5, <2>6, <2>7, <2>8 DEF Stacks, NoStack
  <2>10. error' = error BY <1>5, <1>8, <2>1 DEF BeginResumes
  <2>11. QED BY <2>9, <2>10
<1>9. CASE ~continuationCallback
  <2>1. stack # NoStack /\ resumeContext = Own BY <1>2, <1>7, <1>9 DEF Stacks
  <2>2. /\ stack' = stack /\ executing' = resumeContext /\ UNCHANGED <<resumeContext, allocated>>
        /\ error' = error
    BY <1>5, <1>9, <2>1 DEF BeginResumes
  <2>3. Own' = Own BY <1>4, <1>5, <2>2 DEF Own
  <2>4. Stacks'
    BY <1>1, <1>3, <1>4, <1>5, <1>6, <1>7, <2>1, <2>2, <2>3 DEF Stacks, NoStack, Nothing
  <2>5. QED BY <2>2, <2>4
<1>10. QED BY <1>8, <1>9

LEMMA StartsStacks ==
    ASSUME Whole, NEW w \in Worker, Begin(w), BeginStarts(w)
    PROVE  Stacks' /\ error' = error
<1>1. /\ ~handlingInterruptedCall /\ mode \in {"done", "call"}
      /\ TakesInterrupt <=> pendingCall.kind = "enter"
      /\ ~TakesInterrupt => Finished /\ ~suspended
      /\ Starting' /\ ~Coding' /\ ~Blocking' /\ ~Returning'
      /\ pendingCall' = pendingCall
  BY StartsModes
<1>2. At(w, "begin") /\ error' = error BY DEF Begin, BeginStarts
<1>3. ~OnStack /\ ~Returning /\ ~Taken BY <1>2, BeginFinds
<1>4. UNCHANGED <<mode, handlingInterruptedCall, returnContext, resumeContext>>
  BY DEF Begin, BeginStarts, EnterContext
<1>5. Types /\ Stacks /\ allocated \subseteq StackId /\ interrupts \in Seq(Context)
  BY WholeTypes DEF Whole, StackTypes, CallTypes
<1>6. ~Entering BY <1>1, <1>3 DEF Entering, EnterModes
<1>7. SavedTop = NoStack /\ \A i \in 1 .. Len(interrupts) : interrupts[i].savedStack = NoStack
  BY <1>5, <1>6, NoSavedStack
<1>8. allocated = {stack} \ {NoStack} BY <1>5, <1>7 DEF Stacks
<1>9. OnStack' /\ (Taken' <=> TakesInterrupt) BY <1>1 DEF OnStack, Taken
<1>10. PICK s \in StackId \ (allocated \ {StackNow}) :
           stack' = s /\ executing' = s /\ allocated' = (allocated \ {StackNow}) \cup {s}
  BY DEF BeginStarts
<1>11. s # NoStack /\ NoStack \notin allocated BY <1>5, StackAssumption
<1>12. Own' = s BY <1>1, <1>4, <1>10 DEF Own
<1>13. CASE TakesInterrupt
  <2> DEFINE e == [savedStack |-> stack, interruptedCall |-> activeCall, savedReply |-> Nothing]
  <2>1. interrupts' = Append(interrupts, e) /\ interruptedContinuation' = continuationCallback
    BY <1>13 DEF Begin, EnterContext
  <2>2. e \in Context BY WholeTypes DEF Context, CallTypes, StackTypes, CallOrNone
  <2>3. /\ Len(interrupts') = Len(interrupts) + 1 /\ Len(interrupts) \in Nat
        /\ interrupts' # <<>>
        /\ \A j \in 1 .. Len(interrupts) : interrupts'[j] = interrupts[j]
        /\ interrupts'[Len(interrupts) + 1] = e
    BY <1>5, <2>1, <2>2, AppendProperties, LenProperties
  <2> HIDE DEF e
  <2>4. e.savedStack = stack /\ e.interruptedCall = activeCall BY DEF e
  <2>5. SavedTop' = stack /\ Top'.interruptedCall = activeCall
    BY <2>3, <2>4 DEF SavedTop, Top
  <2>6. \A i \in 1 .. Len(interrupts') :
           interrupts'[i].savedStack # NoStack => i = Len(interrupts')
    <3>1. \A i \in 1 .. Len(interrupts') : i \in 1 .. Len(interrupts) \/ i = Len(interrupts')
      BY <2>3
    <3>2. QED BY <1>7, <2>3, <3>1
  <2>7. StackNow = NoStack BY <1>13 DEF StackNow
  <2>8. allocated' = {stack', SavedTop'} \ {NoStack} /\ (stack' = SavedTop' => stack' = NoStack)
    BY <1>8, <1>10, <1>11, <2>5, <2>7
  <2>9. activeCall # Nothing =>
           continuationCallback \/ (stack = resumeContext /\ stack # NoStack)
    <3>1. activeCall # Nothing => suspended BY <1>2, BeginFinds DEF Finished
    <3>2. QED BY <1>1, <1>5, <3>1 DEF Stacks, Own
  <2>10. continuationCallback => activeCall # Nothing
    BY <1>2, BeginFinds DEF Waiting, Nothing
  <2>11. suspended' = FALSE /\ Entering' BY <1>9, <1>13 DEF BeginStarts, Entering
  <2>12. Nothing' = Nothing /\ NoStack' = NoStack BY DEF Nothing, NoStack
  <2>13. Stacks'
    BY <1>1, <1>4, <1>9, <1>10, <1>11, <1>12, <2>1, <2>5, <2>6, <2>8, <2>9, <2>10, <2>11, <2>12
    DEF Stacks
  <2>14. QED BY <1>2, <2>13
<1>14. CASE ~TakesInterrupt
  <2>1. stack = NoStack BY <1>1, <1>3, <1>5, <1>14 DEF Stacks
  <2>2. interrupts' = interrupts /\ interruptedContinuation' = interruptedContinuation
    BY <1>14 DEF Begin, EnterContext
  <2>3. SavedTop' = NoStack BY <1>7, <2>2 DEF SavedTop, Top
  <2>4. allocated' = {stack', SavedTop'} \ {NoStack}
    BY <1>8, <1>10, <1>11, <2>1, <2>3
  <2>5. suspended' = FALSE BY DEF BeginStarts
  <2>6. \A i \in 1 .. Len(interrupts') : interrupts'[i].savedStack = NoStack BY <1>7, <2>2
  <2>7. Stacks'
    BY <1>1, <1>4, <1>9, <1>10, <1>11, <1>12, <1>14, <2>3, <2>4, <2>5, <2>6 DEF Stacks, NoStack
  <2>8. QED BY <1>2, <2>7
<1>15. QED BY <1>13, <1>14

LEMMA LeavesStacks ==
    ASSUME Whole, NEW w \in Worker,
           (Begin(w) /\ BeginFindsNothing(w)) \/ ReturnToTop(w)
    PROVE  Stacks'
<1>1. /\ ~OnStack /\ ~OnStack' /\ ~Starting' /\ ~Returning'
      /\ UNCHANGED <<activeCall, mode, suspended, continuationCallback,
                     handlingInterruptedCall, interrupts, interruptedContinuation,
                     resumeContext, returnContext, executing>>
  BY LeavesModes
<1>2. Stacks /\ Modes BY DEF Whole
<1>3. ~Taken /\ ~Taken' /\ SavedTop' = SavedTop /\ Top' = Top
  BY <1>1 DEF Taken, OnStack, SavedTop, Top
<1>4. Entering' = Entering BY <1>1, <1>3 DEF Entering, EnterModes
<1>5. ~(suspended /\ ~continuationCallback) => mode # "interrupted" /\ ~handlingInterruptedCall
  BY <1>1, <1>2 DEF Modes, Finished, Waiting
<1>6. CASE UNCHANGED <<stack, allocated>> /\ (stack # NoStack => suspended /\ ~continuationCallback)
  <2>1. Own' = Own BY <1>1, <1>3, <1>6 DEF Own
  <2>2. QED BY <1>1, <1>2, <1>3, <1>4, <1>6, <2>1 DEF Stacks, NoStack, Nothing
<1>7. CASE /\ allocated' = allocated \ {stack} /\ stack' = NoStack
           /\ ~(suspended /\ ~continuationCallback)
  <2>1. allocated' = {stack', SavedTop'} \ {NoStack} BY <1>2, <1>3, <1>7 DEF Stacks
  <2>2. mode # "interrupted" /\ ~handlingInterruptedCall BY <1>5, <1>7
  <2>3. QED BY <1>1, <1>2, <1>3, <1>4, <1>7, <2>1, <2>2 DEF Stacks, NoStack, Nothing
<1>8. CASE ReturnToTop(w)
  <2>1. CASE KeepsStack BY <1>6, <1>8, <2>1 DEF ReturnToTop, KeepsStack
  <2>2. CASE ~KeepsStack BY <1>7, <1>8, <2>2 DEF ReturnToTop, KeepsStack
  <2>3. QED BY <2>1, <2>2
<1>9. CASE Begin(w) /\ BeginFindsNothing(w)
  <2>1. UNCHANGED <<stack, allocated>> BY <1>9 DEF BeginFindsNothing, stackVars
  <2>2. ~Returning /\ ~OnStack BY <1>9, BeginFinds DEF Begin
  <2>3. stack # NoStack => suspended /\ ~continuationCallback BY <1>2, <2>2 DEF Stacks
  <2>4. QED BY <1>6, <2>1, <2>3
<1>10. QED BY <1>8, <1>9

LEMMA StartCallStacks == ASSUME Whole, NEW w \in Worker, StartCall(w) PROVE Stacks'
<1>1. Starting /\ Coding' /\ ~Starting' /\ ~Blocking' /\ ~Returning' BY StartCallModes
<1>2. /\ UNCHANGED <<stack, resumeContext, allocated, executing, interrupts, returnContext,
                     interruptedContinuation, handlingInterruptedCall, suspended,
                     continuationCallback>>
      /\ mode' = IF pendingCall.kind = "enter" THEN "enter" ELSE "call"
  BY DEF StartCall, interruptVars, stackVars
<1>3. Stacks /\ Types /\ mode \in {"done", "call"} /\ ~handlingInterruptedCall /\ ~suspended
  BY <1>1 DEF Whole, Modes, OnStack
<1>4. OnStack /\ OnStack' /\ ~Taken' /\ SavedTop' = SavedTop /\ Top' = Top
  BY <1>1, <1>2 DEF OnStack, Taken, SavedTop, Top
<1>5. Own' = Own BY <1>2, <1>4 DEF Own
<1>6. /\ Entering' = Entering /\ (mode' = "enter" <=> Taken) /\ mode' # "interrupted"
  BY <1>1, <1>2, <1>3, <1>4 DEF Entering, EnterModes, Taken
<1>7. QED BY <1>2, <1>3, <1>4, <1>5, <1>6 DEF Stacks, NoStack, Nothing

LEMMA WaitStacks ==
    ASSUME Whole, NEW w \in Worker,
           SuspendLocked(w) \/ AssertWait(w) \/ ThreadBlock(w) \/ FinishCall(w)
    PROVE  Stacks'
<1>1. /\ OnStack /\ ~Starting /\ ~Starting'
      /\ AssertWait(w) => OnStack'
      /\ ~AssertWait(w) => Returning' /\ ~OnStack'
      /\ ~FinishCall(w) /\ ~AssertWait(w) => suspended'
      /\ AssertWait(w) \/ FinishCall(w) => ~suspended'
  BY WaitModes
<1>2. /\ UNCHANGED <<stack, allocated, executing, interrupts, returnContext,
                     interruptedContinuation, handlingInterruptedCall, mode>>
      /\ suspended' => resumeContext' = executing
      /\ ~suspended' => resumeContext' = resumeContext
  BY <1>1 DEF SuspendLocked, AssertWait, ThreadBlock, FinishCall, interruptVars, stackVars
<1>3. Stacks /\ Types BY DEF Whole
<1>4. ~Taken /\ ~Taken' /\ SavedTop' = SavedTop /\ Top' = Top
  BY <1>1, <1>2 DEF Taken, SavedTop, Top
<1>5. Own' = Own /\ Entering' = Entering BY <1>2, <1>4 DEF Own, Entering, EnterModes
<1>6. mode # "enter" \/ ~suspended'
  <2>1. CASE SuspendLocked(w) BY <2>1 DEF SuspendLocked, MayWait
  <2>2. CASE ThreadBlock(w)
    <3>1. Blocking BY <2>2 DEF ThreadBlock, At, Blocking
    <3>2. QED BY <3>1 DEF Whole, Modes, Waiting
  <2>3. QED BY <1>1, <2>1, <2>2
<1>7. QED BY <1>1, <1>2, <1>3, <1>4, <1>5, <1>6 DEF Stacks, NoStack, Nothing

LEMMA CodeStacks ==
    ASSUME Whole, Types', NEW w \in Worker,
           \/ Reply(w) \/ PopInterrupt(w)
           \/ EnterInterrupt(w) \/ ReplyInterrupted(w) \/ FinishEnter(w)
    PROVE  Stacks'
<1>1. /\ Coding /\ ~Starting /\ ~Blocking /\ ~Returning /\ Ok
      /\ Coding' /\ ~Starting' /\ ~Blocking' /\ ~Returning'
      /\ ~suspended /\ ~suspended'
      /\ mode # "interrupted" => ~handlingInterruptedCall
  BY CodePlaces
<1>2. OnStack /\ OnStack' /\ ~Taken /\ ~Taken' BY <1>1 DEF OnStack, Taken
<1>3. Types /\ Stacks /\ interrupts \in Seq(Context) BY WholeTypes DEF Whole, CallTypes
<1>4. CASE Reply(w)
  <2>1. /\ UNCHANGED <<stack, allocated, executing, interrupts, returnContext,
                       interruptedContinuation, handlingInterruptedCall, resumeContext>>
        /\ mode = "call" /\ mode' \in {"popping", "done"}
    BY <1>4 DEF Reply, interruptVars, stackVars
  <2>2. SavedTop' = SavedTop /\ Own' = Own BY <2>1 DEF SavedTop, Top, Own
  <2>3. ~Entering /\ ~Entering' BY <1>2, <2>1 DEF Entering, EnterModes
  <2>4. QED BY <1>1, <1>2, <1>3, <2>1, <2>2, <2>3 DEF Stacks, NoStack
<1>5. CASE PopInterrupt(w)
  <2>1. interrupts # <<>> BY <1>5, HasContext DEF PopInterrupt, At
  <2>2. /\ UNCHANGED <<stack, allocated, executing, returnContext, interruptedContinuation,
                       handlingInterruptedCall, resumeContext>>
        /\ mode = "popping" /\ mode' = "done"
        /\ interrupts' = SubSeq(interrupts, 1, Len(interrupts) - 1)
    BY <1>5, <2>1 DEF PopInterrupt, stackVars
  <2>3. ~Entering /\ ~Entering' BY <1>2, <2>2 DEF Entering, EnterModes
  <2>4. SavedTop = NoStack /\ \A i \in 1 .. Len(interrupts) : interrupts[i].savedStack = NoStack
    BY <1>3, <2>3, NoSavedStack
  <2>5. \A i \in 1 .. Len(interrupts') : interrupts'[i].savedStack = NoStack
    BY <1>3, <2>1, <2>2, <2>4, ButLast
  <2>6. SavedTop' = NoStack
    <3>1. interrupts' # <<>> => Len(interrupts') \in 1 .. Len(interrupts')
      BY TopType DEF Types, TypeOK
    <3>2. QED BY <2>5, <3>1 DEF SavedTop, Top, NoStack
  <2>7. Own' = Own BY <2>2, <2>4, <2>6 DEF Own, NoStack
  <2>8. QED
    BY <1>1, <1>2, <1>3, <2>2, <2>3, <2>4, <2>5, <2>6, <2>7 DEF Stacks, NoStack
<1>6. CASE EnterInterrupt(w)
  <2>1. interrupts # <<>> /\ mode = "enter"
    BY <1>6, HasContext DEF EnterInterrupt, At, EnterModes
  <2>2. ~handlingInterruptedCall /\ executing = stack
    BY <1>1, <1>2, <1>3, <2>1 DEF Stacks, Own
  <2>3. SameSaved
    <3>1. pendingSavedReply \in CallOrNone BY WholeTypes DEF CallTypes
    <3>2. CASE SaveInTop(pendingSavedReply) BY <1>3, <2>1, <3>1, <3>2, SavedReplyOnly
    <3>3. QED BY <1>6, <3>2 DEF EnterInterrupt, SameSaved
  <2>4. /\ Len(interrupts') = Len(interrupts)
        /\ SavedTop' = SavedTop /\ Top'.interruptedCall = Top.interruptedCall
        /\ \A i \in 1 .. Len(interrupts) :
              interrupts'[i].savedStack = interrupts[i].savedStack
    BY <1>3, <2>3, SameSavedFacts
  <2>5. /\ UNCHANGED <<stack, allocated, resumeContext>> /\ returnContext' = stack
        /\ mode' \in {"interrupted", "entered"}
        /\ mode' = "interrupted" => interruptedContinuation \/ Top.interruptedCall # Nothing
        /\ \/ executing' = stack /\ handlingInterruptedCall' = FALSE
           \/ /\ executing' = resumeContext /\ handlingInterruptedCall' = TRUE
              /\ mode' = "interrupted" /\ Top.interruptedCall # Nothing
              /\ ~interruptedContinuation
    <3>1. handlingInterruptedCall = FALSE BY <2>2, WholeTypes DEF FlagTypes
    <3>2. QED BY <1>6, <2>2, <3>1 DEF EnterInterrupt
  <2>6. handlingInterruptedCall' => SavedTop = resumeContext /\ SavedTop # NoStack
    BY <1>3, <2>1, <2>5 DEF Stacks
  <2>7. mode' = "interrupted" => Top.interruptedCall # Nothing
    BY <1>3, <2>1, <2>5 DEF Stacks
  <2>8. Entering /\ Entering' BY <2>1, <2>5 DEF Entering, EnterModes
  <2>9. executing' = Own' BY <2>4, <2>5, <2>6 DEF Own
  <2>10. QED
    BY <1>1, <1>2, <1>3, <2>4, <2>5, <2>6, <2>7, <2>8, <2>9 DEF Stacks, NoStack, Nothing
<1>7. CASE ReplyInterrupted(w)
  <2> DEFINE e == [Top EXCEPT !.savedReply = Top.interruptedCall, !.interruptedCall = Nothing]
  <2>1. interrupts # <<>> /\ mode = "interrupted"
    BY <1>7, HasContext DEF ReplyInterrupted, At, EnterModes
  <2>2. Top \in Context /\ e \in Context /\ e.savedStack = Top.savedStack
    BY <1>3, <2>1, TopType DEF Top, Context, CallOrNone
  <2>3. interrupts' = interrupts \/ interrupts' = [interrupts EXCEPT ![Len(interrupts)] = e]
    BY <1>7 DEF ReplyInterrupted, Top
  <2> HIDE DEF e
  <2>4. Len(interrupts) \in 1 .. Len(interrupts) BY <1>3, <2>1, TopType
  <2>5. /\ Len(interrupts') = Len(interrupts)
        /\ \A i \in 1 .. Len(interrupts) : interrupts'[i].savedStack = interrupts[i].savedStack
    <3>1. CASE interrupts' = interrupts BY <3>1
    <3>2. CASE interrupts' = [interrupts EXCEPT ![Len(interrupts)] = e]
      <4>1. /\ Len(interrupts') = Len(interrupts) /\ interrupts'[Len(interrupts)] = e
            /\ \A j \in 1 .. Len(interrupts) : j # Len(interrupts) => interrupts'[j] = interrupts[j]
        BY <1>3, <2>1, <2>2, <3>2, TopUpdate
      <4>2. QED BY <2>2, <4>1 DEF Top
    <3>3. QED BY <2>3, <3>1, <3>2
  <2>6. SavedTop' = SavedTop
    <3>1. interrupts' # <<>> BY <2>4, <2>5
    <3>2. QED BY <2>1, <2>4, <2>5, <3>1 DEF SavedTop, Top
  <2>7. /\ UNCHANGED <<stack, allocated, resumeContext>>
        /\ executing' = returnContext /\ handlingInterruptedCall' = FALSE /\ mode' = "entered"
    BY <1>7 DEF ReplyInterrupted
  <2>8. returnContext = stack BY <1>3, <2>1 DEF Stacks
  <2>9. Entering /\ Entering' BY <2>1, <2>7 DEF Entering, EnterModes
  <2>10. QED
    BY <1>1, <1>2, <1>3, <2>5, <2>6, <2>7, <2>8, <2>9 DEF Stacks, NoStack, Own
<1>8. CASE FinishEnter(w)
  <2> DEFINE e == [Top EXCEPT !.savedStack = NoStack, !.interruptedCall = Nothing]
  <2>1. interrupts # <<>> /\ mode = "entered"
    BY <1>8, HasContext DEF FinishEnter, At, EnterModes
  <2>2. Top \in Context /\ e \in Context /\ e.savedStack = NoStack
    BY <1>3, <2>1, TopType DEF Top, Context, CallOrNone, MaybeStack
  <2>3. interrupts' = [interrupts EXCEPT ![Len(interrupts)] = e]
    BY <1>8 DEF FinishEnter, Top
  <2> HIDE DEF e
  <2>4. Len(interrupts) \in 1 .. Len(interrupts) BY <1>3, <2>1, TopType
  <2>5. /\ Len(interrupts') = Len(interrupts) /\ interrupts'[Len(interrupts)] = e
        /\ \A j \in 1 .. Len(interrupts) : j # Len(interrupts) => interrupts'[j] = interrupts[j]
    BY <1>3, <2>1, <2>2, <2>3, TopUpdate
  <2>6. \A i \in 1 .. Len(interrupts) : interrupts'[i].savedStack = NoStack
    BY <1>3, <2>2, <2>5 DEF Stacks
  <2>7. SavedTop' = NoStack
    <3>1. interrupts' # <<>> BY <2>4, <2>5
    <3>2. QED BY <2>4, <2>5, <2>6, <3>1 DEF SavedTop, Top, NoStack
  <2>8. SavedTop = Top.savedStack BY <2>1 DEF SavedTop
  <2>9. /\ UNCHANGED <<stack, resumeContext, executing, handlingInterruptedCall>>
        /\ allocated' = allocated \ {Top.savedStack} /\ mode' = "call"
    BY <1>8 DEF FinishEnter
  <2>10. allocated' = {stack', SavedTop'} \ {NoStack}
    BY <1>3, <2>7, <2>8, <2>9 DEF Stacks
  <2>11. ~handlingInterruptedCall /\ executing = stack
    BY <1>1, <1>2, <1>3, <2>1 DEF Stacks, Own
  <2>12. QED
    BY <1>1, <1>2, <1>3, <2>5, <2>6, <2>7, <2>9, <2>10, <2>11 DEF Stacks, NoStack, Own
<1>9. QED BY <1>4, <1>5, <1>6, <1>7, <1>8

LEMMA StacksStep == ASSUME Whole, [Next]_vars PROVE Stacks'
<1>1. Types' BY TypesStep
<1>2. ASSUME NEW w \in Worker, SchedulerStep(w) PROVE Stacks'
  <2>1. CASE PickUp(w) \/ Unlock(w)
    BY <1>1, <2>1, QuietSteps, QuietStacks DEF PickUp, Unlock, interruptVars, SameSaved
  <2>2. CASE Begin(w) BY <2>2, BeginCases, ResumesStacks, StartsStacks, LeavesStacks
  <2>3. CASE StartCall(w) BY <2>3, StartCallStacks
  <2>4. CASE ReturnToTop(w) BY <2>4, LeavesStacks
  <2>5. QED BY <1>2, <2>1, <2>2, <2>3, <2>4 DEF SchedulerStep
<1>3. ASSUME NEW w \in Worker, CodeStep(w) \/ SuspendLocked(w) \/ AssertWait(w) PROVE Stacks'
  <2>1. CASE LookAtWait(w)
    BY <1>1, <2>1, QuietSteps, QuietStacks DEF LookAtWait, interruptVars, SameSaved
  <2>2. QED BY <1>1, <1>3, <2>1, WaitStacks, CodeStacks DEF CodeStep
<1>4. CASE ThreadDying BY <1>4, DeadStacks
<1>5. CASE ReceivePush
  <2>1. SameSaved
    <3>1. Types /\ toServer \in Seq(Message) BY DEF Whole, Types
    <3>2. Head(toServer) \in Message /\ Head(toServer).kind = "push"
      BY <1>5, <3>1, HeadTailProperties DEF ReceivePush, Receiving
    <3>3. PushedReply(Head(toServer)) \in CallOrNone
      BY <3>2 DEF PushedReply, Message, Pushed, Call, CallOrNone
    <3>4. interrupts' = interrupts
          \/ (interrupts # <<>> /\ SaveInTop(PushedReply(Head(toServer))))
      BY <1>5 DEF ReceivePush
    <3>5. QED BY <3>1, <3>3, <3>4, SavedReplyOnly DEF SameSaved
  <2>2. QED BY <1>1, <1>5, <2>1, QuietSteps, QuietStacks
<1>6. CASE \/ ClientCall \/ ClientSignal \/ ClientExit \/ ClientStep \/ ClientKilled
           \/ ReceiveCall \/ NotifyDead \/ ResumeDead \/ Release \/ Wake \/ UNCHANGED vars
           \/ \E i \in Impersonator : Impersonate(i) \/ ImpersonatorStep(i)
  <2>1. interrupts' = interrupts
    BY <1>6
    DEF ClientCall, ClientSignal, ClientExit, ClientStep, ClientKilled, ClientReceive,
        ClientPushReply, ClientPushed, ServerVars, ReceiveCall, NotifyDead, ResumeDead,
        Release, Wake, vars, interruptVars, Impersonate, ImpersonatorStep, ImpersonateWhenStopped,
        StopImpersonating
  <2>2. QED BY <1>1, <1>6, <2>1, QuietSteps, QuietStacks DEF SameSaved
<1>7. QED BY <1>2, <1>3, <1>4, <1>5, <1>6 DEF Next, DeathStep

-----------------------------------------------------------------------------
(* The duct-taped thread is released once, after its death. *)
LEMMA ReleasingFrame ==
    ASSUME Releasing, UNCHANGED <<Owed, terminating, dead>>,
           client' = client \/ client' = "killed" \/ client # "killed"
    PROVE  Releasing'
BY DEF Releasing, Bit

LEMMA OwedFrame == UNCHANGED <<releases, dtapeThread, dying>> => UNCHANGED Owed
BY DEF Owed

LEMMA NothingOwed ==
    ASSUME Types, Releasing, ~terminating
    PROVE  releases = 0 /\ dtapeThread /\ dying # "release"
<1>1. releases \in Nat /\ dtapeThread \in BOOLEAN BY DEF Types, TypeOK
<1>2. Bit(~dtapeThread) \in {0, 1} /\ Bit(dying = "release") \in {0, 1} BY DEF Bit
<1>3. releases + Bit(~dtapeThread) + Bit(dying = "release") <= 0 BY DEF Releasing, Owed, Bit
<1>4. releases = 0 /\ Bit(~dtapeThread) = 0 /\ Bit(dying = "release") = 0
  BY <1>1, <1>2, <1>3
<1>5. QED BY <1>1, <1>4 DEF Bit

(* A release is scheduled by notifyDead, or by the worker that finishes the call. *)
LEMMA DoneReleasing ==
    ASSUME Whole, NEW w \in Worker, DoneWorking(w),
           UNCHANGED <<dead, dying, dtapeThread, client>>
    PROVE  Releasing'
<1>1. Types /\ Releasing BY DEF Whole
<1>2. CASE FinishesDying
  <2>1. /\ dead /\ ~terminating /\ terminating' = TRUE /\ releases' = releases + 1
    BY <1>2 DEF DoneWorking, FinishesDying
  <2>2. client' = "killed" /\ dead' BY <1>1, <2>1 DEF Releasing
  <2>3. releases = 0 /\ dtapeThread /\ dying # "release" BY <1>1, <2>1, NothingOwed
  <2>4. QED BY <2>1, <2>2, <2>3 DEF Releasing, Owed, Bit
<1>3. CASE ~FinishesDying BY <1>1, <1>3, ReleasingFrame, OwedFrame DEF DoneWorking
<1>4. QED BY <1>2, <1>3

LEMMA ReleaseOnce ==
    ASSUME Whole, Release
    PROVE  Releasing' /\ error' = error
<1>1. Types /\ Releasing /\ releases \in Nat /\ dtapeThread \in BOOLEAN
  BY DEF Whole, Types, TypeOK
<1>2. releases > 0 /\ releases' = releases - 1 /\ dtapeThread' = FALSE
      /\ UNCHANGED <<dead, dying, terminating, client>>
      /\ error' = IF dtapeThread THEN error ELSE "released twice"
  BY DEF Release, clientVars
<1> DEFINE d == Bit(dying = "release")
<1>3. releases + Bit(~dtapeThread) + d <= Bit(terminating) BY <1>1 DEF Releasing, Owed
<1>4. Bit(~dtapeThread) \in {0, 1} /\ Bit(terminating) \in {0, 1} /\ d \in {0, 1} BY DEF Bit
<1>5. \A r \in Nat, a, b, c \in {0, 1} : r > 0 /\ r + a + c <= b => r = 1 /\ a = 0 /\ b = 1 /\ c = 0
  OBVIOUS
<1> HIDE DEF d
<1>6. releases = 1 /\ Bit(~dtapeThread) = 0 /\ Bit(terminating) = 1 /\ d = 0
  BY <1>1, <1>2, <1>3, <1>4, <1>5
<1>7. dtapeThread /\ terminating /\ dying # "release" BY <1>6 DEF Bit, d
<1>8. Owed' <= Bit(terminating') BY <1>2, <1>6, <1>7 DEF Bit, Owed
<1>9. QED BY <1>1, <1>2, <1>7, <1>8 DEF Releasing

(* notifyDead owes the release from the moment it marks the thread. *)
LEMMA DeathReleasing ==
    ASSUME Whole, DeathStep
    PROVE  Releasing'
<1>1. Types /\ Releasing /\ releases \in Nat BY DEF Whole, Types, TypeOK
<1>2. CASE NotifyDead
  <2>1. /\ ~dead /\ dead' = TRUE /\ client = "killed"
        /\ UNCHANGED <<dtapeThread, releases, client>>
    BY <1>2 DEF NotifyDead, clientVars
  <2>2. ~terminating BY <1>1, <2>1 DEF Releasing
  <2>3. releases = 0 /\ dtapeThread BY <1>1, <2>2, NothingOwed
  <2>4. CASE activeCall = Nothing
    <3>1. terminating' = TRUE /\ dying' = "release" BY <1>2, <2>4 DEF NotifyDead
    <3>2. QED BY <2>1, <2>3, <3>1 DEF Releasing, Owed, Bit
  <2>5. CASE activeCall # Nothing
    <3>1. ~terminating' /\ dying' = "resume" BY <1>2, <2>2, <2>5 DEF NotifyDead
    <3>2. QED BY <2>1, <2>3, <3>1 DEF Releasing, Owed, Bit
  <2>6. QED BY <2>4, <2>5
<1>3. CASE ThreadDying
  <2>1. UNCHANGED <<dead, terminating, dtapeThread, client>>
    BY <1>3 DEF ThreadDying, clientVars
  <2>2. CASE dying = "release"
    <3>1. dying' = "no" /\ releases' = releases + 1 BY <1>3, <2>2 DEF ThreadDying
    <3>2. Bit(~dtapeThread) \in {0, 1} BY DEF Bit
    <3>3. UNCHANGED Owed BY <1>1, <2>1, <2>2, <3>1, <3>2 DEF Owed, Bit
    <3>4. QED BY <1>1, <2>1, <3>3, ReleasingFrame
  <2>3. CASE dying # "release"
    <3>1. dying' = "cleared" /\ releases' = releases BY <1>3, <2>3 DEF ThreadDying
    <3>2. UNCHANGED Owed BY <2>1, <2>3, <3>1 DEF Owed, Bit
    <3>3. QED BY <1>1, <2>1, <3>2, ReleasingFrame
  <2>4. QED BY <2>2, <2>3
<1>4. CASE ResumeDead
  <2>1. /\ UNCHANGED <<dead, terminating, dtapeThread, releases, client>>
        /\ dying = "cleared" /\ dying' = "no"
    BY <1>4 DEF ResumeDead, clientVars
  <2>2. UNCHANGED Owed BY <2>1 DEF Owed, Bit
  <2>3. QED BY <1>1, <2>1, <2>2, ReleasingFrame
<1>5. QED BY <1>2, <1>3, <1>4 DEF DeathStep

LEMMA ReleasingStep == ASSUME Whole, [Next]_vars PROVE Releasing'
<1>1. Releasing /\ Types BY DEF Whole
<1>2. CASE \/ ClientCall \/ ClientSignal \/ ClientExit \/ ClientStep \/ ClientKilled
  <2>1. UNCHANGED <<releases, dtapeThread, dying, terminating, dead>>
    BY <1>2 DEF ClientCall, ClientSignal, ClientExit, ClientStep, ClientKilled, ClientReceive,
                ClientPushReply, ClientPushed, ServerVars, lifeVars
  <2>2. client # "killed" \/ client' = "killed"
    BY <1>2 DEF ClientCall, ClientSignal, ClientExit, ClientStep, ClientKilled, ClientReceive,
                ClientPushReply, ClientPushed, Awaited
  <2>3. QED BY <1>1, <2>1, <2>2, ReleasingFrame, OwedFrame
<1>3. CASE DeathStep BY <1>3, DeathReleasing
<1>4. CASE Release BY <1>4, ReleaseOnce
<1>5. CASE ReceiveCall \/ ReceivePush \/ Wake \/ UNCHANGED vars
  BY <1>1, <1>5, ReleasingFrame, OwedFrame
  DEF ReceiveCall, ReceivePush, Wake, vars, lifeVars, clientVars
<1>6. ASSUME NEW i \in Impersonator, Impersonate(i) \/ ImpersonatorStep(i)
      PROVE  Releasing'
  BY <1>1, <1>6, ReleasingFrame, OwedFrame
  DEF Impersonate, ImpersonatorStep, ImpersonateWhenStopped, StopImpersonating, lifeVars,
      clientVars
<1>7. ASSUME NEW w \in Worker, SchedulerStep(w) PROVE Releasing'
  <2>1. CASE PickUp(w)
    <3>1. UNCHANGED <<Owed, releases, dtapeThread, dying, dead, client>>
      BY <2>1, OwedFrame DEF PickUp, clientVars
    <3>2. CASE UNCHANGED terminating BY <1>1, <3>1, <3>2, ReleasingFrame
    <3>3. CASE PickUpDead(w)
      <4>1. terminating' = TRUE /\ dead BY <1>1, <3>3 DEF PickUpDead, Releasing
      <4>2. Owed <= 1 BY <1>1, NothingOwed DEF Releasing, Owed, Bit
      <4>3. QED BY <1>1, <3>1, <4>1, <4>2 DEF Releasing, Bit
    <3>4. QED
      BY <2>1, <3>2, <3>3 DEF PickUp, PickUpDeferred, PickUpRunning, PickUpToRun
  <2>2. CASE Begin(w)
    <3>1. UNCHANGED <<dead, dying, dtapeThread, client>> BY <2>2 DEF Begin, clientVars
    <3>2. CASE BeginFindsNothing(w) BY <3>1, <3>2, DoneReleasing DEF BeginFindsNothing
    <3>3. CASE BeginResumes(w) \/ BeginStarts(w)
      BY <1>1, <3>1, <3>3, ReleasingFrame, OwedFrame DEF BeginResumes, BeginStarts
    <3>4. QED BY <2>2, <3>2, <3>3, BeginCases
  <2>3. CASE ReturnToTop(w) BY <2>3, DoneReleasing DEF ReturnToTop, clientVars
  <2>4. CASE StartCall(w) \/ Unlock(w)
    BY <1>1, <2>4, ReleasingFrame, OwedFrame DEF StartCall, Unlock, lifeVars, clientVars
  <2>5. QED BY <1>7, <2>1, <2>2, <2>3, <2>4 DEF SchedulerStep
<1>8. ASSUME NEW w \in Worker, CodeStep(w) \/ SuspendLocked(w) \/ AssertWait(w)
      PROVE  Releasing'
  <2>1. UNCHANGED <<lifeVars, client>>
    BY <1>8 DEF CodeStep, SuspendLocked, AssertWait, LookAtWait, ThreadBlock, Reply,
                PopInterrupt, FinishCall, EnterInterrupt, ReplyInterrupted, FinishEnter, clientVars
  <2>2. QED BY <1>1, <2>1, ReleasingFrame, OwedFrame DEF lifeVars
<1>9. QED BY <1>2, <1>3, <1>4, <1>5, <1>6, <1>7, <1>8 DEF Next

-----------------------------------------------------------------------------
(* What the places of a call tell. *)
LEMMA CallForm ==
    ASSUME NEW x \in CallOrNone
    PROVE  /\ x.kind \in {"none", "call", "enter", "exit"}
           /\ x.kind = "none" <=> x = Nothing
           /\ x # Nothing => x \in Call /\ x.level \in Level
           /\ x.kind = "call" => x = CallAt(x.level)
           /\ x.kind = "enter" => x = EnterAt(x.level)
           /\ x.kind = "exit" => x = ExitAt(x.level)
BY DEF CallOrNone, Call, Nothing, CallAt, EnterAt, ExitAt

LEMMA CallNames ==
    ASSUME NEW k, NEW j
    PROVE  /\ CallAt(k).kind = "call" /\ CallAt(k).level = k
           /\ EnterAt(k).kind = "enter" /\ EnterAt(k).level = k
           /\ ExitAt(k).kind = "exit" /\ ExitAt(k).level = k
           /\ CallAt(k) # Nothing /\ EnterAt(k) # Nothing /\ ExitAt(k) # Nothing
           /\ CallAt(k) = CallAt(j) <=> k = j
           /\ EnterAt(k) = EnterAt(j) <=> k = j
           /\ ExitAt(k) = ExitAt(j) <=> k = j
           /\ CallAt(k) # EnterAt(j) /\ CallAt(k) # ExitAt(j) /\ EnterAt(k) # ExitAt(j)
BY DEF CallAt, EnterAt, ExitAt, Nothing

LEMMA InCall == \A k \in Level : CallAt(k) \in Call /\ EnterAt(k) \in Call /\ ExitAt(k) \in Call
BY DEF CallAt, EnterAt, ExitAt, Call

LEMMA Numbers ==
    ASSUME Types
    PROVE  /\ Len(interrupts) \in Nat /\ level \in Nat /\ level <= MaxDepth
           /\ Depth \in Int /\ LevelSeen \in Int
           /\ \A b : Bit(b) \in {0, 1}
<1>1. \A b : Bit(b) \in {0, 1} BY DEF Bit
<1>2. Len(interrupts) \in Nat BY LenProperties DEF Types, TypeOK
<1>3. Depth \in Int BY <1>1, <1>2 DEF Depth
<1>4. LevelSeen \in Int BY <1>1, <1>3 DEF LevelSeen
<1>5. QED BY <1>1, <1>2, <1>3, <1>4, BoundsAssumption DEF Types, Level

(* The calls that the client waits for. *)
LEMMA OutstandingIs ==
    ASSUME NEW c \in Call, level \in Nat
    PROVE  /\ c.kind = "enter" =>
                (c \in Outstanding <=> client \in {"entering", "pushing"} /\ c.level = level)
           /\ c.kind = "exit" => (c \in Outstanding <=> client = "exiting" /\ c.level = level)
           /\ c.kind = "call" =>
                (c \in Outstanding <=> \/ client = "calling" /\ c.level = level
                                       \/ c.level < level /\ frames[c.level] = "calling")
<1>1. /\ c \in [kind : {"call", "enter", "exit"}, level : Level] /\ c # Nothing
  BY DEF Call, Nothing
<1>2. CASE c.kind = "enter" BY <1>1, <1>2 DEF Outstanding, Awaited
<1>3. CASE c.kind = "exit" BY <1>1, <1>3 DEF Outstanding, Awaited
<1>4. CASE c.kind = "call"
  <2>1. c = [kind |-> "call", level |-> c.level] /\ c.level \in Level BY <1>1, <1>4
  <2>2. c = Awaited <=> client = "calling" /\ c.level = level BY <1>1, <2>1 DEF Awaited
  <2>3. c \in {[kind |-> "call", level |-> l] :
                  l \in {k \in Level : k < level /\ frames[k] = "calling"}}
          <=> c.level < level /\ frames[c.level] = "calling"
    BY <2>1
  <2>4. c # [kind |-> "enter", level |-> level] BY <1>4
  <2>5. QED BY <1>1, <1>4, <2>2, <2>3, <2>4 DEF Outstanding
<1>5. QED BY <1>1, <1>2, <1>3, <1>4

LEMMA OutstandingNext ==
    ASSUME NEW c \in Call, level' \in Nat
    PROVE  /\ c.kind = "enter" =>
                (c \in Outstanding' <=> client' \in {"entering", "pushing"} /\ c.level = level')
           /\ c.kind = "exit" => (c \in Outstanding' <=> client' = "exiting" /\ c.level = level')
           /\ c.kind = "call" =>
                (c \in Outstanding' <=> \/ client' = "calling" /\ c.level = level'
                                        \/ c.level < level' /\ frames'[c.level] = "calling")
<1>1. /\ c \in [kind : {"call", "enter", "exit"}, level : Level] /\ c # Nothing
  BY DEF Call, Nothing
<1>2. CASE c.kind = "enter" BY <1>1, <1>2 DEF Outstanding, Awaited
<1>3. CASE c.kind = "exit" BY <1>1, <1>3 DEF Outstanding, Awaited
<1>4. CASE c.kind = "call"
  <2> DEFINE S == {[kind |-> "call", level |-> l] :
                      l \in {k \in Level : k < level' /\ frames'[k] = "calling"}}
  <2>1. c = [kind |-> "call", level |-> c.level] /\ c.level \in Level BY <1>1, <1>4
  <2>2. c = Awaited' <=> client' = "calling" /\ c.level = level' BY <1>1, <2>1 DEF Awaited
  <2>3. c \in S <=> c.level < level' /\ frames'[c.level] = "calling" BY <2>1
  <2>4. c # [kind |-> "enter", level |-> level'] BY <1>4
  <2>5. c \in Outstanding' <=> c = Awaited' \/ c \in S BY <1>1, <2>4, Zenon DEF Outstanding
  <2> HIDE DEF S
  <2>6. c \in Outstanding' <=> \/ client' = "calling" /\ c.level = level'
                               \/ c.level < level' /\ frames'[c.level] = "calling"
    BY <2>2, <2>3, <2>5
  <2>7. QED BY <1>4, <2>6
<1>5. QED BY <1>1, <1>2, <1>3, <1>4

(* The sum of the places, before and after a step. *)
LEMMA Sums ==
    ASSUME Types, Types', NEW c
    PROVE  /\ Occurrences(c)
                = Count(toServer, c) + Count(toClient, c) + Count(pendingInterrupts, c)
                  + Bit(pendingCall = c) + Bit(activeCall = c) + Bit(pendingSavedReply = c)
                  + Count(Interrupted(interrupts), c) + Count(SavedReplies(interrupts), c)
           /\ Occurrences(c)'
                = Count(toServer', c) + Count(toClient', c) + Count(pendingInterrupts', c)
                  + Bit(pendingCall' = c) + Bit(activeCall' = c) + Bit(pendingSavedReply' = c)
                  + Count(Interrupted(interrupts'), c) + Count(SavedReplies(interrupts'), c)
           /\ Count(toServer, c) \in Nat /\ Count(toClient, c) \in Nat
           /\ Count(pendingInterrupts, c) \in Nat
           /\ Count(Interrupted(interrupts), c) \in Nat
           /\ Count(SavedReplies(interrupts), c) \in Nat
           /\ Count(toServer', c) \in Nat /\ Count(toClient', c) \in Nat
           /\ Count(pendingInterrupts', c) \in Nat
           /\ Count(Interrupted(interrupts'), c) \in Nat
           /\ Count(SavedReplies(interrupts'), c) \in Nat
           /\ \A b : Bit(b) \in {0, 1}
<1>1. Occurrences(c)'
        = Count(toServer', c) + Count(toClient', c) + Count(pendingInterrupts', c)
          + Bit(pendingCall' = c) + Bit(activeCall' = c) + Bit(pendingSavedReply' = c)
          + Count(Interrupted(interrupts'), c) + Count(SavedReplies(interrupts'), c)
  BY DEF Occurrences, Count, Marked, Bit, Interrupted, SavedReplies
<1>2. /\ Count(toServer', c) \in Nat /\ Count(toClient', c) \in Nat
      /\ Count(pendingInterrupts', c) \in Nat
      /\ Count(Interrupted(interrupts'), c) \in Nat
      /\ Count(SavedReplies(interrupts'), c) \in Nat
  <2>1. /\ toServer' \in Seq(Message) /\ toClient' \in Seq(Call)
        /\ pendingInterrupts' \in Seq(Call) /\ interrupts' \in Seq(Context)
    BY DEF Types, TypeOK
  <2>2. /\ Interrupted(interrupts') \in Seq(CallOrNone)
        /\ SavedReplies(interrupts') \in Seq(CallOrNone)
    BY <2>1, ContextSeqs
  <2>3. QED BY <2>1, <2>2, CountMsgs
<1>3. \A b : Bit(b) \in {0, 1} BY DEF Bit
<1>4. QED BY <1>1, <1>2, <1>3, OccurrencesSum, CountsAreNat

InServer(c) == \E m \in Msgs(toServer) : CarriedBy(m) = c
InClient(c) == c \in Msgs(toClient)
InWaiting(c) == c \in Msgs(pendingInterrupts)
InInterrupted(c) == \E i \in 1 .. Len(interrupts) : interrupts[i].interruptedCall = c
InSaved(c) == \E i \in 1 .. Len(interrupts) : interrupts[i].savedReply = c

LEMMA PlacesCount ==
    ASSUME Types, NEW c \in Call
    PROVE  /\ InServer(c) <=> Count(toServer, c) > 0
           /\ InClient(c) <=> Count(toClient, c) > 0
           /\ InWaiting(c) <=> Count(pendingInterrupts, c) > 0
           /\ InInterrupted(c) <=> Count(Interrupted(interrupts), c) > 0
           /\ InSaved(c) <=> Count(SavedReplies(interrupts), c) > 0
<1>1. /\ toServer \in Seq(Message) /\ toClient \in Seq(Call)
      /\ pendingInterrupts \in Seq(Call) /\ interrupts \in Seq(Context)
  BY DEF Types, TypeOK
<1>2. \A m \in Call : CarriedBy(m) = m BY CarriedCall DEF CallOrNone
<1>3. Msgs(toClient) \subseteq Call /\ Msgs(pendingInterrupts) \subseteq Call
  BY <1>1, MsgsIn
<1>4. InServer(c) <=> Count(toServer, c) > 0 BY <1>1, CountMsgs DEF InServer
<1>5. InClient(c) <=> Count(toClient, c) > 0
  <2>1. Count(toClient, c) > 0 <=> \E m \in Msgs(toClient) : CarriedBy(m) = c
    BY <1>1, CountMsgs
  <2>2. QED BY <1>2, <1>3, <2>1 DEF InClient
<1>6. InWaiting(c) <=> Count(pendingInterrupts, c) > 0
  <2>1. Count(pendingInterrupts, c) > 0 <=> \E m \in Msgs(pendingInterrupts) : CarriedBy(m) = c
    BY <1>1, CountMsgs
  <2>2. QED BY <1>2, <1>3, <2>1 DEF InWaiting
<1>7. ASSUME NEW s \in Seq(CallOrNone), Len(s) = Len(interrupts)
      PROVE  Count(s, c) > 0 <=> \E i \in 1 .. Len(interrupts) : s[i] = c
  <2>1. Count(s, c) \in Nat
        /\ (Count(s, c) = 0 <=> \A i \in 1 .. Len(s) : CarriedBy(s[i]) # c)
    BY CountNat
  <2>2. \A i \in 1 .. Len(s) : CarriedBy(s[i]) = s[i] BY ElementOfSeq, CarriedCall
  <2>3. Count(s, c) > 0 <=> Count(s, c) # 0 BY <2>1
  <2>4. QED BY <1>7, <2>1, <2>2, <2>3
<1>8. /\ Interrupted(interrupts) \in Seq(CallOrNone)
      /\ Len(Interrupted(interrupts)) = Len(interrupts)
      /\ SavedReplies(interrupts) \in Seq(CallOrNone)
      /\ Len(SavedReplies(interrupts)) = Len(interrupts)
      /\ \A i \in 1 .. Len(interrupts) :
            /\ Interrupted(interrupts)[i] = interrupts[i].interruptedCall
            /\ SavedReplies(interrupts)[i] = interrupts[i].savedReply
  BY <1>1, ContextSeqs
<1>9. InInterrupted(c) <=> Count(Interrupted(interrupts), c) > 0
  BY <1>7, <1>8 DEF InInterrupted
<1>10. InSaved(c) <=> Count(SavedReplies(interrupts), c) > 0 BY <1>7, <1>8 DEF InSaved
<1>11. QED BY <1>4, <1>5, <1>6, <1>9, <1>10

(* A call that is in one place is in no other. *)
LEMMA OnePlace ==
    ASSUME Types, AtMostOnce, NEW c \in Call
    PROVE  /\ InClient(c) => /\ ~InServer(c) /\ ~InWaiting(c) /\ ~InSaved(c)
                             /\ pendingCall # c /\ activeCall # c
           /\ InServer(c) => pendingCall # c /\ pendingSavedReply # c
           /\ InSaved(c) => ~InInterrupted(c) /\ pendingSavedReply # c
<1> DEFINE a == Count(toServer, c)
           b == Count(toClient, c)
           d == Count(pendingInterrupts, c)
           e == Bit(pendingCall = c)
           f == Bit(activeCall = c)
           g == Bit(pendingSavedReply = c)
           h == Count(Interrupted(interrupts), c)
           k == Count(SavedReplies(interrupts), c)
<1>1. a \in Nat /\ b \in Nat /\ d \in Nat /\ h \in Nat /\ k \in Nat BY CountsAreNat
<1>2. e \in Nat /\ f \in Nat /\ g \in Nat BY DEF Bit
<1>3. a + b + d + e + f + g + h + k <= 1 BY OccurrencesSum DEF AtMostOnce
<1>4. /\ pendingCall = c => e > 0
      /\ activeCall = c => f > 0
      /\ pendingSavedReply = c => g > 0
  BY DEF Bit
<1>5. /\ InServer(c) <=> a > 0
      /\ InClient(c) <=> b > 0
      /\ InWaiting(c) <=> d > 0
      /\ InInterrupted(c) <=> h > 0
      /\ InSaved(c) <=> k > 0
  BY PlacesCount
<1> HIDE DEF a, b, d, e, f, g, h, k
<1>6. /\ b > 0 => ~(a > 0) /\ ~(d > 0) /\ ~(e > 0) /\ ~(f > 0) /\ ~(k > 0)
      /\ a > 0 => ~(e > 0) /\ ~(g > 0)
      /\ k > 0 => ~(h > 0) /\ ~(g > 0)
  BY <1>1, <1>2, <1>3
<1>7. QED BY <1>4, <1>5, <1>6

(* A call that is somewhere is one the client waits for, and the other way round. *)
Somewhere(c) == \/ InServer(c) \/ InClient(c) \/ InWaiting(c)
                \/ pendingCall = c \/ activeCall = c \/ pendingSavedReply = c
                \/ InInterrupted(c) \/ InSaved(c)
LEMMA Awaits ==
    ASSUME Types, Exact, NEW c \in Call
    PROVE  Somewhere(c) <=> c \in Outstanding
<1> DEFINE a == Count(toServer, c)
           b == Count(toClient, c)
           d == Count(pendingInterrupts, c)
           e == Bit(pendingCall = c)
           f == Bit(activeCall = c)
           g == Bit(pendingSavedReply = c)
           h == Count(Interrupted(interrupts), c)
           k == Count(SavedReplies(interrupts), c)
           o == Bit(c \in Outstanding)
<1>1. a \in Nat /\ b \in Nat /\ d \in Nat /\ h \in Nat /\ k \in Nat BY CountsAreNat
<1>2. e \in Nat /\ f \in Nat /\ g \in Nat BY DEF Bit
<1>3. a + b + d + e + f + g + h + k = o BY OccurrencesSum DEF Exact
<1>4. /\ pendingCall = c <=> e > 0
      /\ activeCall = c <=> f > 0
      /\ pendingSavedReply = c <=> g > 0
      /\ c \in Outstanding <=> o > 0
  BY DEF Bit
<1>5. /\ InServer(c) <=> a > 0
      /\ InClient(c) <=> b > 0
      /\ InWaiting(c) <=> d > 0
      /\ InInterrupted(c) <=> h > 0
      /\ InSaved(c) <=> k > 0
  BY PlacesCount
<1> HIDE DEF a, b, d, e, f, g, h, k, o
<1>6. a > 0 \/ b > 0 \/ d > 0 \/ e > 0 \/ f > 0 \/ g > 0 \/ h > 0 \/ k > 0 <=> o > 0
  BY <1>1, <1>2, <1>3
<1>7. QED BY <1>4, <1>5, <1>6 DEF Somewhere

(* The calls under way to the server or in it, but for those that are interrupted. *)
Under == ({activeCall, pendingCall} \ {Nothing}) \cup Requests(toServer) \cup Msgs(pendingInterrupts)

LEMMA RequestForm ==
    ASSUME NEW m \in Message
    PROVE  /\ m.kind # "push" => m \in Call /\ CarriedBy(m) = m
           /\ m.kind = "push" => m.reply \in Call /\ CarriedBy(m) = m.reply
           /\ m \in Call => m.kind # "push"
BY DEF Message, Call, Pushed, CarriedBy

LEMMA UnderForm ==
    ASSUME Types
    PROVE  \A x \in Under : x \in Call /\ Somewhere(x)
<1>1. /\ toServer \in Seq(Message) /\ pendingInterrupts \in Seq(Call)
      /\ pendingCall \in CallOrNone /\ activeCall \in CallOrNone
  BY DEF Types, TypeOK
<1>2. Msgs(toServer) \subseteq Message /\ Msgs(pendingInterrupts) \subseteq Call
  BY <1>1, MsgsIn
<1>3. ASSUME NEW x \in Requests(toServer) PROVE x \in Call /\ Somewhere(x)
  <2>1. x \in Msgs(toServer) /\ x \in Message /\ x.kind # "push" BY <1>2 DEF Requests
  <2>2. x \in Call /\ CarriedBy(x) = x BY <2>1, RequestForm
  <2>3. QED BY <2>1, <2>2 DEF Somewhere, InServer
<1>4. ASSUME NEW x \in Msgs(pendingInterrupts) PROVE x \in Call /\ Somewhere(x)
  BY <1>2 DEF Somewhere, InWaiting
<1>5. ASSUME NEW x \in {activeCall, pendingCall} \ {Nothing} PROVE x \in Call /\ Somewhere(x)
  BY <1>1 DEF Somewhere, CallOrNone
<1>6. QED BY <1>3, <1>4, <1>5 DEF Under

LEMMA UnderLevels ==
    ASSUME Types, Levels, NEW x \in Under
    PROVE  /\ x.kind \in {"call", "enter", "exit"}
           /\ x.kind = "call" => x = CallAt(Depth) /\ Depth \in Level
           /\ x.kind = "exit" => x = ExitAt(Depth) /\ Depth \in Level
           /\ x.kind = "enter" => x = EnterAt(x.level)
<1>1. x \in Call BY UnderForm
<1>2. x \in CallOrNone /\ x # Nothing BY <1>1 DEF CallOrNone, Call, Nothing
<1>3. x.kind # "enter" => x.level = Depth
  <2>1. \A d : Fits(x, d) /\ x.kind # "enter" => x.level = d + 0 BY DEF Fits, Bit
  <2>2. Depth \in Int BY Numbers
  <2>3. QED BY <2>1, <2>2, <1>2 DEF Levels, Under
<1>4. QED BY <1>2, <1>3, CallForm

LEMMA ComingIs ==
    ASSUME Types, Levels, EnterComing
    PROVE  \E x \in Under : /\ x.kind = "enter"
                            /\ InServer(x) \/ InWaiting(x) \/ pendingCall = x
<1>1. toServer \in Seq(Message) /\ pendingInterrupts \in Seq(Call) BY DEF Types, TypeOK
<1>2. CASE pendingCall.kind = "enter"
  BY <1>2 DEF Under, Nothing
<1>3. CASE pendingInterrupts # <<>>
  <2>1. PICK x \in Msgs(pendingInterrupts) : TRUE BY <1>1, <1>3, MsgsIn
  <2>2. x.kind = "enter" BY DEF Levels
  <2>3. QED BY <2>1, <2>2 DEF Under, InWaiting
<1>4. CASE Has(toServer, "enter")
  <2>1. PICK x \in Msgs(toServer) : x.kind = "enter" BY <1>4 DEF Has
  <2>2. x \in Message BY <1>1, MsgsIn
  <2>3. CarriedBy(x) = x /\ x \in Requests(toServer) BY <2>1, <2>2, RequestForm DEF Requests
  <2>4. QED BY <2>1, <2>3 DEF Under, InServer
<1>5. QED BY <1>2, <1>3, <1>4 DEF EnterComing

LEMMA Alive ==
    ASSUME Whole, Ok, client # "killed"
    PROVE  /\ Sync /\ Pipeline /\ Pushes /\ Contexts /\ AtMostOnce /\ ClientSees
           /\ Nested /\ Levels /\ OneByOne /\ Exact /\ Types /\ Modes /\ ~dead
           /\ level = LevelSeen + Bit(ExitReplied)
BY DEF Whole, Protocol, Pipeline, Sync, Releasing

(* What the client's state tells about the calls under way. *)
LEMMA Underway ==
    ASSUME Whole, Ok, client # "killed"
    PROVE  /\ \A x \in Under : /\ x.kind = "exit" => client = "exiting" /\ Depth = level
                               /\ x.kind = "enter" =>
                                     x = EnterAt(level) /\ client \in {"entering", "pushing"}
                               /\ x.kind = "call" =>
                                     \/ client = "calling" /\ Depth = level
                                     \/ Depth < level /\ frames[Depth] = "calling"
           /\ EnterComing =>
                 /\ client \in {"entering", "pushing"}
                 /\ \/ InServer(EnterAt(level)) \/ InWaiting(EnterAt(level))
                    \/ pendingCall = EnterAt(level)
<1>1. Types /\ Levels /\ Exact BY Alive
<1>2. level \in Nat BY <1>1, Numbers
<1>3. ASSUME NEW x \in Under
      PROVE  /\ x.kind = "exit" => client = "exiting" /\ Depth = level
             /\ x.kind = "enter" => x = EnterAt(level) /\ client \in {"entering", "pushing"}
             /\ x.kind = "call" => \/ client = "calling" /\ Depth = level
                                   \/ Depth < level /\ frames[Depth] = "calling"
  <2>1. x \in Call /\ x \in Outstanding BY <1>1, UnderForm, Awaits
  <2>2. /\ x.kind = "call" => x = CallAt(Depth)
        /\ x.kind = "exit" => x = ExitAt(Depth)
        /\ x.kind = "enter" => x = EnterAt(x.level)
    BY <1>1, UnderLevels
  <2>3. /\ x.kind = "call" => x.level = Depth
        /\ x.kind = "exit" => x.level = Depth
    BY <2>2, CallNames
  <2>4. /\ x.kind = "enter" => client \in {"entering", "pushing"} /\ x.level = level
        /\ x.kind = "exit" => client = "exiting" /\ x.level = level
        /\ x.kind = "call" => \/ client = "calling" /\ x.level = level
                              \/ x.level < level /\ frames[x.level] = "calling"
    BY <1>2, <2>1, OutstandingIs
  <2>5. QED BY <2>2, <2>3, <2>4
<1>4. ASSUME EnterComing
      PROVE  /\ client \in {"entering", "pushing"}
             /\ \/ InServer(EnterAt(level)) \/ InWaiting(EnterAt(level))
                \/ pendingCall = EnterAt(level)
  <2>1. PICK x \in Under : /\ x.kind = "enter"
                           /\ InServer(x) \/ InWaiting(x) \/ pendingCall = x
    BY <1>1, <1>4, ComingIs
  <2>2. x = EnterAt(level) /\ client \in {"entering", "pushing"} BY <1>3, <2>1
  <2>3. QED BY <2>1, <2>2
<1>5. QED BY <1>3, <1>4

(* While the client runs its own code or waits for a call, no interrupt is under way. *)
LEMMA NoInterrupt ==
    ASSUME Whole, Ok, client \in {"user", "calling"}
    PROVE  /\ ~EnterComing /\ level = Depth /\ LevelSeen = Depth
           /\ pendingInterrupts = <<>> /\ pendingSavedReply = Nothing /\ CallsOnly
           /\ \A m \in Msgs(toServer) : m.kind = "call"
           /\ ~Has(toServer, "push")
           /\ client = "user" => toServer = <<>> /\ activeCall = Nothing /\ pendingCall = Nothing
<1>1. /\ Sync /\ Levels /\ Types /\ Modes /\ Pushes /\ level = LevelSeen + Bit(ExitReplied)
  BY Alive
<1>2. \A x \in Under : /\ x.kind = "call"
                       /\ client # "user" \/ Depth < level
  <2>1. TAKE x \in Under
  <2>2. x.kind \in {"call", "enter", "exit"} BY <1>1, UnderLevels
  <2>3. QED BY <2>2, Underway
<1>3. ~EnterComing BY Underway
<1>4. level = Depth /\ LevelSeen = Depth
  <2>1. Bit(ExitReplied) = 0 /\ Bit(EnterComing) = 0 BY <1>3 DEF Bit, ExitReplied
  <2>2. Depth \in Int BY <1>1, Numbers
  <2>3. LevelSeen = Depth BY <2>1, <2>2 DEF LevelSeen
  <2>4. QED BY <1>1, <2>1, <2>2, <2>3
<1>5. pendingInterrupts = <<>> BY <1>3 DEF EnterComing
<1>6. ~Has(toServer, "push") BY <1>1 DEF Sync
<1>7. activeCall \in CallOrNone /\ pendingCall \in CallOrNone /\ toServer \in Seq(Message)
  BY <1>1 DEF Types, TypeOK
<1>8. CallsOnly
  <2>1. activeCall # Nothing => activeCall \in Under BY DEF Under
  <2>2. pendingCall # Nothing => pendingCall \in Under BY DEF Under
  <2>3. QED BY <1>2, <2>1, <2>2 DEF CallsOnly, Nothing
<1>9. \A m \in Msgs(toServer) : m \in Under /\ m.kind = "call"
  BY <1>2, <1>6 DEF Has, Under, Requests
<1>10. pendingSavedReply = Nothing
  <2>1. pendingCall.kind # "enter" BY <1>8 DEF CallsOnly
  <2>2. mode # "enter" BY <1>1, <1>8 DEF Modes, EnterModes, CallsOnly
  <2>3. QED BY <1>1, <2>1, <2>2 DEF Pushes
<1>11. ASSUME client = "user"
       PROVE  toServer = <<>> /\ activeCall = Nothing /\ pendingCall = Nothing
  <2>1. Depth \in Int BY <1>1, Numbers
  <2>2. ~(Depth < level) BY <1>4, <2>1
  <2>3. \A x \in Under : FALSE BY <1>2, <1>11, <2>2
  <2>4. Msgs(toServer) = {} BY <1>9, <2>3
  <2>5. toServer = <<>> BY <1>7, <2>4, MsgsIn
  <2>6. QED BY <2>3, <2>5 DEF Under
<1>12. QED BY <1>3, <1>4, <1>5, <1>6, <1>8, <1>9, <1>10, <1>11

(* Steps that leave the flow of calls alone, and steps that move calls. *)
LEMMA SameOutstanding ==
    ASSUME UNCHANGED <<client, level, frames>>
    PROVE  \A c : c \in Outstanding' <=> c \in Outstanding
BY DEF Outstanding, Awaited

LEMMA KeptCalls ==
    ASSUME UNCHANGED <<client, level, frames>>,
           \A c \in Call : Occurrences(c)' = Occurrences(c)
    PROVE  /\ AtMostOnce => AtMostOnce'
           /\ Exact => Exact'
<1>1. \A c : c \in Outstanding' <=> c \in Outstanding BY SameOutstanding
<1>2. AtMostOnce => AtMostOnce' BY DEF AtMostOnce
<1>3. ASSUME Exact, NEW c \in Call PROVE Occurrences(c)' = Bit(c \in Outstanding')
  <2>1. Occurrences(c) = Bit(c \in Outstanding) BY <1>3 DEF Exact
  <2>2. Bit(c \in Outstanding') = Bit(c \in Outstanding) BY <1>1 DEF Bit
  <2>3. QED BY <2>1, <2>2
<1>4. Exact => Exact' BY <1>3 DEF Exact
<1>5. QED BY <1>2, <1>4

LEMMA SameFlow ==
    ASSUME Types, UNCHANGED flowVars, Taken' = Taken
    PROVE  /\ Depth' = Depth /\ LevelSeen' = LevelSeen /\ EnterComing' = EnterComing
           /\ \A c : Occurrences(c)' = Occurrences(c)
<1> USE DEF flowVars
<1>1. Depth' = Depth BY DEF Depth
<1>2. EnterComing' = EnterComing BY DEF EnterComing, Has, Msgs
<1>3. LevelSeen' = LevelSeen BY <1>1, <1>2 DEF LevelSeen
<1>4. \A c : Occurrences(c)' = Occurrences(c) BY DEF Occurrences
<1>5. QED BY <1>1, <1>2, <1>3, <1>4

LEMMA FlowFrame ==
    ASSUME Whole, UNCHANGED flowVars, Taken' = Taken,
           error' = error \/ error' # "none", dead' = dead \/ dead' = TRUE
    PROVE  Protocol'
<1>1. Types /\ Protocol /\ dead \in BOOLEAN BY DEF Whole, Types, TypeOK
<1>2. /\ Depth' = Depth /\ LevelSeen' = LevelSeen
      /\ \A c : Occurrences(c)' = Occurrences(c)
  BY <1>1, SameFlow
<1>3. /\ UNCHANGED <<pendingCall, activeCall, pendingInterrupts, interrupts, pendingSavedReply>>
      /\ UNCHANGED <<mode, toServer, toClient, client, level, frames, pushAcked>>
  BY DEF flowVars
<1>4. Ok' => Ok BY DEF Ok
<1>5. ClientSees' BY <1>1, <1>3 DEF Protocol, ClientSees, Caller, CallAt, EnterAt, ExitAt
<1>6. Nested => Nested' BY <1>3 DEF Nested
<1>7. Levels => Levels' BY <1>2, <1>3 DEF Levels, Fits, Bit, Requests, Msgs, Nothing
<1>8. OneByOne => OneByOne'
  BY <1>3 DEF OneByOne, CallsOnly, Requests, Msgs, Has, Orderly, Nothing
<1>9. Pushes => Pushes' BY <1>1, <1>2, <1>3 DEF Pushes, Msgs, Has, CallAt, Nothing
<1>10. Contexts => Contexts'
  BY <1>3 DEF Contexts, InterruptedAt, SavedAt, CallAt, Nothing
<1>11. (AtMostOnce => AtMostOnce') /\ (Exact => Exact') BY <1>2, <1>3, KeptCalls
<1>12. (Exact /\ Sync) => Sync'
  BY <1>2, <1>3, <1>11 DEF Sync, ExitReplied, Bit, Has, Msgs, CallComing
<1>13. Sync => Exact BY DEF Sync
<1>14. QED
  BY <1>1, <1>3, <1>4, <1>5, <1>6, <1>7, <1>8, <1>9, <1>10, <1>11, <1>12, <1>13
  DEF Protocol, Pipeline

LEMMA QuietFlow ==
    ASSUME Whole, [Next]_vars, UNCHANGED flowVars, UNCHANGED Starting,
           error' = error \/ error' # "none", dead' = dead \/ dead' = TRUE
    PROVE  Protocol'
<1>1. Taken' = Taken BY DEF Taken, flowVars
<1>2. QED BY <1>1, FlowFrame

LEMMA SameSees ==
    ASSUME ClientSees, UNCHANGED <<client, level, frames, toClient>>
    PROVE  ClientSees'
BY DEF ClientSees, Caller, CallAt, EnterAt, ExitAt

LEMMA SyncKept ==
    ASSUME Sync, UNCHANGED <<client, level, frames, toClient>>,
           LevelSeen' = LevelSeen, CallComing' => CallComing,
           Has(toServer, "push")' <=> client = "pushing" /\ ~pushAcked',
           pushAcked' => client = "pushing",
           Has(toClient, "enter") => mode' # "popping",
           \A c \in Call : Occurrences(c)' = Occurrences(c)
    PROVE  Sync'
<1>1. Exact' BY KeptCalls DEF Sync
<1>2. Has(toClient, "enter")' <=> Has(toClient, "enter") BY DEF Has, Msgs
<1>3. ExitReplied' = ExitReplied BY DEF ExitReplied
<1>4. Bit(ExitReplied)' = Bit(ExitReplied) BY <1>3 DEF Bit
<1>5. QED BY <1>1, <1>2, <1>3, <1>4 DEF Sync

LEMMA HeadOfServer ==
    ASSUME Types, Orderly(toServer), toServer # <<>>
    PROVE  /\ Head(toServer) \in Message /\ Head(toServer) \in Msgs(toServer)
           /\ Tail(toServer) \in Seq(Message) /\ Orderly(Tail(toServer))
           /\ Msgs(toServer) = Msgs(Tail(toServer)) \cup {Head(toServer)}
           /\ \A m \in Msgs(Tail(toServer)) :
                 /\ m \in Message
                 /\ \/ Head(toServer).kind = "call" /\ m.kind = "enter"
                    \/ Head(toServer).kind = "enter" /\ m.kind = "push"
           /\ \A c : Count(toServer, c)
                       = Count(Tail(toServer), c) + Bit(CarriedBy(Head(toServer)) = c)
<1>1. toServer \in Seq(Message) BY DEF Types
<1>2. Head(toServer) \in Message /\ Tail(toServer) \in Seq(Message)
  BY <1>1, HeadTailProperties
<1>3. Msgs(toServer) = Msgs(Tail(toServer)) \cup {Head(toServer)} BY <1>1, MsgsTail
<1>4. Msgs(Tail(toServer)) \subseteq Message BY <1>2, MsgsIn
<1>5. QED BY <1>1, <1>2, <1>3, <1>4, OrderlyTail, CountTail

(* How often a call is in each of its places. *)
NServer(c) == Count(toServer, c)
NClient(c) == Count(toClient, c)
NWaiting(c) == Count(pendingInterrupts, c)
NPending(c) == Bit(pendingCall = c)
NActive(c) == Bit(activeCall = c)
NPushed(c) == Bit(pendingSavedReply = c)
NInterrupted(c) == Count(Interrupted(interrupts), c)
NSaved(c) == Count(SavedReplies(interrupts), c)

Counted(c) ==
    /\ Occurrences(c) = NServer(c) + NClient(c) + NWaiting(c) + NPending(c)
                        + NActive(c) + NPushed(c) + NInterrupted(c) + NSaved(c)
    /\ NServer(c) \in Nat /\ NClient(c) \in Nat /\ NWaiting(c) \in Nat
    /\ NPending(c) \in Nat /\ NActive(c) \in Nat /\ NPushed(c) \in Nat
    /\ NInterrupted(c) \in Nat /\ NSaved(c) \in Nat

LEMMA Total ==
    ASSUME Types, Types', NEW c
    PROVE  Counted(c) /\ Counted(c)'
<1>1. \A b : Bit(b) \in Nat BY DEF Bit
<1> USE DEF NServer, NClient, NWaiting, NPending, NActive, NPushed, NInterrupted, NSaved
<1>2. Counted(c) BY <1>1, OccurrencesSum, CountsAreNat, Zenon DEF Counted
<1>3. Counted(c)' BY <1>1, Sums, Zenon DEF Counted
<1>4. QED BY <1>2, <1>3

LEMMA SameCounts ==
    ASSUME NEW c
    PROVE  /\ toServer' = toServer => NServer(c)' = NServer(c)
           /\ toClient' = toClient => NClient(c)' = NClient(c)
           /\ pendingInterrupts' = pendingInterrupts => NWaiting(c)' = NWaiting(c)
           /\ pendingCall' = pendingCall => NPending(c)' = NPending(c)
           /\ activeCall' = activeCall => NActive(c)' = NActive(c)
           /\ pendingSavedReply' = pendingSavedReply => NPushed(c)' = NPushed(c)
           /\ interrupts' = interrupts =>
                 NInterrupted(c)' = NInterrupted(c) /\ NSaved(c)' = NSaved(c)
BY DEF NServer, NClient, NWaiting, NPending, NActive, NPushed, NInterrupted, NSaved, Count,
       Marked, CarriedBy, Bit, Interrupted, SavedReplies

(* The counts when the context on top changes. *)
TopChanged == /\ interrupts # <<>> /\ Len(interrupts') = Len(interrupts)
              /\ \A j \in 1 .. Len(interrupts) : j # Len(interrupts) => interrupts'[j] = interrupts[j]

LEMMA TopCounts ==
    ASSUME Types, Types', TopChanged, NEW x
    PROVE  /\ NInterrupted(x)' + Bit(interrupts[Len(interrupts)].interruptedCall = x)
                = NInterrupted(x) + Bit(interrupts'[Len(interrupts)].interruptedCall = x)
           /\ NSaved(x)' + Bit(interrupts[Len(interrupts)].savedReply = x)
                = NSaved(x) + Bit(interrupts'[Len(interrupts)].savedReply = x)
<1>1. interrupts \in Seq(Context) /\ interrupts' \in Seq(Context) BY DEF Types, TypeOK
<1>2. /\ Count(Interrupted(interrupts'), x) + Bit(interrupts[Len(interrupts)].interruptedCall = x)
           = Count(Interrupted(interrupts), x) + Bit(interrupts'[Len(interrupts)].interruptedCall = x)
      /\ Count(SavedReplies(interrupts'), x) + Bit(interrupts[Len(interrupts)].savedReply = x)
           = Count(SavedReplies(interrupts), x) + Bit(interrupts'[Len(interrupts)].savedReply = x)
  <2>1. TopChanged OBVIOUS
  <2>2. QED BY <1>1, <2>1, CountTopChanged DEF TopChanged
<1>3. QED BY <1>2 DEF NInterrupted, NSaved

LEMMA SameInterrupted ==
    ASSUME Types, Types', TopChanged, NEW x,
           interrupts'[Len(interrupts)].interruptedCall = interrupts[Len(interrupts)].interruptedCall
    PROVE  NInterrupted(x)' = NInterrupted(x)
<1>1. NInterrupted(x) \in Nat /\ NInterrupted(x)' \in Nat BY Total DEF Counted
<1>2. NInterrupted(x)' + Bit(interrupts[Len(interrupts)].interruptedCall = x)
        = NInterrupted(x) + Bit(interrupts'[Len(interrupts)].interruptedCall = x)
  BY TopCounts
<1> DEFINE b == Bit(interrupts[Len(interrupts)].interruptedCall = x)
<1>3. b \in Nat /\ b = Bit(interrupts'[Len(interrupts)].interruptedCall = x) BY DEF Bit
<1>4. NInterrupted(x)' + b = NInterrupted(x) + b BY <1>2, <1>3
<1> HIDE DEF b
<1>5. b \in Nat BY <1>3
<1>6. \A p, q, s \in Nat : p + s = q + s => p = q OBVIOUS
<1>7. QED BY <1>1, <1>4, <1>5, <1>6

LEMMA SavedOne ==
    ASSUME Types, Types', TopChanged, NEW x \in Call, NEW r,
           interrupts[Len(interrupts)].savedReply = Nothing,
           interrupts'[Len(interrupts)].savedReply = r
    PROVE  NSaved(x)' = NSaved(x) + Bit(r = x)
<1>1. NSaved(x) \in Nat /\ NSaved(x)' \in Nat BY Total DEF Counted
<1>2. NSaved(x)' + Bit(interrupts[Len(interrupts)].savedReply = x)
        = NSaved(x) + Bit(interrupts'[Len(interrupts)].savedReply = x)
  BY TopCounts
<1>3. Bit(interrupts[Len(interrupts)].savedReply = x) = 0 BY DEF Bit, Nothing, Call
<1>4. NSaved(x)' + 0 = NSaved(x) + Bit(r = x) BY <1>2, <1>3
<1>5. Bit(r = x) \in Nat BY DEF Bit
<1> DEFINE b == Bit(r = x)
<1> HIDE DEF b
<1>6. \A p, q, s \in Nat : p + 0 = q + s => p = q + s OBVIOUS
<1>7. QED BY <1>1, <1>4, <1>5, <1>6

LEMMA Fewer ==
    ASSUME NEW c, Counted(c), Counted(c)', NServer(c)' <= NServer(c),
           NClient(c)' = NClient(c), NWaiting(c)' = NWaiting(c), NPending(c)' = NPending(c),
           NActive(c)' <= NActive(c), NPushed(c)' = NPushed(c),
           NInterrupted(c)' = NInterrupted(c), NSaved(c)' = NSaved(c)
    PROVE  Occurrences(c)' <= Occurrences(c) /\ Occurrences(c)' \in Nat /\ Occurrences(c) \in Nat
BY DEF Counted

(* A thread that is dead ignores what arrives. *)
LEMMA DeadIgnores ==
    ASSUME Whole, Ok, dead, toServer # <<>>, toServer' = Tail(toServer), Taken' = Taken,
           UNCHANGED <<pendingCall, activeCall, pendingInterrupts, interrupts,
                       pendingSavedReply, mode, toClient, client, level, frames, dead, error>>,
           Types'
    PROVE  Protocol'
<1>1. /\ Types /\ Nested /\ Levels /\ OneByOne /\ Pushes /\ Contexts /\ AtMostOnce
      /\ ClientSees /\ client = "killed" /\ Modes
  BY DEF Whole, Protocol, Pipeline, Releasing
<1>2. Orderly(toServer) BY <1>1 DEF OneByOne
<1>3. /\ Msgs(toServer') \subseteq Msgs(toServer) /\ Orderly(toServer')
      /\ \A c : Count(toServer, c) = Count(toServer', c) + Bit(CarriedBy(Head(toServer)) = c)
      /\ Head(toServer) \in Msgs(toServer)
      /\ Msgs(toServer) = Msgs(toServer') \cup {Head(toServer)}
  BY <1>1, <1>2, HeadOfServer
<1>4. Requests(toServer') \subseteq Requests(toServer) BY <1>3 DEF Requests
<1>5. \A k : Has(toServer', k) => Has(toServer, k) BY <1>3 DEF Has
<1>6. Depth' = Depth BY DEF Depth
<1>7. Nested' BY <1>1 DEF Nested
<1>8. Levels' BY <1>1, <1>4, <1>6 DEF Levels, Fits, Bit, Msgs, Nothing
<1>9. OneByOne' BY <1>1, <1>3, <1>4, <1>5 DEF OneByOne, CallsOnly, Nothing
<1>10. Pushes'
  <2>1. CASE pendingSavedReply = Nothing BY <2>1 DEF Pushes, Nothing
  <2>2. CASE pendingSavedReply # Nothing
    <3>1. pendingCall.kind = "enter" \/ mode = "enter" BY <1>1, <2>2 DEF Pushes
    <3>2. activeCall # Nothing \/ pendingCall # Nothing
      BY <1>1, <3>1 DEF Modes, EnterModes, Nothing
    <3>3. ~CallsOnly BY <1>1, <3>1 DEF CallsOnly, Modes, EnterModes
    <3>4. Requests(toServer) = {} BY <1>1, <3>2, <3>3 DEF OneByOne
    <3>5. ~Has(toServer, "enter") /\ ~Has(toServer', "enter")
      BY <1>5, <3>4 DEF Has, Requests
    <3>6. EnterComing' <=> EnterComing BY <3>5 DEF EnterComing
    <3>7. LevelSeen' = LevelSeen BY <1>6, <3>6 DEF LevelSeen, Bit
    <3>8. QED BY <1>1, <3>7 DEF Pushes, CallAt, Nothing
  <2>3. QED BY <2>1, <2>2
<1>11. Contexts' BY <1>1 DEF Contexts, InterruptedAt, SavedAt, CallAt, Nothing
<1>12. AtMostOnce'
  <2>1. ASSUME NEW c \in Call PROVE Occurrences(c)' <= 1
    <3>1. NServer(c)' <= NServer(c)
      <4>1. NServer(c) = NServer(c)' + Bit(CarriedBy(Head(toServer)) = c)
        BY <1>3 DEF NServer
      <4>2. Bit(CarriedBy(Head(toServer)) = c) \in {0, 1} /\ NServer(c)' \in Nat
        BY <1>1, Total DEF Bit, Counted
      <4>3. QED BY <4>1, <4>2
    <3>2. Occurrences(c) <= 1 BY <1>1 DEF AtMostOnce
    <3>3. /\ NClient(c)' = NClient(c) /\ NWaiting(c)' = NWaiting(c)
          /\ NPending(c)' = NPending(c) /\ NActive(c)' = NActive(c)
          /\ NPushed(c)' = NPushed(c) /\ NInterrupted(c)' = NInterrupted(c)
          /\ NSaved(c)' = NSaved(c)
      BY SameCounts
    <3>4. Counted(c) /\ Counted(c)' BY <1>1, Total
    <3>5. /\ NActive(c)' <= NActive(c) /\ Occurrences(c)' <= Occurrences(c)
          /\ Occurrences(c)' \in Nat /\ Occurrences(c) \in Nat
      <4>1. NActive(c)' <= NActive(c) BY <3>3, <3>4 DEF Counted
      <4>2. QED BY <3>1, <3>3, <3>4, <4>1, Fewer
    <3>6. \A a, b \in Nat : a <= b /\ b <= 1 => a <= 1 OBVIOUS
    <3>7. QED BY <3>2, <3>5, <3>6
  <2>2. QED BY <2>1 DEF AtMostOnce
<1>13. ClientSees' BY <1>1, SameSees
<1>14. QED BY <1>1, <1>7, <1>8, <1>9, <1>10, <1>11, <1>12, <1>13 DEF Protocol, Pipeline

LEMMA Parts ==
    ASSUME Whole, Ok
    PROVE  /\ Types /\ Modes /\ Nested /\ Levels /\ OneByOne /\ Pushes /\ Contexts
           /\ AtMostOnce /\ ClientSees /\ Orderly(toServer)
           /\ client # "killed" => Sync
BY DEF Whole, Protocol, Pipeline, OneByOne

LEMMA Together ==
    ASSUME ClientSees', Nested', Levels', OneByOne', Pushes', Contexts', AtMostOnce',
           client' # "killed" => Sync'
    PROVE  Protocol'
BY DEF Protocol, Pipeline

(* What is known of a request that arrives. *)
LEMMA Arrives ==
    ASSUME Whole, ReceiveCall
    PROVE  /\ Ok /\ toServer # <<>> /\ toServer' = Tail(toServer)
           /\ Head(toServer).kind \in {"call", "enter", "exit"}
           /\ Head(toServer) \in Call /\ Head(toServer) \in Requests(toServer)
           /\ CarriedBy(Head(toServer)) = Head(toServer)
           /\ pendingSavedReply = Nothing /\ pendingInterrupts = <<>>
           /\ UNCHANGED <<activeCall, interrupts, pendingSavedReply, mode, client, level, frames>>
           /\ UNCHANGED <<pushAcked, toClient, dead, pc, Starting>>
<1>1. /\ Ok /\ toServer # <<>> /\ toServer' = Tail(toServer) /\ Head(toServer).kind # "push"
  BY DEF ReceiveCall, Receiving
<1>2. Types /\ Modes /\ OneByOne /\ Pushes /\ Orderly(toServer) BY <1>1, Parts
<1>3. Head(toServer) \in Message /\ Head(toServer) \in Msgs(toServer)
  BY <1>1, <1>2, HeadOfServer
<1>4. /\ Head(toServer) \in Call /\ Head(toServer) \in Requests(toServer)
      /\ CarriedBy(Head(toServer)) = Head(toServer)
  BY <1>1, <1>3, RequestForm DEF Requests
<1>5. Head(toServer).kind \in {"call", "enter", "exit"} BY <1>4 DEF Call
<1>6. pendingInterrupts = <<>> BY <1>2, <1>4 DEF OneByOne
<1>7. pendingSavedReply = Nothing
  <2>1. ASSUME pendingSavedReply # Nothing PROVE FALSE
    <3>1. pendingCall.kind = "enter" \/ mode = "enter" BY <1>2, <2>1 DEF Pushes
    <3>2. activeCall # Nothing \/ pendingCall # Nothing
      BY <1>2, <3>1 DEF Modes, EnterModes, Nothing
    <3>3. ~CallsOnly BY <1>2, <3>1 DEF CallsOnly, Modes, EnterModes
    <3>4. QED BY <1>2, <1>4, <3>2, <3>3 DEF OneByOne
  <2>2. QED BY <2>1
<1>8. /\ UNCHANGED <<activeCall, interrupts, pendingSavedReply, mode, client, level, frames>>
      /\ UNCHANGED <<pushAcked, toClient, dead, pc>>
  BY DEF ReceiveCall, interruptVars, lifeVars
<1>9. Starting' = Starting BY <1>8, SamePlaces
<1>10. QED BY <1>1, <1>4, <1>5, <1>6, <1>7, <1>8, <1>9

LEMMA ReceiveFirst ==
    ASSUME Whole, Types', ReceiveCall, ~dead, pendingCall = Nothing
    PROVE  Protocol' /\ error' = error
<1> DEFINE c == Head(toServer)
<1>1. /\ Ok /\ toServer # <<>> /\ toServer' = Tail(toServer)
      /\ c.kind \in {"call", "enter", "exit"} /\ c \in Call /\ c \in Requests(toServer)
      /\ CarriedBy(c) = c /\ pendingSavedReply = Nothing /\ pendingInterrupts = <<>>
      /\ UNCHANGED <<activeCall, interrupts, pendingSavedReply, mode, client, level, frames>>
      /\ UNCHANGED <<pushAcked, toClient, dead, pc, Starting>>
  BY Arrives
<1>2. /\ Types /\ Modes /\ Nested /\ Levels /\ OneByOne /\ Pushes /\ Contexts
      /\ AtMostOnce /\ ClientSees /\ Orderly(toServer) /\ (client # "killed" => Sync)
  BY <1>1, Parts
<1>3. pendingCall' = c /\ UNCHANGED <<pendingInterrupts, error>> BY DEF ReceiveCall
<1>4. /\ Msgs(toServer) = Msgs(toServer') \cup {c} /\ Orderly(toServer')
      /\ \A m \in Msgs(toServer') : \/ c.kind = "call" /\ m.kind = "enter"
                                    \/ c.kind = "enter" /\ m.kind = "push"
      /\ \A x : Count(toServer, x) = Count(toServer', x) + Bit(c = x)
  BY <1>1, <1>2, HeadOfServer
<1> HIDE DEF c
<1>5. ~Starting BY <1>2 DEF Modes
<1>6. ~Taken /\ ~Taken' BY <1>1, <1>5 DEF Taken
<1>7. Depth' = Depth BY <1>1, <1>6 DEF Depth, Bit
<1>8. EnterComing' <=> EnterComing
  BY <1>1, <1>3, <1>4 DEF EnterComing, Has, Nothing
<1>9. LevelSeen' = LevelSeen BY <1>7, <1>8 DEF LevelSeen, Bit
<1>10. Nested' BY <1>1, <1>2, <1>6 DEF Nested
<1>11. Levels'
  <2>1. Fits(c, Depth) BY <1>1, <1>2 DEF Levels
  <2>2. Requests(toServer') \subseteq Requests(toServer) BY <1>4 DEF Requests
  <2>3. \A m \in Requests(toServer') : Fits(m, Depth) BY <1>2, <2>2 DEF Levels
  <2>4. QED
    BY <1>1, <1>2, <1>3, <1>7, <2>1, <2>3, MsgsEmpty DEF Levels, Nothing, Fits, Bit
<1>12. OneByOne'
  <2>1. activeCall # Nothing => activeCall.kind = "call" /\ c.kind = "enter"
    <3>1. HAVE activeCall # Nothing
    <3>2. CallsOnly /\ ~Has(toServer, "call") /\ ~Has(toServer, "exit")
      BY <1>1, <1>2, <3>1 DEF OneByOne
    <3>3. c.kind = "enter" BY <1>1, <1>4, <3>2 DEF Has
    <3>4. activeCall \in CallOrNone BY <1>2 DEF Types, TypeOK
    <3>5. QED BY <3>1, <3>2, <3>3, <3>4, CallForm DEF CallsOnly
  <2>2. Requests(toServer') # {} => activeCall = Nothing /\ c.kind = "call"
    BY <1>4, <2>1 DEF Requests
  <2>3. Requests(toServer') # {} => ~Has(toServer', "call") /\ ~Has(toServer', "exit")
    BY <1>4 DEF Requests, Has
  <2>4. QED
    BY <1>1, <1>3, <1>4, <2>1, <2>2, <2>3 DEF OneByOne, CallsOnly, Nothing
<1>13. Pushes'
  <2>1. ASSUME NEW m \in Msgs(toServer'), m.kind = "push"
        PROVE  /\ m.reply = CallAt(LevelSeen - 1) /\ c.kind = "enter"
               /\ activeCall.kind # "exit"
    BY <1>2, <1>4, <2>1 DEF Pushes
  <2>2. QED BY <1>1, <1>3, <1>9, <2>1 DEF Pushes, CallAt, Nothing
<1>14. Contexts'
  BY <1>1, <1>2, <1>6 DEF Contexts, InterruptedAt, SavedAt, CallAt, Nothing
<1>15. ASSUME NEW x \in Call PROVE Occurrences(x)' = Occurrences(x)
  <2>1. Counted(x) /\ Counted(x)' BY <1>2, Total
  <2>2. /\ NServer(x) = NServer(x)' + Bit(c = x) /\ NPending(x)' = Bit(c = x)
    BY <1>3, <1>4 DEF NServer, NPending
  <2>3. NPending(x) = 0 BY DEF NPending, Bit, Nothing, Call
  <2>4. /\ NClient(x)' = NClient(x) /\ NWaiting(x)' = NWaiting(x)
        /\ NActive(x)' = NActive(x) /\ NPushed(x)' = NPushed(x)
        /\ NInterrupted(x)' = NInterrupted(x) /\ NSaved(x)' = NSaved(x)
    BY <1>1, <1>3, SameCounts
  <2>5. Bit(c = x) \in {0, 1} BY DEF Bit
  <2>6. QED BY <2>1, <2>2, <2>3, <2>4, <2>5 DEF Counted
<1>16. AtMostOnce' BY <1>1, <1>2, <1>15, KeptCalls
<1>17. ASSUME client # "killed" PROVE Sync'
  <2>1. Has(toServer', "push") <=> Has(toServer, "push") BY <1>1, <1>4 DEF Has
  <2>2. CallComing' => CallComing BY <1>1, <1>3, <1>4 DEF CallComing, Has
  <2>3. Sync BY <1>2, <1>17
  <2>4. QED BY <1>1, <1>9, <1>15, <2>1, <2>2, <2>3, SyncKept DEF Sync
<1>18. ClientSees' BY <1>1, <1>2, SameSees
<1>19. QED
  BY <1>1, <1>3, <1>10, <1>11, <1>12, <1>13, <1>14, <1>16, <1>17, <1>18, Together

(* An interrupt_enter that finds a call pending is kept; no reply is being pushed then. *)
LEMMA ReceiveQueued ==
    ASSUME Whole, Types', ReceiveCall, ~dead, pendingCall # Nothing
    PROVE  Protocol' /\ error' = error
<1> DEFINE c == Head(toServer)
<1>1. /\ Ok /\ toServer # <<>> /\ toServer' = Tail(toServer)
      /\ c.kind \in {"call", "enter", "exit"} /\ c \in Call /\ c \in Requests(toServer)
      /\ CarriedBy(c) = c /\ pendingSavedReply = Nothing /\ pendingInterrupts = <<>>
      /\ UNCHANGED <<activeCall, interrupts, pendingSavedReply, mode, client, level, frames>>
      /\ UNCHANGED <<pushAcked, toClient, dead, pc, Starting>>
  BY Arrives
<1>2. /\ Types /\ Modes /\ Nested /\ Levels /\ OneByOne /\ Pushes /\ Contexts
      /\ AtMostOnce /\ ClientSees /\ Orderly(toServer) /\ (client # "killed" => Sync)
  BY <1>1, Parts
<1>3. CallsOnly /\ ~Has(toServer, "call") /\ ~Has(toServer, "exit")
  BY <1>1, <1>2 DEF OneByOne
<1>4. c.kind = "enter" BY <1>1, <1>3 DEF Has, Requests
<1>5. pendingInterrupts' = Append(pendingInterrupts, c) /\ UNCHANGED <<pendingCall, error>>
  BY <1>4 DEF ReceiveCall
<1>6. /\ Msgs(toServer) = Msgs(toServer') \cup {c} /\ Orderly(toServer')
      /\ \A m \in Msgs(toServer') : \/ c.kind = "call" /\ m.kind = "enter"
                                    \/ c.kind = "enter" /\ m.kind = "push"
      /\ \A m \in Msgs(toServer') : m \in Message
      /\ \A x : Count(toServer, x) = Count(toServer', x) + Bit(c = x)
  BY <1>1, <1>2, HeadOfServer
<1> HIDE DEF c
<1>7. pendingInterrupts \in Seq(Call) /\ activeCall \in CallOrNone /\ pendingCall \in CallOrNone
  BY <1>2 DEF Types, TypeOK
<1>8. /\ Msgs(pendingInterrupts') = {c} /\ Len(pendingInterrupts') = 1
      /\ pendingInterrupts' # <<>>
      /\ \A x : Count(pendingInterrupts', x) = Count(pendingInterrupts, x) + Bit(c = x)
  <2>1. c \in Call /\ CarriedBy(c) = c BY <1>1
  <2>2. Msgs(Append(pendingInterrupts, c)) = Msgs(pendingInterrupts) \cup {c}
    BY <1>7, <2>1, MsgsAppend
  <2>3. ASSUME NEW x
        PROVE  Count(Append(pendingInterrupts, c), x) = Count(pendingInterrupts, x) + Bit(c = x)
    BY <1>7, <2>1, CountAppend
  <2>4. Len(pendingInterrupts') = 1 /\ pendingInterrupts' # <<>> BY <1>1, <1>5
  <2>5. Msgs(pendingInterrupts) = {} BY <1>1, MsgsEmpty
  <2>6. QED BY <1>5, <2>2, <2>3, <2>4, <2>5
<1>9. pendingCall.kind = "call" /\ activeCall = Nothing /\ pendingCall = CallAt(Depth)
  <2>1. pendingCall.kind = "call" BY <1>3, <1>7, CallForm DEF CallsOnly
  <2>2. activeCall = Nothing BY <1>2, <2>1 DEF OneByOne
  <2>3. pendingCall \in Under BY DEF Under
  <2>4. QED BY <1>2, <2>1, <2>2, <2>3, UnderLevels
<1>10. Taken' = Taken BY <1>1, <1>5 DEF Taken
<1>11. Depth' = Depth BY <1>1, <1>10 DEF Depth
<1>12. EnterComing /\ EnterComing'
  BY <1>1, <1>4, <1>6, <1>8 DEF EnterComing, Has
<1>13. LevelSeen' = LevelSeen /\ LevelSeen - 1 = Depth
  <2>1. Bit(EnterComing) = 1 /\ Bit(EnterComing)' = 1 BY <1>12 DEF Bit
  <2>2. Depth \in Int BY <1>2, Numbers
  <2>3. QED BY <1>11, <2>1, <2>2 DEF LevelSeen
<1>14. \A m \in Msgs(toServer') : FALSE
  <2>1. ASSUME NEW m \in Msgs(toServer') PROVE FALSE
    <3>1. m.kind = "push" /\ m \in Message /\ m \in Msgs(toServer) BY <1>4, <1>6
    <3>2. m.reply = CallAt(Depth) BY <1>1, <1>2, <1>13, <3>1 DEF Pushes
    <3>3. CarriedBy(m) = pendingCall BY <1>9, <3>1, <3>2, RequestForm
    <3>4. InServer(pendingCall) BY <3>1, <3>3 DEF InServer
    <3>5. pendingCall \in Call BY <1>7, CallForm
    <3>6. QED BY <1>2, <3>4, <3>5, OnePlace
  <2>2. QED BY <2>1
<1>15. Requests(toServer') = {} BY <1>14 DEF Requests
<1>16. Nested' BY <1>1, <1>2, <1>10 DEF Nested
<1>17. Levels'
  <2>1. Fits(c, Depth) BY <1>1, <1>2 DEF Levels
  <2>2. QED
    BY <1>1, <1>2, <1>4, <1>5, <1>8, <1>11, <1>15, <2>1 DEF Levels, Nothing, Fits, Bit
<1>18. OneByOne'
  BY <1>1, <1>2, <1>3, <1>5, <1>6, <1>8, <1>9, <1>15 DEF OneByOne, CallsOnly, Nothing
<1>19. Pushes' BY <1>1, <1>14 DEF Pushes, Nothing
<1>20. Contexts'
  BY <1>1, <1>2, <1>10 DEF Contexts, InterruptedAt, SavedAt, CallAt, Nothing
<1>21. ASSUME NEW x \in Call PROVE Occurrences(x)' = Occurrences(x)
  <2>1. Counted(x) /\ Counted(x)' BY <1>2, Total
  <2>2. NServer(x) = NServer(x)' + Bit(c = x) /\ NWaiting(x)' = NWaiting(x) + Bit(c = x)
    BY <1>6, <1>8 DEF NServer, NWaiting
  <2>3. /\ NClient(x)' = NClient(x) /\ NPending(x)' = NPending(x)
        /\ NActive(x)' = NActive(x) /\ NPushed(x)' = NPushed(x)
        /\ NInterrupted(x)' = NInterrupted(x) /\ NSaved(x)' = NSaved(x)
    BY <1>1, <1>5, SameCounts
  <2>4. Bit(c = x) \in {0, 1} BY DEF Bit
  <2>5. QED BY <2>1, <2>2, <2>3, <2>4 DEF Counted
<1>22. AtMostOnce' BY <1>1, <1>2, <1>21, KeptCalls
<1>23. ASSUME client # "killed" PROVE Sync'
  <2>1. Has(toServer', "push") <=> Has(toServer, "push") BY <1>4, <1>6 DEF Has
  <2>2. CallComing' => CallComing BY <1>1, <1>5, <1>6 DEF CallComing, Has
  <2>3. Sync BY <1>2, <1>23
  <2>4. QED BY <1>1, <1>13, <1>21, <2>1, <2>2, <2>3, SyncKept DEF Sync
<1>24. ClientSees' BY <1>1, <1>2, SameSees
<1>25. QED
  BY <1>1, <1>5, <1>16, <1>17, <1>18, <1>19, <1>20, <1>22, <1>23, <1>24, Together

LEMMA ReceiveCallFlow ==
    ASSUME Whole, Types', ReceiveCall
    PROVE  Protocol' /\ error' = error
<1>1. CASE dead
  <2>1. /\ UNCHANGED <<pendingCall, pendingInterrupts, error>> BY <1>1 DEF ReceiveCall
  <2>2. /\ Ok /\ toServer # <<>> /\ toServer' = Tail(toServer)
        /\ UNCHANGED <<activeCall, interrupts, pendingSavedReply, mode, client, level, frames>>
        /\ UNCHANGED <<toClient, dead, Starting>>
    BY Arrives
  <2>3. Taken' = Taken BY <2>1, <2>2 DEF Taken
  <2>4. QED BY <1>1, <2>1, <2>2, <2>3, DeadIgnores
<1>2. CASE ~dead BY <1>2, ReceiveFirst, ReceiveQueued
<1>3. QED BY <1>1, <1>2

LEMMA ErrorFlow == ASSUME ClientSees', error' # "none" PROVE Protocol'
BY DEF Protocol, Ok

(* What is known of a pushed reply that arrives. *)
LEMMA PushArrives ==
    ASSUME Whole, ReceivePush, ~dead
    PROVE  /\ Ok /\ toServer # <<>> /\ toServer' = Tail(toServer)
           /\ Msgs(toServer') = {} /\ Requests(toServer) = {} /\ Has(toServer, "push")
           /\ \A k : k # "push" => ~Has(toServer, k)
           /\ Head(toServer).reply \in Call /\ InServer(Head(toServer).reply)
           /\ Head(toServer).reply = CallAt(LevelSeen - 1)
           /\ mode = "popping" => pendingCall.kind = "enter"
           /\ \A x : Count(toServer, x) = Count(toServer', x) + Bit(Head(toServer).reply = x)
           /\ UNCHANGED <<activeCall, pendingCall, pendingInterrupts, mode, client, level>>
           /\ UNCHANGED <<frames, toClient, dead, Starting, Taken>>
<1> DEFINE m == Head(toServer)
<1>1. /\ Ok /\ toServer # <<>> /\ toServer' = Tail(toServer) /\ m.kind = "push"
  BY DEF ReceivePush, Receiving
<1>2. Types /\ Pushes /\ Orderly(toServer) BY <1>1, Parts
<1>3. /\ m \in Message /\ m \in Msgs(toServer)
      /\ Msgs(toServer) = Msgs(toServer') \cup {m}
      /\ \A x \in Msgs(toServer') : \/ m.kind = "call" /\ x.kind = "enter"
                                    \/ m.kind = "enter" /\ x.kind = "push"
      /\ \A x : Count(toServer, x) = Count(toServer', x) + Bit(CarriedBy(m) = x)
  BY <1>1, <1>2, HeadOfServer
<1>4. m.reply \in Call /\ CarriedBy(m) = m.reply BY <1>1, <1>3, RequestForm
<1>5. Msgs(toServer') = {} BY <1>1, <1>3
<1>6. Requests(toServer) = {} /\ \A k : k # "push" => ~Has(toServer, k)
  BY <1>1, <1>3, <1>5 DEF Requests, Has
<1>7. Has(toServer, "push") BY <1>1, <1>3 DEF Has
<1>8. /\ m.reply = CallAt(LevelSeen - 1)
      /\ mode = "popping" => pendingCall.kind = "enter" \/ Has(toServer, "enter")
  BY <1>1, <1>2, <1>3 DEF Pushes
<1>9. InServer(m.reply) BY <1>3, <1>4 DEF InServer
<1>10. /\ UNCHANGED <<activeCall, pendingCall, pendingInterrupts, mode, client, level>>
       /\ UNCHANGED <<frames, toClient, dead, pc>>
  BY DEF ReceivePush, callVars, lifeVars
<1>11. Starting' = Starting BY <1>10, SamePlaces
<1>12. Taken' = Taken BY <1>10, <1>11 DEF Taken
<1>13. QED
  BY <1>1, <1>3, <1>4, <1>5, <1>6, <1>7, <1>8, <1>9, <1>10, <1>11, <1>12

LEMMA PushCommon ==
    ASSUME Whole, ReceivePush, ~dead, Len(interrupts') = Len(interrupts), interrupts \in Seq(Context),
           interrupts' \in Seq(Context)
    PROVE  /\ Depth' = Depth /\ LevelSeen' = LevelSeen /\ ClientSees'
           /\ Nested' /\ Levels' /\ OneByOne'
<1>1. /\ Ok /\ Msgs(toServer') = {} /\ Requests(toServer) = {}
      /\ \A k : k # "push" => ~Has(toServer, k)
      /\ toServer # <<>> /\ toServer' = Tail(toServer)
      /\ UNCHANGED <<activeCall, pendingCall, pendingInterrupts, mode, client, level>>
      /\ UNCHANGED <<frames, toClient, dead, Starting, Taken>>
  BY PushArrives
<1>2. Types /\ Nested /\ Levels /\ OneByOne /\ ClientSees /\ Orderly(toServer) BY <1>1, Parts
<1>3. Depth' = Depth BY <1>1 DEF Depth
<1>4. \A k : ~Has(toServer', k) BY <1>1 DEF Has
<1>5. EnterComing' <=> EnterComing BY <1>1, <1>4 DEF EnterComing
<1>6. LevelSeen' = LevelSeen BY <1>3, <1>5 DEF LevelSeen, Bit
<1>7. Requests(toServer') = {} BY <1>1 DEF Requests
<1>8. Orderly(toServer') BY <1>1, <1>2, HeadOfServer
<1>9. interrupts' = <<>> <=> interrupts = <<>> BY EmptySeq
<1>10. Nested' BY <1>1, <1>2, <1>9 DEF Nested
<1>11. Levels' BY <1>1, <1>2, <1>3, <1>7 DEF Levels, Fits, Bit, Msgs, Nothing
<1>12. OneByOne' BY <1>1, <1>2, <1>7, <1>8 DEF OneByOne, CallsOnly, Nothing
<1>13. ClientSees' BY <1>1, <1>2, SameSees
<1>14. QED BY <1>3, <1>6, <1>10, <1>11, <1>12, <1>13

LEMMA ReceivePushFlow ==
    ASSUME Whole, Types', ReceivePush
    PROVE  /\ Protocol'
           /\ error' \in {error, "push outside of interrupt", "push overwrites saved reply",
                                 "pushed reply not readable"}
<1>1. CASE dead
  <2>1. /\ Ok /\ toServer # <<>> /\ toServer' = Tail(toServer)
        /\ UNCHANGED <<activeCall, pendingCall, pendingInterrupts, mode, client, level, frames>>
        /\ UNCHANGED <<toClient, dead, pc, pendingSavedReply, interrupts, error>>
    BY <1>1 DEF ReceivePush, Receiving, callVars, lifeVars
  <2>2. Taken' = Taken BY <2>1, SamePlaces DEF Taken
  <2>3. QED BY <1>1, <2>1, <2>2, DeadIgnores
<1>2. CASE ~dead
  <2> DEFINE r == Head(toServer).reply
  <2>1. /\ Ok /\ toServer # <<>> /\ toServer' = Tail(toServer)
        /\ Msgs(toServer') = {} /\ Has(toServer, "push")
        /\ r \in Call /\ InServer(r) /\ r = CallAt(LevelSeen - 1)
        /\ mode = "popping" => pendingCall.kind = "enter"
        /\ \A x : Count(toServer, x) = Count(toServer', x) + Bit(r = x)
        /\ \A k : k # "push" => ~Has(toServer, k)
        /\ UNCHANGED <<activeCall, pendingCall, pendingInterrupts, mode, client, level>>
        /\ UNCHANGED <<frames, toClient, dead, Starting, Taken>>
    BY <1>2, PushArrives
  <2>2. /\ Types /\ Modes /\ OneByOne /\ Pushes /\ Contexts /\ AtMostOnce /\ ClientSees
        /\ client # "killed" => Sync
    BY <2>1, Parts
  <2>3. /\ interrupts \in Seq(Context) /\ interrupts' \in Seq(Context)
    BY <2>2 DEF Types, TypeOK
  <2>4. \/ /\ pendingCall.kind = "enter" /\ pendingSavedReply' = r /\ pushAcked' = TRUE
           /\ UNCHANGED <<interrupts, error>>
        \/ error' \in {"push outside of interrupt", "push overwrites saved reply",
                         "pushed reply not readable"}
        \/ /\ pendingCall.kind # "enter" /\ interrupts # <<>> /\ Top.savedReply = Nothing
           /\ SaveInTop(r) /\ pushAcked' = TRUE /\ UNCHANGED <<pendingSavedReply, error>>
    BY <1>2 DEF ReceivePush, PushedReply
  <2> HIDE DEF r
  <2>5. ASSUME pushAcked' = TRUE, ClientSees', Nested', Levels', OneByOne', Pushes', Contexts',
               LevelSeen' = LevelSeen, \A x \in Call : Occurrences(x)' = Occurrences(x)
        PROVE  Protocol'
    <3>1. AtMostOnce' BY <2>1, <2>2, <2>5, KeptCalls
    <3>2. ASSUME client # "killed" PROVE Sync'
      <4>1. Sync /\ client = "pushing" BY <2>1, <2>2, <3>2 DEF Sync
      <4>2. ~Has(toServer', "push") BY <2>1 DEF Has
      <4>3. CallComing' => CallComing BY <2>1 DEF CallComing, Has
      <4>4. QED BY <2>1, <2>5, <4>1, <4>2, <4>3, SyncKept DEF Sync
    <3>3. QED BY <2>1, <2>5, <3>1, <3>2, Together
  <2>6. CASE /\ pendingCall.kind = "enter" /\ pendingSavedReply' = r /\ pushAcked' = TRUE
             /\ UNCHANGED <<interrupts, error>>
    <3>1. /\ Depth' = Depth /\ LevelSeen' = LevelSeen /\ ClientSees'
          /\ Nested' /\ Levels' /\ OneByOne'
      BY <1>2, <2>3, <2>6, PushCommon
    <3>2. Pushes' BY <2>1, <2>6, <3>1 DEF Pushes, CallAt, Nothing
    <3>3. Contexts' BY <2>1, <2>2, <2>6 DEF Contexts, InterruptedAt, SavedAt, CallAt, Nothing
    <3>4. pendingSavedReply = Nothing
      <4>1. pendingSavedReply # r BY <2>1, <2>2, OnePlace
      <4>2. QED BY <2>1, <2>2, <4>1 DEF Pushes
    <3>5. ASSUME NEW x \in Call PROVE Occurrences(x)' = Occurrences(x)
      <4>1. Counted(x) /\ Counted(x)' BY <2>2, Total
      <4>2. NServer(x) = NServer(x)' + Bit(r = x) /\ NPushed(x)' = Bit(r = x)
        BY <2>1, <2>6 DEF NServer, NPushed
      <4>3. NPushed(x) = 0 BY <3>4 DEF NPushed, Bit, Nothing, Call
      <4>4. /\ NClient(x)' = NClient(x) /\ NPending(x)' = NPending(x)
            /\ NActive(x)' = NActive(x) /\ NWaiting(x)' = NWaiting(x)
            /\ NInterrupted(x)' = NInterrupted(x) /\ NSaved(x)' = NSaved(x)
        BY <2>1, <2>6, SameCounts
      <4>5. Bit(r = x) \in {0, 1} BY DEF Bit
      <4>6. QED BY <4>1, <4>2, <4>3, <4>4, <4>5 DEF Counted
    <3>6. QED BY <2>5, <2>6, <3>1, <3>2, <3>3, <3>5
  <2>7. CASE error' \in {"push outside of interrupt", "push overwrites saved reply",
                          "pushed reply not readable"}
    <3>1. ClientSees' BY <2>1, <2>2, SameSees
    <3>2. QED BY <2>7, <3>1, ErrorFlow
  <2>8. CASE /\ pendingCall.kind # "enter" /\ interrupts # <<>> /\ Top.savedReply = Nothing
             /\ SaveInTop(r) /\ pushAcked' = TRUE /\ UNCHANGED <<pendingSavedReply, error>>
    <3> DEFINE n == Len(interrupts)
    <3>1. /\ Len(interrupts') = n /\ interrupts'[n] = [interrupts[n] EXCEPT !.savedReply = r]
          /\ \A j \in 1 .. n : j # n => interrupts'[j] = interrupts[j]
      <4>1. r \in CallOrNone BY <2>1 DEF CallOrNone
      <4>2. QED BY <2>3, <2>8, <4>1, SavedTopUpdate DEF SaveInTop
    <3>2. /\ interrupts[n] \in Context /\ n \in 1 .. n /\ n \in Nat
          /\ interrupts'[n].savedReply = r
          /\ interrupts'[n].interruptedCall = interrupts[n].interruptedCall
      BY <2>3, <2>8, <3>1, TopType DEF Context
    <3>3. /\ Depth' = Depth /\ LevelSeen' = LevelSeen /\ ClientSees'
          /\ Nested' /\ Levels' /\ OneByOne'
      BY <1>2, <2>3, <3>1, PushCommon
    <3>4. Pushes'
      BY <2>1, <2>2, <2>8, <3>3 DEF Pushes, CallAt, Nothing
    <3>5. r = CallAt(n - 1) \/ (r = CallAt(n) /\ activeCall.kind # "enter")
      <4>1. ~Taken /\ mode # "popping" BY <2>1, <2>8 DEF Taken
      <4>2. Depth = n BY <3>2, <4>1 DEF Depth, Bit
      <4>3. CASE EnterComing
        <5>1. LevelSeen - 1 = n BY <3>2, <4>2, <4>3 DEF LevelSeen, Bit
        <5>2. pendingInterrupts # <<>> BY <2>1, <2>8, <4>3 DEF EnterComing
        <5>3. activeCall.kind # "enter" BY <2>2, <5>2 DEF OneByOne, CallsOnly
        <5>4. QED BY <2>1, <5>1, <5>3
      <4>4. CASE ~EnterComing
        <5>1. LevelSeen - 1 = n - 1 BY <3>2, <4>2, <4>4 DEF LevelSeen, Bit
        <5>2. QED BY <2>1, <5>1
      <4>5. QED BY <4>3, <4>4
    <3> HIDE DEF n
    <3>6. ASSUME NEW i \in 1 .. n PROVE InterruptedAt(i)' /\ SavedAt(i)'
      <4>1. InterruptedAt(i) /\ SavedAt(i) BY <2>2 DEF Contexts, n
      <4>2. interrupts'[i].interruptedCall = interrupts[i].interruptedCall BY <3>1, <3>2
      <4>3. InterruptedAt(i)'
        BY <2>1, <3>1, <4>1, <4>2 DEF InterruptedAt, n, CallAt, Nothing
      <4>4. CASE i = n
        <5>1. CallAt(n - 1) # CallAt(n) BY <3>2, CallNames
        <5>2. interrupts'[i].savedReply = r BY <3>2, <4>4
        <5>3. r \in {CallAt(i - 1), CallAt(i)} BY <3>5, <4>4
        <5>4. ~Taken BY <2>8 DEF Taken
        <5>5. QED BY <2>1, <3>5, <4>3, <4>4, <5>1, <5>2, <5>3, <5>4 DEF SavedAt, CallAt
      <4>5. CASE i # n
        <5>1. interrupts'[i] = interrupts[i] BY <3>1, <4>5
        <5>2. QED BY <2>1, <3>1, <4>1, <4>3, <4>5, <5>1 DEF SavedAt, n, CallAt, Nothing
      <4>6. QED BY <4>4, <4>5
    <3>7. Contexts' BY <3>1, <3>6 DEF Contexts
    <3>8. ASSUME NEW x \in Call PROVE Occurrences(x)' = Occurrences(x)
      <4>1. Counted(x) /\ Counted(x)' BY <2>2, Total
      <4>2. NServer(x) = NServer(x)' + Bit(r = x) BY <2>1 DEF NServer
      <4>3. TopChanged BY <2>8, <3>1 DEF TopChanged, n
      <4>4. /\ interrupts[n].savedReply = Nothing /\ interrupts'[n].savedReply = r
            /\ interrupts'[n].interruptedCall = interrupts[n].interruptedCall
        BY <2>8, <3>2 DEF Top, n
      <4>5. NInterrupted(x)' = NInterrupted(x) BY <2>2, <4>3, <4>4, SameInterrupted DEF n
      <4>6. NSaved(x)' = NSaved(x) + Bit(r = x) BY <2>2, <4>3, <4>4, SavedOne DEF n
      <4>7. /\ NClient(x)' = NClient(x) /\ NPending(x)' = NPending(x)
            /\ NActive(x)' = NActive(x) /\ NWaiting(x)' = NWaiting(x)
            /\ NPushed(x)' = NPushed(x)
        BY <2>1, <2>8, SameCounts
      <4>8. Bit(r = x) \in {0, 1} BY DEF Bit
      <4>9. QED BY <4>1, <4>2, <4>5, <4>6, <4>7, <4>8 DEF Counted
    <3>9. QED BY <2>5, <2>8, <3>3, <3>4, <3>7, <3>8
  <2>9. QED BY <2>4, <2>6, <2>7, <2>8
<1>3. QED BY <1>1, <1>2

(* doneWorking: the interrupt_enter that waited for the call is pending now. *)
RestUnchanged == /\ UNCHANGED <<activeCall, interrupts, pendingSavedReply, mode, toServer, toClient>>
                 /\ UNCHANGED <<client, level, frames, pushAcked, dead>>

LEMMA DoneFlow ==
    ASSUME Whole, Types', Ok, NEW w \in Worker, DoneWorking(w), ~Starting, ~Starting',
           RestUnchanged
    PROVE  /\ Protocol'
           /\ error' \in {error, "exit of a released thread",
                                 "interrupt to schedule but call pending"}
<1>1. /\ Types /\ Modes /\ Nested /\ Levels /\ OneByOne /\ Pushes /\ Contexts
      /\ AtMostOnce /\ ClientSees /\ Orderly(toServer) /\ (client # "killed" => Sync)
  BY Parts
<1>2. ~Taken /\ ~Taken' BY DEF Taken
<1>3. /\ UNCHANGED <<activeCall, interrupts, pendingSavedReply, mode, toServer, toClient>>
      /\ UNCHANGED <<client, level, frames, pushAcked, dead>>
  BY DEF RestUnchanged
<1>4. \/ /\ UNCHANGED <<pendingCall, pendingInterrupts>>
         /\ error' \in {error, "exit of a released thread",
                               "interrupt to schedule but call pending"}
      \/ /\ ~dead /\ pendingInterrupts # <<>> /\ pendingCall = Nothing
         /\ pendingCall' = Head(pendingInterrupts)
         /\ pendingInterrupts' = Tail(pendingInterrupts) /\ error' = error
  BY DEF DoneWorking
<1>5. CASE /\ UNCHANGED <<pendingCall, pendingInterrupts>>
           /\ error' \in {error, "exit of a released thread",
                                 "interrupt to schedule but call pending"}
  <2>1. UNCHANGED flowVars BY <1>3, <1>5 DEF flowVars
  <2>2. Taken' = Taken BY <1>2 DEF Taken
  <2>3. error' = error \/ error' # "none" BY <1>5
  <2>4. QED BY <1>3, <1>5, <2>1, <2>2, <2>3, FlowFrame
<1>6. CASE /\ ~dead /\ pendingInterrupts # <<>> /\ pendingCall = Nothing
           /\ pendingCall' = Head(pendingInterrupts)
           /\ pendingInterrupts' = Tail(pendingInterrupts) /\ error' = error
  <2> DEFINE c == Head(pendingInterrupts)
  <2>1. pendingInterrupts \in Seq(Call) BY <1>1 DEF Types, TypeOK
  <2>2. /\ c \in Call /\ Msgs(pendingInterrupts) = Msgs(pendingInterrupts') \cup {c}
        /\ \A x : Count(pendingInterrupts, x) = Count(pendingInterrupts', x) + Bit(CarriedBy(c) = x)
    BY <1>6, <2>1, HeadTailProperties, MsgsTail, CountTail
  <2>3. CarriedBy(c) = c BY <2>2, CarriedCall DEF CallOrNone
  <2>4. /\ CallsOnly /\ Requests(toServer) = {} /\ Len(pendingInterrupts) = 1
    BY <1>1, <1>6 DEF OneByOne
  <2>5. pendingInterrupts' = <<>>
    <3>1. Len(Tail(pendingInterrupts)) = 0 /\ Tail(pendingInterrupts) \in Seq(Call)
      BY <1>6, <2>1, <2>4, HeadTailProperties
    <3>2. QED BY <1>6, <3>1, EmptySeq
  <2>6. c.kind = "enter" /\ Fits(c, Depth) BY <1>1, <2>2 DEF Levels
  <2>7. pendingCall' = c /\ c # Nothing BY <1>6, <2>6 DEF Nothing
  <2> HIDE DEF c
  <2>8. Depth' = Depth BY <1>2, <1>3 DEF Depth, Bit
  <2>9. EnterComing /\ EnterComing' BY <1>6, <2>6, <2>7 DEF EnterComing
  <2>10. LevelSeen' = LevelSeen BY <2>8, <2>9 DEF LevelSeen, Bit
  <2>11. Nested' BY <1>1, <1>2, <1>3 DEF Nested
  <2>12. Levels'
    BY <1>1, <1>3, <2>4, <2>5, <2>6, <2>7, <2>8, MsgsEmpty
    DEF Levels, Fits, Bit, Nothing, Requests, Msgs
  <2>13. OneByOne'
    <3>1. activeCall # Nothing => activeCall.kind = "call"
      <4>1. activeCall \in CallOrNone BY <1>1 DEF Types, TypeOK
      <4>2. QED BY <2>4, <4>1, CallForm DEF CallsOnly
    <3>2. Requests(toServer') = {} /\ Orderly(toServer') BY <1>1, <1>3, <2>4 DEF Requests, Msgs
    <3>3. QED BY <1>3, <2>5, <2>6, <2>7, <3>1, <3>2 DEF OneByOne, Nothing
  <2>14. Pushes'
    BY <1>1, <1>3, <1>6, <2>6, <2>7, <2>10 DEF Pushes, Msgs, Has, CallAt, Nothing
  <2>15. Contexts'
    BY <1>1, <1>2, <1>3 DEF Contexts, InterruptedAt, SavedAt, CallAt, Nothing
  <2>16. ASSUME NEW x \in Call PROVE Occurrences(x)' = Occurrences(x)
    <3>1. Counted(x) /\ Counted(x)' BY <1>1, Total
    <3>2. NWaiting(x) = NWaiting(x)' + Bit(c = x) /\ NPending(x)' = Bit(c = x)
      BY <2>2, <2>3, <2>7 DEF NWaiting, NPending
    <3>3. NPending(x) = 0 BY <1>6 DEF NPending, Bit, Nothing, Call
    <3>4. /\ NServer(x)' = NServer(x) /\ NClient(x)' = NClient(x)
          /\ NActive(x)' = NActive(x) /\ NPushed(x)' = NPushed(x)
          /\ NInterrupted(x)' = NInterrupted(x) /\ NSaved(x)' = NSaved(x)
      BY <1>3, SameCounts
    <3>5. Bit(c = x) \in {0, 1} BY DEF Bit
    <3>6. QED BY <3>1, <3>2, <3>3, <3>4, <3>5 DEF Counted
  <2>17. AtMostOnce' BY <1>1, <1>3, <2>16, KeptCalls
  <2>18. ASSUME client # "killed" PROVE Sync'
    <3>1. Has(toServer', "push") <=> Has(toServer, "push") BY <1>3 DEF Has
    <3>2. CallComing' => CallComing BY <1>3, <2>6, <2>7 DEF CallComing, Has
    <3>3. Sync BY <1>1, <2>18
    <3>4. QED BY <1>3, <2>10, <2>16, <3>1, <3>2, <3>3, SyncKept DEF Sync
  <2>19. ClientSees' BY <1>1, <1>3, SameSees
  <2>20. QED
    BY <1>3, <1>6, <2>11, <2>12, <2>13, <2>14, <2>15, <2>17, <2>18, <2>19, Together
<1>7. QED BY <1>4, <1>5, <1>6

LEMMA LeavesFlow ==
    ASSUME Whole, Types', NEW w \in Worker,
           ReturnToTop(w) \/ (Begin(w) /\ BeginFindsNothing(w))
    PROVE  /\ Protocol'
           /\ error' \in {error, "exit of a released thread",
                                 "interrupt to schedule but call pending"}
<1>1. /\ Ok /\ pc[w] \in {"begin", "top"} /\ DoneWorking(w)
  BY DEF ReturnToTop, Begin, BeginFindsNothing, At
<1>2. ~Starting /\ ~Starting' BY LeavesModes DEF OnStack
<1>3. RestUnchanged
  <2>1. CASE ReturnToTop(w) BY <2>1 DEF ReturnToTop, RestUnchanged, interruptVars, clientVars
  <2>2. CASE Begin(w) /\ BeginFindsNothing(w)
    BY <2>2 DEF Begin, BeginFindsNothing, EnterContext, TakesInterrupt, Nothing, RestUnchanged,
                clientVars
  <2>3. QED BY <2>1, <2>2
<1>4. QED BY <1>1, <1>2, <1>3, DoneFlow

(* An interrupt_enter gets its context, which takes the call it interrupts. *)
LEMMA TakesFlow ==
    ASSUME Whole, Types', NEW w \in Worker, Begin(w), BeginStarts(w), TakesInterrupt
    PROVE  Protocol'
<1> DEFINE n == Len(interrupts)
           e == [savedStack |-> stack, interruptedCall |-> activeCall, savedReply |-> Nothing]
<1>1. /\ mode \in {"done", "call"} /\ Starting' /\ pendingCall' = pendingCall
      /\ pendingCall # Nothing /\ activeCall' = Nothing /\ pendingCall.kind = "enter"
  BY StartsModes
<1>2. At(w, "begin") /\ Ok /\ ~Taken BY BeginFinds DEF Begin, At
<1>3. /\ Types /\ Modes /\ Nested /\ Levels /\ OneByOne /\ Pushes /\ Contexts
      /\ AtMostOnce /\ ClientSees /\ Orderly(toServer) /\ (client # "killed" => Sync)
  BY <1>2, Parts
<1>4. /\ interrupts' = Append(interrupts, e)
      /\ UNCHANGED <<pendingInterrupts, pendingSavedReply, mode, toServer, toClient>>
      /\ UNCHANGED <<client, level, frames, pushAcked, dead, error>>
  BY DEF Begin, BeginStarts, EnterContext, clientVars
<1>5. interrupts \in Seq(Context) /\ interrupts' \in Seq(Context)
      /\ activeCall \in CallOrNone /\ stack \in MaybeStack
  BY <1>3 DEF Types, TypeOK
<1>6. e \in Context /\ e.interruptedCall = activeCall /\ e.savedReply = Nothing
  BY <1>5 DEF Context, CallOrNone
<1> HIDE DEF e
<1>7. /\ n \in Nat /\ Len(interrupts') = n + 1 /\ interrupts'[n + 1] = e
      /\ \A j \in 1 .. n : interrupts'[j] = interrupts[j]
  BY <1>4, <1>5, <1>6, AppendProperties, LenProperties
<1>8. Taken' BY <1>1 DEF Taken
<1>9. interrupts' # <<>> BY <1>7
<1> HIDE DEF n
<1>10. Depth = n /\ Depth' = n
  <2>1. Bit(mode = "popping") = 0 /\ Bit(mode = "popping")' = 0 /\ Bit(Taken) = 0 /\ Bit(Taken)' = 1
    BY <1>1, <1>2, <1>4, <1>8 DEF Bit
  <2>2. Depth = n - 0 - 0 /\ Depth' = (n + 1) - 0 - 1 BY <1>7, <2>1 DEF Depth, n
  <2>3. QED BY <1>7, <2>2
<1>11. EnterComing /\ EnterComing' BY <1>1 DEF EnterComing
<1>12. LevelSeen' = LevelSeen BY <1>10, <1>11 DEF LevelSeen, Bit
<1>13. Requests(toServer) = {} /\ pendingInterrupts = <<>> /\ ~CallsOnly
  BY <1>1, <1>3 DEF OneByOne, CallsOnly
<1>14. activeCall # Nothing => activeCall = CallAt(n)
  <2>1. HAVE activeCall # Nothing
  <2>2. activeCall.kind = "call" /\ activeCall \in Under BY <1>1, <1>3, <2>1 DEF OneByOne, Under
  <2>3. QED BY <1>3, <1>10, <2>2, UnderLevels
<1>15. Nested' BY <1>9 DEF Nested
<1>16. Levels'
  BY <1>1, <1>3, <1>4, <1>10 DEF Levels, Fits, Bit, Nothing, Requests, Msgs
<1>17. OneByOne'
  <2>1. Requests(toServer') = {} /\ Orderly(toServer') BY <1>3, <1>4, <1>13 DEF Requests, Msgs
  <2>2. QED BY <1>1, <1>4, <1>13, <2>1 DEF OneByOne, Nothing
<1>18. Pushes'
  <2>1. activeCall'.kind # "exit" BY <1>1 DEF Nothing
  <2>2. pendingSavedReply # Nothing => pendingSavedReply = CallAt(LevelSeen - 1)
    BY <1>3 DEF Pushes
  <2>3. ~dead => \A m \in Msgs(toServer) : m.kind = "push" => m.reply = CallAt(LevelSeen - 1)
    BY <1>3 DEF Pushes
  <2>4. QED BY <1>1, <1>4, <1>12, <2>1, <2>2, <2>3 DEF Pushes, Msgs, CallAt, Nothing
<1>19. Contexts'
  <2>1. ASSUME NEW i \in 1 .. n PROVE InterruptedAt(i)' /\ SavedAt(i)'
    <3>1. InterruptedAt(i) /\ SavedAt(i) BY <1>3 DEF Contexts, n
    <3>2. interrupts[i].interruptedCall = Nothing
      BY <1>1, <1>2, <3>1 DEF InterruptedAt
    <3>3. interrupts[i].savedReply \in {Nothing, CallAt(i - 1), CallAt(i)}
      BY <3>1 DEF SavedAt
    <3>4. i # Len(interrupts') BY <1>7
    <3>5. interrupts'[i] = interrupts[i] BY <1>7
    <3>6. QED BY <3>2, <3>3, <3>4, <3>5 DEF InterruptedAt, SavedAt, CallAt, Nothing
  <2>2. ASSUME NEW i, i = n + 1 PROVE InterruptedAt(i)' /\ SavedAt(i)'
    <3>1. i - 1 = n /\ i = Len(interrupts') /\ interrupts'[i] = e BY <1>7, <2>2
    <3>2. e.interruptedCall \in {Nothing, CallAt(i - 1)} BY <1>6, <1>14, <3>1
    <3>3. InterruptedAt(i)' BY <1>8, <3>1, <3>2 DEF InterruptedAt, CallAt, Nothing
    <3>4. SavedAt(i)' BY <1>6, <3>1 DEF SavedAt, CallAt, Nothing
    <3>5. QED BY <3>3, <3>4
  <2>3. \A i \in 1 .. Len(interrupts') : i \in 1 .. n \/ i = n + 1 BY <1>7
  <2>4. QED BY <2>1, <2>2, <2>3 DEF Contexts
<1>20. ASSUME NEW x \in Call PROVE Occurrences(x)' = Occurrences(x)
  <2>1. Counted(x) /\ Counted(x)' BY <1>3, Total
  <2>2. /\ NInterrupted(x)' = NInterrupted(x) + Bit(activeCall = x)
        /\ NSaved(x)' = NSaved(x) + Bit(Nothing = x)
    BY <1>5, <1>6, <1>7, CountPushed DEF NInterrupted, NSaved, n
  <2>3. Bit(Nothing = x) = 0 BY DEF Nothing, Call, Bit
  <2>4. NActive(x) = Bit(activeCall = x) /\ NActive(x)' = 0
    BY <1>1 DEF NActive, Bit, Nothing, Call
  <2>5. /\ NServer(x)' = NServer(x) /\ NClient(x)' = NClient(x)
        /\ NWaiting(x)' = NWaiting(x) /\ NPushed(x)' = NPushed(x)
        /\ NPending(x)' = NPending(x)
    BY <1>1, <1>4, SameCounts
  <2>6. Bit(activeCall = x) \in {0, 1} BY DEF Bit
  <2>7. QED BY <2>1, <2>2, <2>3, <2>4, <2>5, <2>6 DEF Counted
<1>21. AtMostOnce' BY <1>3, <1>4, <1>20, KeptCalls
<1>22. ASSUME client # "killed" PROVE Sync'
  <2>1. Has(toServer', "push") <=> Has(toServer, "push") BY <1>4 DEF Has
  <2>2. CallComing' => CallComing BY <1>1, <1>4 DEF CallComing, Has, Nothing
  <2>3. Sync BY <1>3, <1>22
  <2>4. QED BY <1>4, <1>12, <1>20, <2>1, <2>2, <2>3, SyncKept DEF Sync
<1>23. ClientSees' BY <1>3, <1>4, SameSees
<1>24. QED
  BY <1>4, <1>15, <1>16, <1>17, <1>18, <1>19, <1>21, <1>22, <1>23, Together

LEMMA BeginFlow ==
    ASSUME Whole, Types', NEW w \in Worker, Begin(w)
    PROVE  /\ Protocol'
           /\ error' \in {error, "exit of a released thread",
                                 "interrupt to schedule but call pending"}
<1>1. CASE BeginResumes(w)
  <2>1. ~TakesInterrupt /\ ~Starting' /\ UNCHANGED <<activeCall, interrupts>>
    BY <1>1, ResumesModes
  <2>2. ~Taken /\ ~Starting BY BeginFinds DEF Begin, OnStack
  <2>3. UNCHANGED flowVars
    BY <1>1, <2>1 DEF Begin, BeginResumes, EnterContext, clientVars, flowVars
  <2>4. Taken' = Taken BY <2>1, <2>2 DEF Taken
  <2>5. error' = error BY <1>1, ResumesStacks
  <2>6. dead' = dead BY DEF Begin
  <2>7. QED BY <2>3, <2>4, <2>5, <2>6, FlowFrame
<1>2. CASE BeginStarts(w) /\ TakesInterrupt BY <1>2, TakesFlow, StartsStacks
<1>3. CASE BeginStarts(w) /\ ~TakesInterrupt
  <2>1. pendingCall.kind # "enter" /\ pendingCall' = pendingCall BY <1>3, StartsModes
  <2>2. ~Taken /\ ~Taken' BY <2>1 DEF Taken
  <2>3. UNCHANGED flowVars
    BY <1>3 DEF Begin, BeginStarts, EnterContext, clientVars, flowVars
  <2>4. error' = error BY <1>3, StartsStacks
  <2>5. dead' = dead BY DEF Begin
  <2>6. Taken' = Taken BY <2>2 DEF Taken
  <2>7. QED BY <2>3, <2>4, <2>5, <2>6, FlowFrame
<1>4. CASE BeginFindsNothing(w) BY <1>4, LeavesFlow
<1>5. QED BY <1>1, <1>2, <1>3, <1>4, BeginCases

(* The pending call becomes the active one. *)
LEMMA StartCallFlow ==
    ASSUME Whole, Types', NEW w \in Worker, StartCall(w)
    PROVE  Protocol' /\ error' = error
<1> DEFINE n == Len(interrupts)
<1>1. Starting /\ ~Starting' BY StartCallModes
<1>2. /\ Ok /\ activeCall' = pendingCall /\ pendingCall' = Nothing /\ error' = error
      /\ mode' = IF pendingCall.kind = "enter" THEN "enter" ELSE "call"
      /\ UNCHANGED <<pendingInterrupts, interrupts, pendingSavedReply, toServer, toClient>>
      /\ UNCHANGED <<client, level, frames, pushAcked, dead>>
  BY DEF StartCall, At, interruptVars, lifeVars, clientVars
<1>3. /\ Types /\ Modes /\ Nested /\ Levels /\ OneByOne /\ Pushes /\ Contexts
      /\ AtMostOnce /\ ClientSees /\ Orderly(toServer) /\ (client # "killed" => Sync)
  BY <1>2, Parts
<1>4. /\ pendingCall # Nothing /\ activeCall = Nothing /\ mode \in {"done", "call"}
  BY <1>1, <1>3 DEF Modes
<1>5. pendingCall \in CallOrNone /\ n \in Nat BY <1>3, Numbers DEF Types, TypeOK
<1>6. ~Taken' /\ (Taken <=> pendingCall.kind = "enter") BY <1>1 DEF Taken
<1>7. pendingCall.kind = "enter" => Requests(toServer) = {} /\ pendingInterrupts = <<>>
  BY <1>3, <1>4 DEF OneByOne, CallsOnly
<1>8. pendingCall.kind = "enter" => ~Has(toServer, "enter")
  BY <1>7 DEF Has, Requests
<1>9. /\ pendingCall.kind = "enter" => Depth = n - 1
      /\ pendingCall.kind # "enter" => Depth = n
      /\ Depth' = n
  <2>1. Depth = n - 0 - Bit(Taken) /\ Depth' = n - 0 - 0 BY <1>2, <1>4, <1>6 DEF Depth, Bit
  <2>2. Bit(Taken) = IF pendingCall.kind = "enter" THEN 1 ELSE 0 BY <1>6 DEF Bit
  <2>3. QED BY <1>5, <2>1, <2>2
<1>10. LevelSeen' = LevelSeen
  <2>1. Has(toServer', "enter") <=> Has(toServer, "enter") BY <1>2 DEF Has
  <2>2. CASE pendingCall.kind = "enter"
    <3>1. EnterComing /\ ~EnterComing' BY <1>2, <1>7, <1>8, <2>1, <2>2 DEF EnterComing, Nothing
    <3>2. QED BY <1>5, <1>9, <2>2, <3>1 DEF LevelSeen, Bit
  <2>3. CASE pendingCall.kind # "enter"
    <3>1. EnterComing <=> EnterComing' BY <1>2, <2>1, <2>3 DEF EnterComing, Nothing
    <3>2. QED BY <1>9, <2>3, <3>1 DEF LevelSeen, Bit
  <2>4. QED BY <2>2, <2>3
<1>11. pendingCall.level = n /\ (pendingCall.kind = "exit" => n > 0)
  <2>1. Fits(pendingCall, Depth) BY <1>3, <1>4 DEF Levels
  <2>2. pendingCall.level = Depth + Bit(pendingCall.kind = "enter") BY <2>1 DEF Fits
  <2>3. pendingCall.level = n
    <3>1. CASE pendingCall.kind = "enter" BY <1>5, <1>9, <2>2, <3>1 DEF Bit
    <3>2. CASE pendingCall.kind # "enter" BY <1>5, <1>9, <2>2, <3>2 DEF Bit
    <3>3. QED BY <3>1, <3>2
  <2>4. pendingCall.kind = "exit" => n > 0 BY <1>9, <2>1 DEF Fits
  <2>5. QED BY <2>3, <2>4
<1>12. mode' # "popping" BY <1>2
<1>13. Nested' BY <1>2, <1>3, <1>6, <1>12 DEF Nested
<1>14. Levels'
  <2>1. \A m \in Msgs(pendingInterrupts) : m.kind = "enter" /\ Fits(m, Depth')
    <3>1. CASE pendingCall.kind = "enter" BY <1>7, <3>1, MsgsEmpty
    <3>2. CASE pendingCall.kind # "enter" BY <1>3, <1>9, <3>2 DEF Levels
    <3>3. QED BY <3>1, <3>2
  <2>2. \A m \in Requests(toServer) : Fits(m, Depth')
    <3>1. CASE pendingCall.kind = "enter" BY <1>7, <3>1
    <3>2. CASE pendingCall.kind # "enter" BY <1>3, <1>9, <3>2 DEF Levels
    <3>3. QED BY <3>1, <3>2
  <2>3. UNCHANGED <<Msgs(pendingInterrupts), Requests(toServer)>> BY <1>2 DEF Msgs, Requests
  <2>4. activeCall' # Nothing => activeCall'.level = Depth' /\ (activeCall'.kind = "exit" => Depth' > 0)
    BY <1>2, <1>9, <1>11
  <2>5. QED BY <1>2, <2>1, <2>2, <2>3, <2>4 DEF Levels, Fits, Bit, Nothing
<1>15. OneByOne'
  <2>1. UNCHANGED Requests(toServer) /\ \A k : Has(toServer', k) <=> Has(toServer, k)
    BY <1>2 DEF Msgs, Requests, Has
  <2>2. CallsOnly => CallsOnly' BY <1>2 DEF CallsOnly, Nothing
  <2>3. Requests(toServer) # {} => CallsOnly /\ ~Has(toServer, "call") /\ ~Has(toServer, "exit")
    BY <1>3, <1>4 DEF OneByOne
  <2>4. pendingInterrupts # <<>> =>
          CallsOnly /\ Requests(toServer) = {} /\ Len(pendingInterrupts) = 1
    BY <1>3 DEF OneByOne
  <2>5. CallsOnly => mode' = "call" BY <1>2 DEF CallsOnly
  <2>6. pendingCall' = Nothing /\ Orderly(toServer') /\ UNCHANGED pendingInterrupts BY <1>2, <1>3
  <2>7. QED BY <2>1, <2>2, <2>3, <2>4, <2>5, <2>6 DEF OneByOne, Nothing
<1>16. Pushes'
  <2>1. pendingSavedReply # Nothing =>
          pendingSavedReply = CallAt(LevelSeen - 1) /\ pendingCall.kind = "enter"
    BY <1>3, <1>4 DEF Pushes
  <2>2. ~dead => \A m \in Msgs(toServer) : m.kind = "push" =>
          m.reply = CallAt(LevelSeen - 1) /\ pendingCall.kind # "exit"
    BY <1>3 DEF Pushes
  <2>3. QED BY <1>2, <1>10, <1>12, <2>1, <2>2 DEF Pushes, Msgs, CallAt, Nothing
<1>17. Contexts'
  <2>1. ASSUME NEW i \in 1 .. Len(interrupts) PROVE InterruptedAt(i)' /\ SavedAt(i)'
    <3>1. InterruptedAt(i) /\ SavedAt(i) BY <1>3 DEF Contexts
    <3>2. InterruptedAt(i)'
      BY <1>2, <1>4, <1>6, <3>1 DEF InterruptedAt, CallAt, Nothing
    <3>3. SavedAt(i)' BY <1>2, <1>6, <3>1 DEF SavedAt, CallAt, Nothing
    <3>4. QED BY <3>2, <3>3
  <2>2. QED BY <1>2, <2>1 DEF Contexts
<1>18. ASSUME NEW x \in Call PROVE Occurrences(x)' = Occurrences(x)
  <2>1. Counted(x) /\ Counted(x)' BY <1>3, Total
  <2>2. NActive(x)' = NPending(x) /\ NActive(x) = 0 /\ NPending(x)' = 0
    BY <1>2, <1>4 DEF NActive, NPending, Bit, Nothing, Call
  <2>3. /\ NServer(x)' = NServer(x) /\ NClient(x)' = NClient(x)
        /\ NWaiting(x)' = NWaiting(x) /\ NPushed(x)' = NPushed(x)
        /\ NInterrupted(x)' = NInterrupted(x) /\ NSaved(x)' = NSaved(x)
    BY <1>2, SameCounts
  <2>4. QED BY <2>1, <2>2, <2>3 DEF Counted
<1>19. AtMostOnce' BY <1>2, <1>3, <1>18, KeptCalls
<1>20. ASSUME client # "killed" PROVE Sync'
  <2>1. Has(toServer', "push") <=> Has(toServer, "push") BY <1>2 DEF Has
  <2>2. CallComing' => CallComing BY <1>2 DEF CallComing, Has, Nothing
  <2>3. Sync BY <1>3, <1>20
  <2>4. QED BY <1>2, <1>10, <1>12, <1>18, <2>1, <2>2, <2>3, SyncKept DEF Sync
<1>21. ClientSees' BY <1>2, <1>3, SameSees
<1>22. QED
  BY <1>2, <1>13, <1>14, <1>15, <1>16, <1>17, <1>19, <1>20, <1>21, Together

(* Steps that leave the calls where they are. *)
LEMMA NeutralFlow ==
    ASSUME Whole,
           \/ Release \/ Wake \/ DeathStep \/ UNCHANGED vars
           \/ \E i \in Impersonator : Impersonate(i) \/ ImpersonatorStep(i)
           \/ \E w \in Worker : \/ PickUp(w) \/ Unlock(w) \/ LookAtWait(w) \/ SuspendLocked(w)
                                \/ AssertWait(w) \/ ThreadBlock(w) \/ FinishCall(w)
    PROVE  Protocol' /\ error' = error
<1>1. UNCHANGED flowVars /\ (dead' = dead \/ dead' = TRUE) /\ (~Release => error' = error)
  <2> USE DEF flowVars, callVars, interruptVars, clientVars, lifeVars
  <2>1. CASE Release \/ Wake \/ DeathStep
    BY <2>1 DEF Release, Wake, DeathStep, NotifyDead, ThreadDying, ResumeDead
  <2>2. CASE UNCHANGED vars BY <2>2 DEF vars
  <2>3. CASE \E i \in Impersonator : Impersonate(i) \/ ImpersonatorStep(i)
    BY <2>3 DEF Impersonate, ImpersonatorStep, ImpersonateWhenStopped, StopImpersonating
  <2>4. ASSUME NEW w \in Worker, PickUp(w) \/ Unlock(w) \/ LookAtWait(w)
        PROVE  UNCHANGED flowVars /\ dead' = dead /\ error' = error
    BY <2>4 DEF PickUp, Unlock, LookAtWait
  <2>5. ASSUME NEW w \in Worker,
               SuspendLocked(w) \/ AssertWait(w) \/ ThreadBlock(w) \/ FinishCall(w)
        PROVE  UNCHANGED flowVars /\ dead' = dead /\ error' = error
    BY <2>5 DEF SuspendLocked, AssertWait, ThreadBlock, FinishCall
  <2>6. QED BY <2>1, <2>2, <2>3, <2>4, <2>5
<1>2. error' = error BY <1>1, ReleaseOnce
<1>3. Starting' = Starting
  <2>1. CASE ThreadDying BY <2>1, DeadPlaces
  <2>2. ASSUME NEW w \in Worker,
               SuspendLocked(w) \/ AssertWait(w) \/ ThreadBlock(w) \/ FinishCall(w)
        PROVE  Starting' = Starting
    <3>1. ~Starting /\ ~Starting' BY <2>2, WaitModes
    <3>2. QED BY <3>1 DEF Starting
  <2>3. CASE Quiet BY <2>3 DEF Quiet
  <2>4. QED BY <2>1, <2>2, <2>3, QuietSteps DEF DeathStep
<1>4. Taken' = Taken BY <1>1, <1>3 DEF Taken, flowVars
<1>5. QED BY <1>1, <1>2, <1>4, FlowFrame

(* The rest of an interrupt_enter: its context has no interrupted call any more. *)
LEMMA FinishEnterFlow ==
    ASSUME Whole, Types', NEW w \in Worker, FinishEnter(w)
    PROVE  Protocol' /\ error' = error
<1> DEFINE n == Len(interrupts)
<1>1. ~Starting /\ ~Starting' /\ Ok /\ UNCHANGED <<pendingCall, pendingInterrupts>>
  BY CodePlaces
<1>2. /\ Types /\ Modes /\ Nested /\ Levels /\ OneByOne /\ Pushes /\ Contexts
      /\ AtMostOnce /\ ClientSees /\ Orderly(toServer) /\ (client # "killed" => Sync)
  BY <1>1, Parts
<1>3. /\ mode = "entered" /\ mode' = "call" /\ error' = error
      /\ UNCHANGED <<activeCall, pendingSavedReply, toServer, toClient>>
      /\ UNCHANGED <<client, level, frames, pushAcked, dead>>
      /\ interrupts' = [interrupts EXCEPT ![n].savedStack = NoStack,
                                          ![n].interruptedCall = Nothing]
  BY DEF FinishEnter, callVars, lifeVars, clientVars
<1>4. activeCall.kind = "enter" /\ interrupts # <<>> BY <1>2, <1>3 DEF Modes, EnterModes, Nested
<1>5. interrupts \in Seq(Context) /\ interrupts' \in Seq(Context) BY <1>2 DEF Types, TypeOK
<1>6. n \in 1 .. n /\ n \in Nat \ {0} /\ interrupts[n] \in Context BY <1>4, <1>5, TopType
<1>7. interrupts[n].interruptedCall = Nothing
  BY <1>1, <1>2, <1>3, <1>6 DEF Contexts, InterruptedAt, Taken
<1> DEFINE e == [interrupts[n] EXCEPT !.savedStack = NoStack, !.interruptedCall = Nothing]
<1>8. /\ e \in Context /\ e.interruptedCall = Nothing /\ e.savedReply = interrupts[n].savedReply
      /\ interrupts' = [interrupts EXCEPT ![n] = e]
  BY <1>3, <1>5, <1>6 DEF Context, MaybeStack, CallOrNone
<1> HIDE DEF e
<1>9. /\ Len(interrupts') = Len(interrupts) /\ interrupts'[n] = e
      /\ \A j \in 1 .. n : j # n => interrupts'[j] = interrupts[j]
  BY <1>4, <1>5, <1>8, TopUpdate
<1>10. /\ \A j \in 1 .. n : /\ interrupts'[j].interruptedCall = interrupts[j].interruptedCall
                            /\ interrupts'[j].savedReply = interrupts[j].savedReply
  BY <1>7, <1>8, <1>9
<1>11. Depth' = Depth /\ ~Taken /\ ~Taken'
  BY <1>1, <1>3, <1>9 DEF Depth, Taken, Bit
<1>12. LevelSeen' = LevelSeen
  BY <1>1, <1>3, <1>11 DEF LevelSeen, EnterComing, Has, Msgs
<1>13. interrupts' # <<>> BY <1>4, <1>5, <1>9, EmptySeq
<1>14. Nested' BY <1>13 DEF Nested
<1>15. Levels' BY <1>1, <1>2, <1>3, <1>11 DEF Levels, Fits, Bit, Requests, Msgs, Nothing
<1>16. OneByOne'
  <2>1. ~CallsOnly BY <1>4 DEF CallsOnly
  <2>2. pendingInterrupts = <<>> BY <1>2, <2>1 DEF OneByOne
  <2>3. QED
    BY <1>1, <1>2, <1>3, <2>2 DEF OneByOne, CallsOnly, Requests, Msgs, Has, Orderly, Nothing
<1>17. Pushes'
  BY <1>1, <1>2, <1>3, <1>12 DEF Pushes, Msgs, Has, CallAt, Nothing
<1>18. Contexts'
  <2>1. ASSUME NEW i \in 1 .. n PROVE InterruptedAt(i)' /\ SavedAt(i)'
    <3>1. InterruptedAt(i) /\ SavedAt(i) BY <1>2 DEF Contexts
    <3>2. interrupts[i].interruptedCall = Nothing
      BY <1>3, <1>11, <3>1 DEF InterruptedAt
    <3>3. InterruptedAt(i)' BY <1>10, <3>2 DEF InterruptedAt, Nothing
    <3>4. SavedAt(i)' BY <1>3, <1>9, <1>10, <1>11, <3>1 DEF SavedAt, CallAt, Nothing
    <3>5. QED BY <3>3, <3>4
  <2>2. QED BY <1>9, <2>1 DEF Contexts
<1>19. ASSUME NEW x \in Call PROVE Occurrences(x)' = Occurrences(x)
  <2>1. Counted(x) /\ Counted(x)' BY <1>2, Total
  <2>2. Interrupted(interrupts') = Interrupted(interrupts) BY <1>9, <1>10 DEF Interrupted
  <2>3. SavedReplies(interrupts') = SavedReplies(interrupts) BY <1>9, <1>10 DEF SavedReplies
  <2>4. NInterrupted(x)' = NInterrupted(x) /\ NSaved(x)' = NSaved(x)
    BY <2>2, <2>3 DEF NInterrupted, NSaved
  <2>5. /\ NServer(x)' = NServer(x) /\ NClient(x)' = NClient(x)
        /\ NWaiting(x)' = NWaiting(x) /\ NPushed(x)' = NPushed(x)
        /\ NPending(x)' = NPending(x) /\ NActive(x)' = NActive(x)
    BY <1>1, <1>3, SameCounts
  <2>6. QED BY <2>1, <2>4, <2>5 DEF Counted
<1>20. AtMostOnce' BY <1>2, <1>3, <1>19, KeptCalls
<1>21. ASSUME client # "killed" PROVE Sync'
  <2>1. Has(toServer', "push") <=> Has(toServer, "push") BY <1>3 DEF Has
  <2>2. CallComing' => CallComing BY <1>1, <1>3 DEF CallComing, Has
  <2>3. Sync BY <1>2, <1>21
  <2>4. mode' # "popping" BY <1>3
  <2>5. QED BY <1>3, <1>12, <1>19, <2>1, <2>2, <2>3, <2>4, SyncKept DEF Sync
<1>22. ClientSees' BY <1>2, <1>3, SameSees
<1>23. QED
  BY <1>3, <1>14, <1>15, <1>16, <1>17, <1>18, <1>20, <1>21, <1>22, Together

(* While an interrupt_enter is being processed nothing else is pending or on its way. *)
LEMMA InEnter ==
    ASSUME Whole, Ok, ~Starting, mode \in EnterModes
    PROVE  /\ activeCall.kind = "enter" /\ interrupts # <<>> /\ ~Taken
           /\ pendingCall = Nothing /\ pendingInterrupts = <<>> /\ Requests(toServer) = {}
           /\ Len(interrupts) \in Nat \ {0} /\ Len(interrupts) \in 1 .. Len(interrupts)
           /\ interrupts[Len(interrupts)] \in Context
           /\ Depth = Len(interrupts) /\ LevelSeen = Len(interrupts)
<1>1. Types /\ Modes /\ Nested /\ OneByOne BY Parts
<1>2. activeCall.kind = "enter" /\ ~Taken BY <1>1 DEF Modes, Taken
<1>3. interrupts # <<>> BY <1>1, <1>2 DEF Nested
<1>4. activeCall # Nothing /\ ~CallsOnly BY <1>2 DEF Nothing, CallsOnly
<1>5. pendingCall = Nothing /\ pendingInterrupts = <<>> /\ Requests(toServer) = {}
  BY <1>1, <1>2, <1>4 DEF OneByOne
<1>6. /\ Len(interrupts) \in Nat \ {0} /\ Len(interrupts) \in 1 .. Len(interrupts)
      /\ interrupts[Len(interrupts)] \in Context
  BY <1>1, <1>3, TopType DEF Types, TypeOK
<1>7. ~EnterComing BY <1>5 DEF EnterComing, Nothing, Has, Requests
<1>8. mode # "popping" BY DEF EnterModes
<1>9. Depth = Len(interrupts) - 0 - 0 BY <1>2, <1>8 DEF Depth, Bit
<1>10. LevelSeen = Depth + 0 BY <1>7 DEF LevelSeen, Bit
<1>11. QED BY <1>2, <1>3, <1>5, <1>6, <1>9, <1>10

EnterUnchanged == /\ UNCHANGED <<activeCall, pendingCall, pendingInterrupts, toServer, toClient>>
                  /\ UNCHANGED <<client, level, frames, pushAcked, dead>>
LEMMA EnterFrame ==
    ASSUME Whole, Ok, ~Starting, mode \in EnterModes, ~Starting', mode' \in EnterModes,
           EnterUnchanged, Len(interrupts') = Len(interrupts), Types', Contexts',
           pendingSavedReply' = Nothing,
           \A x \in Call : Occurrences(x)' = Occurrences(x)
    PROVE  Protocol'
<1>1. /\ Types /\ Modes /\ Nested /\ Levels /\ OneByOne /\ Pushes /\ Contexts
      /\ AtMostOnce /\ ClientSees /\ Orderly(toServer) /\ (client # "killed" => Sync)
  BY Parts
<1>2. /\ activeCall.kind = "enter" /\ interrupts # <<>> /\ ~Taken
      /\ pendingCall = Nothing /\ pendingInterrupts = <<>> /\ Requests(toServer) = {}
  BY InEnter
<1>3. /\ UNCHANGED <<activeCall, pendingCall, pendingInterrupts, toServer, toClient>>
      /\ UNCHANGED <<client, level, frames, pushAcked, dead>>
  BY DEF EnterUnchanged
<1>4. mode # "popping" /\ mode' # "popping" BY DEF EnterModes
<1>5. ~Taken' BY DEF Taken
<1>6. Depth' = Depth BY <1>2, <1>4, <1>5 DEF Depth, Bit
<1>7. LevelSeen' = LevelSeen BY <1>3, <1>6 DEF LevelSeen, EnterComing, Has, Msgs
<1>8. interrupts \in Seq(Context) /\ interrupts' \in Seq(Context) BY <1>1 DEF Types, TypeOK
<1>9. interrupts' # <<>> BY <1>2, <1>8, EmptySeq
<1>10. Nested' BY <1>9 DEF Nested
<1>11. Levels' BY <1>1, <1>3, <1>6 DEF Levels, Fits, Bit, Requests, Msgs, Nothing
<1>12. OneByOne'
  BY <1>1, <1>2, <1>3 DEF OneByOne, CallsOnly, Requests, Msgs, Has, Orderly, Nothing
<1>13. Pushes' BY <1>1, <1>3, <1>4, <1>7 DEF Pushes, Msgs, Has, CallAt, Nothing
<1>14. AtMostOnce' BY <1>1, <1>3, KeptCalls
<1>15. ASSUME client # "killed" PROVE Sync'
  <2>1. Has(toServer', "push") <=> Has(toServer, "push") BY <1>3 DEF Has
  <2>2. CallComing' => CallComing BY <1>3 DEF CallComing, Has
  <2>3. Sync BY <1>1, <1>15
  <2>4. QED BY <1>3, <1>4, <1>7, <2>1, <2>2, <2>3, SyncKept DEF Sync
<1>16. ClientSees' BY <1>1, <1>3, SameSees
<1>17. QED BY <1>3, <1>10, <1>11, <1>12, <1>13, <1>14, <1>15, <1>16, Together

(* The interrupted call has replied; its context has no other reply. *)
LEMMA ReplyInterruptedFlow ==
    ASSUME Whole, Types', NEW w \in Worker, ReplyInterrupted(w)
    PROVE  Protocol' /\ error' = error
<1> DEFINE n == Len(interrupts)
<1>1. ~Starting /\ ~Starting' /\ Ok /\ UNCHANGED <<pendingCall, pendingInterrupts>>
  BY CodePlaces
<1>2. Types /\ Contexts /\ AtMostOnce /\ Stacks /\ Pushes BY <1>1, Parts DEF Whole
<1>3. mode = "interrupted" /\ mode' = "entered" /\ mode \in EnterModes /\ mode' \in EnterModes
  BY DEF ReplyInterrupted, EnterModes
<1>4. /\ activeCall.kind = "enter" /\ interrupts # <<>> /\ ~Taken
      /\ pendingCall = Nothing /\ n \in Nat \ {0} /\ n \in 1 .. n /\ interrupts[n] \in Context
  BY <1>1, <1>3, InEnter
<1>5. InterruptedAt(n) /\ SavedAt(n) BY <1>2, <1>4 DEF Contexts
<1>6. Top.interruptedCall = CallAt(n - 1) /\ Top = interrupts[n]
  BY <1>2, <1>3, <1>5 DEF Stacks, InterruptedAt, Top
<1>7. Top.savedReply = Nothing
  <2>1. ASSUME Top.savedReply # Nothing PROVE FALSE
    <3>1. Top.savedReply = CallAt(n - 1) BY <1>4, <1>5, <1>6, <2>1 DEF SavedAt
    <3>2. Top.savedReply \in Call BY <1>4, <1>6, <2>1 DEF Context, CallOrNone
    <3>3. InSaved(Top.savedReply) BY <1>4, <1>6 DEF InSaved
    <3>4. InInterrupted(Top.savedReply) BY <1>4, <1>6, <3>1 DEF InInterrupted
    <3>5. QED BY <1>2, <3>2, <3>3, <3>4, OnePlace
  <2>2. QED BY <2>1
<1>8. /\ error' = error
      /\ interrupts' = [interrupts EXCEPT ![n].savedReply = Top.interruptedCall,
                                          ![n].interruptedCall = Nothing]
      /\ UNCHANGED <<activeCall, pendingSavedReply, toServer, toClient>>
      /\ UNCHANGED <<client, level, frames, pushAcked, dead>>
  BY <1>7 DEF ReplyInterrupted, callVars, lifeVars, clientVars
<1> DEFINE e == [interrupts[n] EXCEPT !.savedReply = Top.interruptedCall,
                                      !.interruptedCall = Nothing]
<1>9. interrupts \in Seq(Context) BY <1>2 DEF Types, TypeOK
<1>10. /\ e \in Context /\ e.interruptedCall = Nothing /\ e.savedReply = CallAt(n - 1)
       /\ interrupts' = [interrupts EXCEPT ![n] = e]
  BY <1>4, <1>6, <1>8, <1>9 DEF Context, CallOrNone
<1> HIDE DEF e
<1>11. /\ Len(interrupts') = Len(interrupts) /\ interrupts'[n] = e
       /\ \A j \in 1 .. n : j # n => interrupts'[j] = interrupts[j]
  BY <1>4, <1>9, <1>10, TopUpdate
<1>12. pendingSavedReply' = Nothing
  BY <1>2, <1>3, <1>4, <1>8 DEF Pushes, Nothing
<1>13. Contexts'
  <2>1. ASSUME NEW i \in 1 .. n, i # n PROVE InterruptedAt(i)' /\ SavedAt(i)'
    <3>1. InterruptedAt(i) /\ SavedAt(i) /\ interrupts'[i] = interrupts[i]
      BY <1>2, <1>11, <2>1 DEF Contexts
    <3>2. interrupts'[i].interruptedCall = Nothing BY <2>1, <3>1 DEF InterruptedAt
    <3>3. InterruptedAt(i)' BY <3>2 DEF InterruptedAt, Nothing
    <3>4. SavedAt(i)' BY <1>11, <2>1, <3>1 DEF SavedAt, CallAt, Nothing
    <3>5. QED BY <3>3, <3>4
  <2>2. ASSUME NEW i, i = n PROVE InterruptedAt(i)' /\ SavedAt(i)'
    <3>1. interrupts'[i] = e BY <1>11, <2>2
    <3>2. InterruptedAt(i)' BY <1>10, <3>1 DEF InterruptedAt, Nothing
    <3>3. CallAt(i - 1) # CallAt(i) BY <1>4, <2>2, CallNames
    <3>4. interrupts'[i].savedReply = CallAt(i - 1) BY <1>10, <2>2, <3>1
    <3>5. SavedAt(i)' BY <3>3, <3>4 DEF SavedAt, CallAt
    <3>6. QED BY <3>2, <3>5
  <2>3. QED BY <1>11, <2>1, <2>2 DEF Contexts
<1>14. ASSUME NEW x \in Call PROVE Occurrences(x)' = Occurrences(x)
  <2> DEFINE b == Bit(CallAt(n - 1) = x)
  <2>1. Counted(x) /\ Counted(x)' BY <1>2, Total
  <2>2. TopChanged BY <1>4, <1>11 DEF TopChanged
  <2>3. /\ NInterrupted(x)' + Bit(interrupts[n].interruptedCall = x)
             = NInterrupted(x) + Bit(interrupts'[n].interruptedCall = x)
        /\ NSaved(x)' + Bit(interrupts[n].savedReply = x)
             = NSaved(x) + Bit(interrupts'[n].savedReply = x)
    BY <1>2, <2>2, TopCounts
  <2>4. Bit(Nothing = x) = 0 BY SMTT(30) DEF Bit, Nothing, Call
  <2>5. NInterrupted(x)' + b = NInterrupted(x) + 0 /\ NSaved(x)' + 0 = NSaved(x) + b
    BY <1>6, <1>7, <1>10, <1>11, <2>3, <2>4
  <2>6. /\ NServer(x)' = NServer(x) /\ NClient(x)' = NClient(x)
        /\ NWaiting(x)' = NWaiting(x) /\ NPushed(x)' = NPushed(x)
        /\ NPending(x)' = NPending(x) /\ NActive(x)' = NActive(x)
    BY <1>1, <1>8, SameCounts
  <2>7. b \in {0, 1} BY DEF Bit
  <2> HIDE DEF b
  <2>8. QED BY <2>1, <2>5, <2>6, <2>7 DEF Counted
<1>15. EnterUnchanged BY <1>1, <1>8 DEF EnterUnchanged
<1>16. QED BY <1>1, <1>3, <1>8, <1>11, <1>12, <1>13, <1>14, <1>15, EnterFrame

(* A reply that was pushed back before its interrupt_enter ran goes to its context,
   which has no other. *)
LEMMA EnterInterruptFlow ==
    ASSUME Whole, Types', NEW w \in Worker, EnterInterrupt(w)
    PROVE  Protocol' /\ error' = error
<1> DEFINE n == Len(interrupts)
<1>1. ~Starting /\ ~Starting' /\ Ok /\ UNCHANGED <<pendingCall, pendingInterrupts>>
  BY CodePlaces
<1>2. Types /\ Contexts /\ AtMostOnce /\ Pushes BY <1>1, Parts
<1>3. mode = "enter" /\ mode' \in {"interrupted", "entered"}
      /\ mode \in EnterModes /\ mode' \in EnterModes /\ pendingSavedReply' = Nothing
      /\ (mode' = "entered" => Top.interruptedCall = Nothing)
  BY DEF EnterInterrupt, EnterModes
<1>4. /\ activeCall.kind = "enter" /\ interrupts # <<>> /\ ~Taken /\ LevelSeen = n
      /\ pendingCall = Nothing /\ n \in Nat \ {0} /\ n \in 1 .. n /\ interrupts[n] \in Context
  BY <1>1, <1>3, InEnter
<1>5. InterruptedAt(n) /\ SavedAt(n) /\ Top = interrupts[n] BY <1>2, <1>4 DEF Contexts, Top
<1>6. /\ UNCHANGED <<activeCall, toServer, toClient, client, level, frames, pushAcked, dead>>
  BY DEF EnterInterrupt, callVars, lifeVars, clientVars
<1>7. EnterUnchanged BY <1>1, <1>6 DEF EnterUnchanged
<1>8. CASE pendingSavedReply = Nothing
  <2>1. UNCHANGED <<interrupts, error>> BY <1>8 DEF EnterInterrupt
  <2>2. Contexts'
    <3>1. ASSUME NEW i \in 1 .. n PROVE InterruptedAt(i)' /\ SavedAt(i)'
      <4>1. InterruptedAt(i) /\ SavedAt(i) BY <1>2 DEF Contexts
      <4>2. InterruptedAt(i)' BY <1>3, <1>5, <2>1, <4>1 DEF InterruptedAt, CallAt, Nothing
      <4>3. SavedAt(i)' BY <1>4, <1>6, <2>1, <4>1 DEF SavedAt, CallAt, Nothing
      <4>4. QED BY <4>2, <4>3
    <3>2. QED BY <2>1, <3>1 DEF Contexts
  <2>3. ASSUME NEW x \in Call PROVE Occurrences(x)' = Occurrences(x)
    <3>1. Counted(x) /\ Counted(x)' BY <1>2, Total
    <3>2. /\ NServer(x)' = NServer(x) /\ NClient(x)' = NClient(x)
          /\ NWaiting(x)' = NWaiting(x) /\ NPending(x)' = NPending(x)
          /\ NActive(x)' = NActive(x) /\ NPushed(x)' = NPushed(x)
          /\ NInterrupted(x)' = NInterrupted(x) /\ NSaved(x)' = NSaved(x)
      BY <1>1, <1>3, <1>6, <1>8, <2>1, SameCounts
    <3>3. QED BY <3>1, <3>2 DEF Counted
  <2>4. QED BY <1>1, <1>3, <1>7, <2>1, <2>2, <2>3, EnterFrame
<1>9. CASE pendingSavedReply # Nothing
  <2> DEFINE r == pendingSavedReply
  <2>1. r = CallAt(n - 1) BY <1>2, <1>4, <1>9 DEF Pushes
  <2>2. r \in CallOrNone /\ interrupts \in Seq(Context) BY <1>2 DEF Types, TypeOK
  <2>3. Top.savedReply = Nothing
    <3>1. ASSUME Top.savedReply # Nothing PROVE FALSE
      <4>1. Top.savedReply = r BY <1>4, <1>5, <2>1, <3>1 DEF SavedAt
      <4>2. InSaved(Top.savedReply) BY <1>4, <1>5 DEF InSaved
      <4>3. Top.savedReply \in Call BY <2>2, <3>1, <4>1 DEF CallOrNone
      <4>4. QED BY <1>2, <4>1, <4>2, <4>3, OnePlace
    <3>2. QED BY <3>1
  <2>4. SaveInTop(r) /\ error' = error BY <1>9, <2>3 DEF EnterInterrupt
  <2>5. /\ Len(interrupts') = n /\ interrupts'[n] = [interrupts[n] EXCEPT !.savedReply = r]
        /\ \A j \in 1 .. n : j # n => interrupts'[j] = interrupts[j]
    BY <1>4, <2>2, <2>4, SavedTopUpdate DEF SaveInTop
  <2>6. /\ interrupts'[n].savedReply = r
        /\ interrupts'[n].interruptedCall = interrupts[n].interruptedCall
    BY <1>4, <2>5 DEF Context
  <2>7. Contexts'
    <3>1. ASSUME NEW i \in 1 .. n PROVE InterruptedAt(i)'
      <4>1. InterruptedAt(i) BY <1>2 DEF Contexts
      <4>2. interrupts'[i].interruptedCall = interrupts[i].interruptedCall BY <2>5, <2>6
      <4>3. QED BY <1>3, <1>5, <2>5, <4>1, <4>2 DEF InterruptedAt, CallAt, Nothing
    <3>2. ASSUME NEW i \in 1 .. n, i # n PROVE SavedAt(i)'
      <4>1. SavedAt(i) BY <1>2 DEF Contexts
      <4>2. QED BY <2>5, <3>2, <4>1 DEF SavedAt, CallAt, Nothing
    <3>3. ASSUME NEW i, i = n PROVE SavedAt(i)'
      <4>1. CallAt(i - 1) # CallAt(i) BY <1>4, <3>3, CallNames
      <4>2. interrupts'[i].savedReply = CallAt(i - 1) BY <2>1, <2>6, <3>3
      <4>3. QED BY <4>1, <4>2 DEF SavedAt, CallAt
    <3>4. QED BY <2>5, <3>1, <3>2, <3>3 DEF Contexts
  <2>8. ASSUME NEW x \in Call PROVE Occurrences(x)' = Occurrences(x)
    <3>1. Counted(x) /\ Counted(x)' BY <1>2, Total
    <3>2. TopChanged BY <1>4, <2>5 DEF TopChanged
    <3>3. interrupts[n].savedReply = Nothing BY <1>5, <2>3
    <3>4. NInterrupted(x)' = NInterrupted(x) BY <1>2, <2>6, <3>2, SameInterrupted
    <3>5. NSaved(x)' = NSaved(x) + Bit(r = x) BY <1>2, <2>6, <3>2, <3>3, SavedOne
    <3>6. NPushed(x) = Bit(r = x) BY DEF NPushed
    <3>7. NPushed(x)' = 0 BY <1>3 DEF NPushed, Bit, Nothing, Call
    <3>8. /\ NServer(x)' = NServer(x) /\ NClient(x)' = NClient(x)
          /\ NWaiting(x)' = NWaiting(x) /\ NPending(x)' = NPending(x)
          /\ NActive(x)' = NActive(x)
      BY <1>1, <1>6, SameCounts
    <3>9. Bit(r = x) \in {0, 1} BY DEF Bit
    <3> HIDE DEF r
    <3>10. QED BY <3>1, <3>4, <3>5, <3>6, <3>7, <3>8, <3>9 DEF Counted
  <2>9. QED BY <1>1, <1>3, <1>7, <2>4, <2>5, <2>7, <2>8, EnterFrame
<1>10. QED BY <1>8, <1>9

(* The replies the client has not read yet. *)
LEMMA MsgsOne == ASSUME NEW a PROVE Msgs(<<a>>) = {a}
<1>1. Len(<<a>>) = 1 /\ <<a>>[1] = a OBVIOUS
<1>2. \A i \in 1 .. 1 : i = 1 OBVIOUS
<1>3. 1 \in 1 .. 1 OBVIOUS
<1>4. QED BY <1>1, <1>2, <1>3 DEF Msgs

LEMMA MsgsTwo == ASSUME NEW a, NEW b PROVE Msgs(<<a, b>>) = {a, b}
<1>1. Len(<<a, b>>) = 2 /\ <<a, b>>[1] = a /\ <<a, b>>[2] = b OBVIOUS
<1>2. \A i \in 1 .. 2 : i = 1 \/ i = 2 OBVIOUS
<1>3. 1 \in 1 .. 2 /\ 2 \in 1 .. 2 OBVIOUS
<1>4. QED BY <1>1, <1>2, <1>3 DEF Msgs

LEMMA AppendShort ==
    ASSUME NEW a, NEW b
    PROVE  Append(<<>>, b) = <<b>> /\ Append(<<a>>, b) = <<a, b>>
<1> DEFINE S == {a, b}
           s == Append(<<a>>, b)
           t == <<a, b>>
<1>1. <<a>> \in Seq(S) /\ b \in S /\ Len(<<a>>) = 1 /\ <<a>>[1] = a OBVIOUS
<1>2. s \in Seq(S) /\ Len(s) = 1 + 1 /\ s[1] = a /\ s[1 + 1] = b
  BY <1>1, AppendProperties
<1>3. t \in Seq(S) /\ Len(t) = 2 /\ t[1] = a /\ t[2] = b OBVIOUS
<1> HIDE DEF s, t, S
<1>4. Len(s) = 2 /\ s[2] = b BY <1>2
<1>5. \A i \in 1 .. 2 : i = 1 \/ i = 2 OBVIOUS
<1>6. \A i \in 1 .. Len(s) : s[i] = t[i] BY <1>2, <1>3, <1>4, <1>5
<1>7. s = t BY <1>2, <1>3, <1>4, <1>6, SeqEqual
<1>8. Append(<<>>, b) = <<b>> OBVIOUS
<1>9. QED BY <1>7, <1>8 DEF s, t

(* Whom a reply goes to, and what it finds on the way. *)
LEMMA RepliesTo ==
    ASSUME Whole, Ok, client # "killed", activeCall # Nothing
    PROVE  \/ activeCall = ExitAt(level) /\ client = "exiting" /\ toClient = <<>>
           \/ /\ activeCall = EnterAt(level) /\ client \in {"entering", "pushing"}
              /\ toClient = <<>> \/ (Caller /\ toClient = <<CallAt(level - 1)>>)
           \/ activeCall = CallAt(level) /\ client = "calling" /\ toClient = <<>>
           \/ /\ activeCall = CallAt(level - 1) /\ client \in {"entering", "pushing"}
              /\ Caller /\ toClient = <<>>
<1>1. /\ Types /\ Levels /\ AtMostOnce /\ ClientSees /\ Sync
      /\ level = LevelSeen + Bit(ExitReplied)
  BY Alive
<1>2. activeCall \in Under /\ activeCall \in Call BY <1>1, UnderForm DEF Under
<1>3. /\ activeCall.kind \in {"call", "enter", "exit"}
      /\ activeCall.kind = "call" => activeCall = CallAt(Depth)
      /\ activeCall.kind = "exit" => activeCall = ExitAt(Depth)
      /\ activeCall.kind = "enter" => activeCall = EnterAt(activeCall.level)
  BY <1>1, <1>2, UnderLevels
<1>4. /\ activeCall.kind = "exit" => client = "exiting" /\ Depth = level
      /\ activeCall.kind = "enter" =>
            activeCall = EnterAt(level) /\ client \in {"entering", "pushing"}
      /\ activeCall.kind = "call" => \/ client = "calling" /\ Depth = level
                                     \/ Depth < level /\ frames[Depth] = "calling"
  BY <1>2, Underway
<1>5. ~InClient(activeCall) BY <1>1, <1>2, OnePlace
<1>6. \A a, b : /\ toClient = <<a>> => InClient(a)
                /\ toClient = <<a, b>> => InClient(a) /\ InClient(b)
  BY MsgsOne, MsgsTwo DEF InClient
<1>7. Depth \in Int /\ level \in Nat BY <1>1, Numbers
<1>8. CASE activeCall.kind = "exit"
  <2>1. activeCall = ExitAt(level) /\ client = "exiting" BY <1>3, <1>4, <1>8
  <2>2. QED BY <1>1, <1>5, <1>6, <2>1 DEF ClientSees
<1>9. CASE activeCall.kind = "enter"
  <2>1. activeCall = EnterAt(level) /\ client \in {"entering", "pushing"} BY <1>4, <1>9
  <2>2. QED BY <1>1, <1>5, <1>6, <2>1 DEF ClientSees
<1>10. CASE activeCall.kind = "call" /\ client = "calling" /\ Depth = level
  <2>1. activeCall = CallAt(level) BY <1>3, <1>10
  <2>2. QED BY <1>1, <1>5, <1>6, <1>10, <2>1 DEF ClientSees
<1>11. CASE activeCall.kind = "call" /\ Depth < level /\ frames[Depth] = "calling"
  <2>1. client \notin {"user", "calling"}
    <3>1. client \in {"user", "calling"} => level = Depth BY NoInterrupt
    <3>2. QED BY <1>7, <1>11, <3>1
  <2>2. ~ExitReplied BY <1>1, <1>11 DEF Sync, CallComing
  <2>3. level = Depth + Bit(EnterComing)
    <3>1. LevelSeen \in Int BY <1>1, Numbers
    <3>2. level = LevelSeen + 0 BY <1>1, <2>2 DEF Bit
    <3>3. QED BY <3>1, <3>2 DEF LevelSeen
  <2>4. EnterComing /\ level - 1 = Depth BY <1>7, <1>11, <2>3 DEF Bit
  <2>5. /\ client \in {"entering", "pushing"}
        /\ \/ InServer(EnterAt(level)) \/ InWaiting(EnterAt(level))
           \/ pendingCall = EnterAt(level)
    BY <2>4, Underway
  <2>6. EnterAt(level) \in Call BY <1>1, InCall DEF Types
  <2>7. ~InClient(EnterAt(level)) BY <1>1, <2>5, <2>6, OnePlace
  <2>8. activeCall = CallAt(level - 1) BY <1>3, <1>11, <2>4
  <2>9. Caller
    <3>1. level > 0 BY <1>1, <2>5 DEF ClientSees
    <3>2. QED BY <1>11, <2>4, <3>1 DEF Caller
  <2>10. toClient = <<>> BY <1>1, <1>5, <1>6, <2>5, <2>7, <2>8 DEF ClientSees
  <2>11. QED BY <2>5, <2>8, <2>9, <2>10
<1>12. QED BY <1>3, <1>4, <1>8, <1>9, <1>10, <1>11

(* The call on top of the stack replies. *)
LEMMA ReplyFlow ==
    ASSUME Whole, Types', NEW w \in Worker, Reply(w)
    PROVE  Protocol' /\ error' = error
<1> DEFINE n == Len(interrupts)
<1>1. Coding /\ ~Starting /\ ~Starting' /\ Ok /\ UNCHANGED <<pendingCall, pendingInterrupts>>
  BY CodePlaces
<1>2. /\ Types /\ Modes /\ Nested /\ Levels /\ OneByOne /\ Pushes /\ Contexts
      /\ AtMostOnce /\ ClientSees /\ Orderly(toServer) /\ (client # "killed" => Sync)
  BY <1>1, Parts
<1>3. /\ mode = "call" /\ activeCall' = Nothing /\ toClient' = toClient \o ReplyOut
      /\ mode' = IF activeCall.kind = "exit" THEN "popping" ELSE "done"
      /\ UNCHANGED <<interrupts, pendingSavedReply, toServer, error>>
      /\ UNCHANGED <<client, level, frames, pushAcked, dead>>
  BY DEF Reply, interruptVars, lifeVars, clientVars
<1>4. activeCall # Nothing BY <1>1, <1>2, <1>3 DEF Modes
<1>5. activeCall \in Call /\ toClient \in Seq(Call) BY <1>2, <1>4 DEF Types, TypeOK, CallOrNone
<1>6. /\ ~dead => toClient' = Append(toClient, activeCall)
      /\ dead => toClient' = toClient
  BY <1>3, <1>5, AppendIsConcat, ConcatEmptySeq DEF ReplyOut
<1>7. n \in Nat /\ ~Taken /\ ~Taken' BY <1>1, <1>2, Numbers DEF Taken
<1>8. Depth = n /\ (activeCall.kind # "exit" => Depth' = n)
      /\ (activeCall.kind = "exit" => Depth' = n - 1)
  <2>1. Depth = n - 0 - 0 BY <1>3, <1>7 DEF Depth, Bit
  <2>2. activeCall.kind # "exit" => Depth' = n - 0 - 0 BY <1>3, <1>7 DEF Depth, Bit
  <2>3. activeCall.kind = "exit" => Depth' = n - 1 - 0 BY <1>3, <1>7 DEF Depth, Bit
  <2>4. QED BY <1>7, <2>1, <2>2, <2>3
<1>9. activeCall.kind = "exit" => /\ pendingCall = Nothing /\ pendingInterrupts = <<>>
                                  /\ Requests(toServer) = {} /\ n > 0
  BY <1>2, <1>4, <1>8 DEF OneByOne, CallsOnly, Levels
<1>10. /\ EnterComing' <=> EnterComing
       /\ activeCall.kind = "exit" => ~EnterComing
  <2>1. EnterComing' <=> EnterComing BY <1>1, <1>3 DEF EnterComing, Has, Msgs
  <2>2. Requests(toServer) = {} => ~Has(toServer, "enter") BY DEF Requests, Has
  <2>3. QED BY <1>9, <2>1, <2>2 DEF EnterComing, Nothing
<1>11. /\ activeCall.kind # "exit" => LevelSeen' = LevelSeen
       /\ activeCall.kind = "exit" => LevelSeen' = n - 1 /\ LevelSeen = n
  <2>1. activeCall.kind # "exit" => LevelSeen' = LevelSeen BY <1>8, <1>10 DEF LevelSeen, Bit
  <2>2. activeCall.kind = "exit" => LevelSeen' = (n - 1) + 0 /\ LevelSeen = n + 0
    BY <1>8, <1>10 DEF LevelSeen, Bit
  <2>3. QED BY <1>7, <2>1, <2>2
<1>12. Nested'
  <2>1. activeCall.kind = "exit" => interrupts # <<>>
    BY <1>2, <1>9, EmptySeq DEF Types, TypeOK
  <2>2. QED BY <1>3, <1>7, <2>1 DEF Nested, Nothing
<1>13. Levels'
  <2>1. UNCHANGED <<Msgs(pendingInterrupts), Requests(toServer)>> BY <1>1, <1>3 DEF Msgs, Requests
  <2>2. CASE activeCall.kind = "exit"
    <3>1. Msgs(pendingInterrupts) = {} BY <1>9, <2>2, MsgsEmpty
    <3>2. QED BY <1>1, <1>3, <1>9, <2>1, <2>2, <3>1 DEF Levels, Nothing
  <2>3. CASE activeCall.kind # "exit"
    <3>1. Depth' = Depth BY <1>8, <2>3
    <3>2. QED BY <1>1, <1>2, <1>3, <2>1, <3>1 DEF Levels, Fits, Bit, Nothing
  <2>4. QED BY <2>2, <2>3
<1>14. OneByOne'
  <2>1. UNCHANGED Requests(toServer) /\ \A k : Has(toServer', k) <=> Has(toServer, k)
    BY <1>3 DEF Msgs, Requests, Has
  <2>2. CallsOnly => CallsOnly' /\ mode' = "done" BY <1>1, <1>3 DEF CallsOnly, Nothing
  <2>3. Requests(toServer) # {} => CallsOnly /\ ~Has(toServer, "call") /\ ~Has(toServer, "exit")
    BY <1>2, <1>4 DEF OneByOne
  <2>4. pendingInterrupts # <<>> =>
          CallsOnly /\ Requests(toServer) = {} /\ Len(pendingInterrupts) = 1
    BY <1>2 DEF OneByOne
  <2>5. activeCall' = Nothing /\ Orderly(toServer') /\ UNCHANGED <<pendingCall, pendingInterrupts>>
    BY <1>1, <1>2, <1>3
  <2>6. QED BY <2>1, <2>2, <2>3, <2>4, <2>5 DEF OneByOne, Nothing
<1>15. Pushes'
  <2>1. pendingSavedReply # Nothing =>
          /\ pendingSavedReply = CallAt(LevelSeen - 1) /\ pendingCall.kind = "enter"
          /\ activeCall.kind # "exit"
    BY <1>2, <1>3, <1>9 DEF Pushes, Nothing
  <2>2. ~dead => \A m \in Msgs(toServer) : m.kind = "push" =>
          /\ m.reply = CallAt(LevelSeen - 1) /\ pendingCall.kind # "exit"
          /\ activeCall.kind # "exit"
    BY <1>2 DEF Pushes
  <2>3. activeCall.kind # "exit" => mode' # "popping" BY <1>3
  <2>4. QED BY <1>1, <1>3, <1>11, <2>1, <2>2, <2>3 DEF Pushes, Msgs, CallAt, Nothing
<1>16. Contexts'
  <2>1. ASSUME NEW i \in 1 .. Len(interrupts) PROVE InterruptedAt(i)' /\ SavedAt(i)'
    <3>1. InterruptedAt(i) /\ SavedAt(i) BY <1>2 DEF Contexts
    <3>2. InterruptedAt(i)' BY <1>3, <1>7, <3>1 DEF InterruptedAt, CallAt, Nothing
    <3>3. SavedAt(i)' BY <1>3, <1>7, <3>1 DEF SavedAt, CallAt, Nothing
    <3>4. QED BY <3>2, <3>3
  <2>2. QED BY <1>3, <2>1 DEF Contexts
<1>17. ASSUME NEW x \in Call
       PROVE  /\ Counted(x) /\ Counted(x)' /\ NActive(x)' = 0
              /\ NServer(x)' = NServer(x) /\ NWaiting(x)' = NWaiting(x)
              /\ NPushed(x)' = NPushed(x) /\ NPending(x)' = NPending(x)
              /\ NInterrupted(x)' = NInterrupted(x) /\ NSaved(x)' = NSaved(x)
  <2>1. Counted(x) /\ Counted(x)' BY <1>2, Total
  <2>2. NActive(x)' = 0 BY <1>3 DEF NActive, Bit, Nothing, Call
  <2>3. QED BY <1>1, <1>3, <2>1, <2>2, SameCounts
<1>18. CASE dead
  <2>1. client = "killed" /\ client' = "killed" BY <1>3, <1>18 DEF Whole, Releasing
  <2>2. ClientSees' BY <2>1 DEF ClientSees
  <2>3. ASSUME NEW x \in Call PROVE Occurrences(x)' <= 1
    <3>1. NClient(x)' = NClient(x) BY <1>6, <1>18, SameCounts
    <3>2. Occurrences(x) <= 1 BY <1>2 DEF AtMostOnce
    <3>3. NActive(x)' <= NActive(x) /\ NServer(x)' <= NServer(x) BY <1>17 DEF Counted
    <3>4. Occurrences(x)' <= Occurrences(x) /\ Occurrences(x)' \in Nat /\ Occurrences(x) \in Nat
      BY <1>17, <3>1, <3>3, Fewer
    <3>5. \A a, b \in Nat : a <= b /\ b <= 1 => a <= 1 OBVIOUS
    <3>6. QED BY <3>2, <3>4, <3>5
  <2>4. AtMostOnce' BY <2>3 DEF AtMostOnce
  <2>5. QED BY <1>3, <1>12, <1>13, <1>14, <1>15, <1>16, <2>1, <2>2, <2>4, Together
<1>19. CASE ~dead
  <2>1. toClient' = Append(toClient, activeCall) BY <1>6, <1>19
  <2>2. ASSUME NEW x \in Call PROVE Occurrences(x)' = Occurrences(x)
    <3>1. CarriedBy(activeCall) = activeCall BY <1>5, CarriedCall DEF CallOrNone
    <3>2. Count(Append(toClient, activeCall), x) = Count(toClient, x) + Bit(activeCall = x)
      BY <1>5, <3>1, CountAppend
    <3>3. NClient(x)' = NClient(x) + NActive(x) BY <2>1, <3>2 DEF NClient, NActive
    <3>4. QED BY <1>17, <3>3 DEF Counted
  <2>3. AtMostOnce' BY <1>2, <1>3, <2>2, KeptCalls
  <2>4. CASE client = "killed"
    <3>1. ClientSees' BY <1>3, <2>4 DEF ClientSees
    <3>2. QED BY <1>3, <1>12, <1>13, <1>14, <1>15, <1>16, <2>3, <2>4, <3>1, Together
  <2>5. CASE client # "killed"
    <3>1. \/ activeCall = ExitAt(level) /\ client = "exiting" /\ toClient = <<>>
          \/ /\ activeCall = EnterAt(level) /\ client \in {"entering", "pushing"}
             /\ toClient = <<>> \/ (Caller /\ toClient = <<CallAt(level - 1)>>)
          \/ activeCall = CallAt(level) /\ client = "calling" /\ toClient = <<>>
          \/ /\ activeCall = CallAt(level - 1) /\ client \in {"entering", "pushing"}
             /\ Caller /\ toClient = <<>>
      BY <1>1, <1>4, <2>5, RepliesTo
    <3>2. \/ toClient = <<>> /\ toClient' = <<activeCall>>
          \/ /\ Caller /\ toClient = <<CallAt(level - 1)>>
             /\ toClient' = <<CallAt(level - 1), activeCall>>
      <4>1. \A a, b : Append(<<>>, b) = <<b>> /\ Append(<<a>>, b) = <<a, b>> BY AppendShort
      <4>2. toClient = <<>> \/ (Caller /\ toClient = <<CallAt(level - 1)>>) BY <3>1
      <4>3. QED BY <2>1, <4>1, <4>2, Zenon
    <3>3. /\ Caller' <=> Caller
          /\ UNCHANGED <<CallAt(level - 1), CallAt(level), EnterAt(level), ExitAt(level)>>
      BY <1>3 DEF Caller, CallAt, EnterAt, ExitAt
    <3>4. \/ client = "exiting" /\ toClient' = <<ExitAt(level)>>
          \/ client = "calling" /\ toClient' = <<CallAt(level)>>
          \/ /\ client \in {"entering", "pushing"}
             /\ \/ toClient' = <<EnterAt(level)>>
                \/ /\ Caller
                   /\ \/ toClient' = <<CallAt(level - 1)>>
                      \/ toClient' = <<CallAt(level - 1), EnterAt(level)>>
      <4>1. CASE activeCall # EnterAt(level)
        <5>1. toClient = <<>> BY <3>1, <4>1
        <5>2. \A a : <<a>> # <<>> OBVIOUS
        <5>3. toClient' = <<activeCall>> BY <3>2, <5>1, <5>2
        <5>4. QED BY <3>1, <4>1, <5>3
      <4>2. CASE activeCall = EnterAt(level)
        <5>1. client \in {"entering", "pushing"} BY <3>1, <4>2, CallNames
        <5>2. QED BY <3>2, <4>2, <5>1
      <4>3. QED BY <4>1, <4>2
    <3>5. ClientSees'
      <4>1. client \in {"entering", "pushing", "exiting"} => level > 0 BY <1>2 DEF ClientSees
      <4>2. QED BY <1>3, <3>3, <3>4, <4>1 DEF ClientSees
    <3>6. Sync /\ Exact' BY <1>2, <1>3, <2>2, <2>5, KeptCalls DEF Sync
    <3>7. Has(toServer', "push") <=> Has(toServer, "push") BY <1>3 DEF Has
    <3>8. Sync'
      <4>1. CASE activeCall = ExitAt(level)
        <5>1. activeCall.kind = "exit" /\ activeCall.level = level BY <4>1, CallNames
        <5>2. client = "exiting" /\ toClient = <<>> /\ toClient' = <<activeCall>>
          BY <3>1, <3>2, <4>1, CallNames
        <5>3. ~ExitReplied /\ ExitReplied' BY <1>3, <5>2 DEF ExitReplied
        <5>4. level = n /\ LevelSeen' = n - 1 BY <1>2, <1>4, <1>8, <1>11, <5>1 DEF Levels
        <5>5. level' = LevelSeen' + Bit(ExitReplied)'
          <6>1. Bit(ExitReplied)' = 1 BY <5>3 DEF Bit
          <6>2. QED BY <1>3, <1>7, <5>4, <6>1
        <5>6. ~CallComing'
          BY <1>1, <1>3, <1>9, <5>1 DEF CallComing, Nothing, Has, Requests, Msgs
        <5>7. ~Has(toClient', "enter") BY <5>1, <5>2, MsgsOne DEF Has
        <5>8. QED BY <1>3, <3>6, <3>7, <5>5, <5>6, <5>7 DEF Sync
      <4>2. CASE activeCall # ExitAt(level)
        <5>1. client # "exiting" /\ activeCall.kind # "exit" BY <3>1, <4>2, CallNames
        <5>2. ~ExitReplied /\ ~ExitReplied' BY <1>3, <5>1 DEF ExitReplied
        <5>3. LevelSeen' = LevelSeen /\ mode' # "popping" BY <1>3, <1>11, <5>1
        <5>4. level' = LevelSeen' + Bit(ExitReplied)'
          BY <1>3, <3>6, <5>2, <5>3 DEF Sync, Bit
        <5>5. QED BY <1>3, <3>6, <3>7, <5>2, <5>3, <5>4 DEF Sync
      <4>3. QED BY <4>1, <4>2
    <3>9. QED BY <1>3, <1>12, <1>13, <1>14, <1>15, <1>16, <2>3, <3>5, <3>8, Together
  <2>6. QED BY <2>4, <2>5
<1>20. QED BY <1>18, <1>19

(* Whom the reply that an interrupt saved goes to. *)
LEMMA DeliversTo ==
    ASSUME Whole, Ok, client # "killed", mode = "popping", ~Starting, interrupts # <<>>,
           Top.savedReply # Nothing
    PROVE  \/ Top.savedReply = CallAt(level) /\ client = "calling" /\ toClient = <<>>
           \/ /\ Top.savedReply = CallAt(level - 1) /\ Caller
              /\ \/ client \in {"entering", "pushing"} /\ toClient = <<>>
                 \/ client = "exiting" /\ toClient = <<ExitAt(level)>>
<1> DEFINE n == Len(interrupts)
           s == Top.savedReply
<1>1. /\ Types /\ Levels /\ Contexts /\ AtMostOnce /\ ClientSees /\ Sync /\ Exact
      /\ level = LevelSeen + Bit(ExitReplied)
  BY Alive
<1>2. n \in 1 .. n /\ n \in Nat \ {0} /\ interrupts[n] \in Context
  BY <1>1, TopType DEF Types, TypeOK
<1>3. s \in Call /\ InSaved(s) BY <1>2 DEF Context, CallOrNone, InSaved, Top
<1>4. s = CallAt(n - 1) \/ s = CallAt(n)
  <2>1. SavedAt(n) BY <1>1, <1>2 DEF Contexts
  <2>2. QED BY <2>1 DEF SavedAt, Top
<1>5. Depth = n - 1
  <2>1. Depth = n - 1 - 0 BY DEF Depth, Bit, Taken
  <2>2. QED BY <1>2, <2>1
<1>6. s \in Outstanding BY <1>1, <1>3, Awaits DEF Somewhere
<1>7. level \in Nat BY <1>1, Numbers
<1>8. /\ s = CallAt(s.level) /\ s.level \in {n - 1, n} /\ s.kind = "call" BY <1>4, CallNames
<1>9. \/ client = "calling" /\ s.level = level
      \/ s.level < level /\ frames[s.level] = "calling"
  BY <1>3, <1>6, <1>7, <1>8, OutstandingIs
<1>10. ~InClient(s) BY <1>1, <1>3, OnePlace
<1>11. \A a, b : /\ toClient = <<a>> => InClient(a)
                 /\ toClient = <<a, b>> => InClient(a) /\ InClient(b)
  BY MsgsOne, MsgsTwo DEF InClient
<1> HIDE DEF s
<1> DEFINE k == s.level
<1>12. /\ s = CallAt(k) /\ k \in {n - 1, n}
       /\ \/ client = "calling" /\ k = level
          \/ k < level /\ frames[k] = "calling"
  BY <1>8, <1>9
<1> HIDE DEF k
<1>13. CASE client \in {"user", "calling"}
  <2>1. level = n - 1 BY <1>5, <1>13, NoInterrupt
  <2>2. ~(k < level) BY <1>2, <1>12, <2>1
  <2>3. client = "calling" /\ s = CallAt(level) BY <1>12, <2>2
  <2>4. toClient = <<>> BY <1>1, <1>10, <1>11, <2>3 DEF ClientSees
  <2>5. QED BY <2>3, <2>4 DEF s
<1>14. CASE client \in {"entering", "pushing"}
  <2>1. k < level /\ frames[k] = "calling" /\ level > 0 BY <1>1, <1>12, <1>14 DEF ClientSees
  <2>2. level = (n - 1) + Bit(EnterComing)
    <3>1. Bit(ExitReplied) = 0 BY <1>14 DEF ExitReplied, Bit
    <3>2. LevelSeen \in Int BY <1>1, Numbers
    <3>3. level = LevelSeen BY <1>1, <3>1, <3>2
    <3>4. QED BY <1>5, <3>3 DEF LevelSeen
  <2>3. Bit(EnterComing) \in {0, 1} BY DEF Bit
  <2>4. k = level - 1
    <3>1. \A b \in {0, 1} : level = (n - 1) + b => k = level - 1
      BY <1>2, <1>12, <2>1
    <3>2. QED BY <2>2, <2>3, <3>1
  <2>5. Caller /\ s = CallAt(level - 1) BY <1>12, <2>1, <2>4 DEF Caller
  <2>6. ~Has(toClient, "enter") BY <1>1 DEF Sync
  <2>7. ~InClient(EnterAt(level)) BY <2>6, CallNames DEF InClient, Has
  <2>8. toClient = <<>> BY <1>1, <1>10, <1>11, <1>14, <2>5, <2>7 DEF ClientSees
  <2>9. QED BY <1>14, <2>5, <2>8 DEF s
<1>15. CASE client = "exiting"
  <2>1. k < level /\ frames[k] = "calling" /\ level > 0 BY <1>1, <1>12, <1>15 DEF ClientSees
  <2>2. ~EnterComing BY <1>15, Underway
  <2>3. level = (n - 1) + Bit(ExitReplied)
    <3>1. LevelSeen = (n - 1) + 0 BY <1>5, <2>2 DEF LevelSeen, Bit
    <3>2. LevelSeen = n - 1 BY <1>2, <3>1
    <3>3. QED BY <1>1, <3>2
  <2>4. Bit(ExitReplied) \in {0, 1} BY DEF Bit
  <2>5. k = level - 1 /\ Bit(ExitReplied) = 1
    <3>1. \A b \in {0, 1} : level = (n - 1) + b => k = level - 1 /\ b = 1
      BY <1>2, <1>12, <2>1
    <3>2. QED BY <2>3, <2>4, <3>1
  <2>6. Caller /\ s = CallAt(level - 1) BY <1>12, <2>1, <2>5 DEF Caller
  <2>7. toClient # <<>> BY <2>5 DEF ExitReplied, Bit
  <2>8. toClient = <<ExitAt(level)>> BY <1>1, <1>10, <1>11, <1>15, <2>6, <2>7 DEF ClientSees
  <2>9. QED BY <1>15, <2>6, <2>8 DEF s
<1>16. QED BY <1>1, <1>13, <1>14, <1>15 DEF ClientSees

(* InterruptExit pops its context and delivers the reply it has. *)
LEMMA PopInterruptFlow ==
    ASSUME Whole, Types', NEW w \in Worker, PopInterrupt(w)
    PROVE  Protocol' /\ error' = error
<1> DEFINE n == Len(interrupts)
           s == Top.savedReply
<1>1. Coding /\ ~Starting /\ ~Starting' /\ Ok /\ UNCHANGED <<pendingCall, pendingInterrupts>>
  BY CodePlaces
<1>2. /\ Types /\ Modes /\ Nested /\ Levels /\ OneByOne /\ Pushes /\ Contexts
      /\ AtMostOnce /\ ClientSees /\ Orderly(toServer) /\ (client # "killed" => Sync)
  BY <1>1, Parts
<1>3. mode = "popping" /\ mode' = "done" BY DEF PopInterrupt
<1>4. interrupts # <<>> /\ activeCall = Nothing BY <1>1, <1>2, <1>3 DEF Nested, Modes
<1>5. /\ interrupts' = SubSeq(interrupts, 1, n - 1) /\ toClient' = toClient \o SavedReplyOut
      /\ UNCHANGED <<activeCall, pendingSavedReply, toServer, error>>
      /\ UNCHANGED <<client, level, frames, pushAcked, dead>>
  BY <1>4 DEF PopInterrupt, callVars, lifeVars, clientVars
<1>6. interrupts \in Seq(Context) /\ interrupts' \in Seq(Context) /\ toClient \in Seq(Call)
  BY <1>2 DEF Types, TypeOK
<1>7. n \in 1 .. n /\ n \in Nat \ {0} /\ interrupts[n] \in Context /\ Top = interrupts[n]
  BY <1>4, <1>6, TopType DEF Top
<1>8. /\ n = Len(interrupts') + 1 /\ Len(interrupts') = n - 1
      /\ \A i \in 1 .. Len(interrupts') : interrupts'[i] = interrupts[i] /\ i \in 1 .. n
  <2>1. /\ Len(interrupts) = Len(interrupts') + 1 /\ Len(interrupts') = Len(interrupts) - 1
        /\ \A i \in 1 .. Len(interrupts') :
              interrupts'[i] = interrupts[i] /\ i \in 1 .. Len(interrupts)
    <3>1. interrupts' = SubSeq(interrupts, 1, Len(interrupts) - 1) BY <1>5
    <3>2. interrupts \in Seq(Context) /\ interrupts # <<>> BY <1>4, <1>6
    <3>3. ASSUME NEW t, t = SubSeq(interrupts, 1, Len(interrupts) - 1)
          PROVE  /\ Len(interrupts) = Len(t) + 1 /\ Len(t) = Len(interrupts) - 1
                 /\ \A i \in 1 .. Len(t) : t[i] = interrupts[i] /\ i \in 1 .. Len(interrupts)
      BY <3>2, <3>3, ButLast, ZenonT(60)
    <3>4. QED BY <3>1, <3>3, Zenon
  <2>2. QED BY <2>1
<1>9. Top.interruptedCall = Nothing
  BY <1>1, <1>2, <1>3, <1>7 DEF Contexts, InterruptedAt, Taken
<1>10. s \in CallOrNone /\ (s # Nothing => s \in Call) BY <1>7 DEF Context, CallOrNone
<1>11. /\ s = Nothing => toClient' = toClient
       /\ s # Nothing => toClient' = Append(toClient, s)
  BY <1>5, <1>6, <1>10, AppendIsConcat, ConcatEmptySeq DEF SavedReplyOut
<1>12. ~Taken /\ ~Taken' BY <1>1 DEF Taken
<1>13. Depth' = Depth
  <2>1. Depth = n - 1 - 0 /\ Depth' = (n - 1) - 0 - 0 BY <1>3, <1>8, <1>12 DEF Depth, Bit
  <2>2. QED BY <1>7, <2>1
<1>14. LevelSeen' = LevelSeen BY <1>1, <1>5, <1>13 DEF LevelSeen, EnterComing, Has, Msgs
<1>15. Nested' BY <1>3, <1>4, <1>5, <1>12 DEF Nested, Nothing
<1>16. Levels' BY <1>1, <1>2, <1>5, <1>13 DEF Levels, Fits, Bit, Requests, Msgs, Nothing
<1>17. OneByOne'
  BY <1>1, <1>2, <1>3, <1>5 DEF OneByOne, CallsOnly, Requests, Msgs, Has, Orderly, Nothing
<1>18. Pushes' BY <1>1, <1>2, <1>3, <1>5, <1>14 DEF Pushes, Msgs, Has, CallAt, Nothing
<1>19. Contexts'
  <2>1. ASSUME NEW i \in 1 .. Len(interrupts') PROVE InterruptedAt(i)' /\ SavedAt(i)'
    <3>1. InterruptedAt(i) /\ SavedAt(i) /\ interrupts'[i] = interrupts[i]
      BY <1>2, <1>8 DEF Contexts
    <3>2. interrupts'[i].interruptedCall = Nothing BY <1>3, <1>12, <3>1 DEF InterruptedAt
    <3>3. InterruptedAt(i)' BY <3>2 DEF InterruptedAt, Nothing
    <3>4. activeCall'.kind # "enter" BY <1>4, <1>5 DEF Nothing
    <3>5. SavedAt(i)' BY <1>12, <3>1, <3>4 DEF SavedAt, CallAt, Nothing
    <3>6. QED BY <3>3, <3>5
  <2>2. QED BY <2>1 DEF Contexts
<1>20. ASSUME NEW x \in Call PROVE Occurrences(x)' = Occurrences(x)
  <2>1. Counted(x) /\ Counted(x)' BY <1>2, Total
  <2>2. /\ NInterrupted(x) = NInterrupted(x)' + Bit(Nothing = x)
        /\ NSaved(x) = NSaved(x)' + Bit(s = x)
    <3>1. \A j \in 1 .. Len(interrupts') : interrupts[j] = interrupts'[j] BY <1>8
    <3>2. /\ Count(Interrupted(interrupts), x)
               = Count(Interrupted(interrupts'), x) + Bit(interrupts[n].interruptedCall = x)
          /\ Count(SavedReplies(interrupts), x)
               = Count(SavedReplies(interrupts'), x) + Bit(interrupts[n].savedReply = x)
      BY <1>6, <1>8, <3>1, CountPushed
    <3>3. QED BY <1>7, <1>9, <3>2 DEF NInterrupted, NSaved
  <2>3. Bit(Nothing = x) = 0 BY SMTT(30) DEF Bit, Nothing, Call
  <2>4. NClient(x)' = NClient(x) + Bit(s = x)
    <3>1. CASE s = Nothing
      <4>1. NClient(x)' = NClient(x) BY <1>11, <3>1, SameCounts
      <4>2. Bit(s = x) = 0 BY <2>3, <3>1
      <4>3. NClient(x) \in Nat BY <2>1 DEF Counted
      <4>4. QED BY <4>1, <4>2, <4>3
    <3>2. CASE s # Nothing
      <4>1. CarriedBy(s) = s BY <1>10, CarriedCall
      <4>2. Count(Append(toClient, s), x) = Count(toClient, x) + Bit(s = x)
        BY <1>6, <1>10, <3>2, <4>1, CountAppend
      <4>3. QED BY <1>11, <3>2, <4>2 DEF NClient
    <3>3. QED BY <3>1, <3>2
  <2>5. /\ NServer(x)' = NServer(x) /\ NWaiting(x)' = NWaiting(x)
        /\ NPending(x)' = NPending(x) /\ NActive(x)' = NActive(x)
        /\ NPushed(x)' = NPushed(x)
    BY <1>1, <1>5, SameCounts
  <2>6. Bit(s = x) \in {0, 1} BY DEF Bit
  <2> HIDE DEF s
  <2>7. QED BY <2>1, <2>2, <2>3, <2>4, <2>5, <2>6 DEF Counted
<1>21. AtMostOnce' BY <1>2, <1>5, <1>20, KeptCalls
<1>22. CASE client = "killed"
  <2>1. ClientSees' BY <1>5, <1>22 DEF ClientSees
  <2>2. QED BY <1>5, <1>15, <1>16, <1>17, <1>18, <1>19, <1>21, <1>22, <2>1, Together
<1>23. CASE client # "killed"
  <2>1. Sync /\ Exact' BY <1>2, <1>5, <1>20, <1>23, KeptCalls DEF Sync
  <2>2. ClientSees' /\ ExitReplied' = ExitReplied
    <3>1. CASE s = Nothing
      <4>1. toClient' = toClient BY <1>11, <3>1
      <4>2. QED BY <1>2, <1>5, <4>1, SameSees DEF ExitReplied
    <3>2. CASE s # Nothing
      <4>1. \/ s = CallAt(level) /\ client = "calling" /\ toClient = <<>>
            \/ /\ s = CallAt(level - 1) /\ Caller
               /\ \/ client \in {"entering", "pushing"} /\ toClient = <<>>
                  \/ client = "exiting" /\ toClient = <<ExitAt(level)>>
        BY <1>1, <1>3, <1>4, <1>23, <3>2, DeliversTo
      <4>2. toClient' = Append(toClient, s) BY <1>11, <3>2
      <4>3. \A a, b : Append(<<>>, b) = <<b>> /\ Append(<<a>>, b) = <<a, b>> BY AppendShort
      <4> HIDE DEF s
      <4>4. \/ client = "calling" /\ toClient' = <<CallAt(level)>>
            \/ /\ Caller
               /\ \/ client \in {"entering", "pushing"} /\ toClient' = <<CallAt(level - 1)>>
                  \/ client = "exiting" /\ toClient' = <<ExitAt(level), CallAt(level - 1)>>
        BY <4>1, <4>2, <4>3, Zenon
      <4>5. /\ Caller' <=> Caller
            /\ UNCHANGED <<CallAt(level - 1), CallAt(level), EnterAt(level), ExitAt(level)>>
        BY <1>5 DEF Caller, CallAt, EnterAt, ExitAt
      <4>6. client \in {"entering", "pushing", "exiting"} => level > 0 BY <1>2 DEF ClientSees
      <4>7. ClientSees' BY <1>5, <4>4, <4>5, <4>6 DEF ClientSees
      <4>8. ExitReplied' = ExitReplied
        <5>1. toClient' # <<>> BY <4>4
        <5>2. client = "exiting" => toClient # <<>> BY <4>1
        <5>3. QED BY <1>5, <5>1, <5>2 DEF ExitReplied
      <4>9. QED BY <4>7, <4>8
    <3>3. QED BY <3>1, <3>2
  <2>3. Sync'
    <3>1. Has(toServer', "push") <=> Has(toServer, "push") BY <1>5 DEF Has
    <3>2. CallComing' <=> CallComing BY <1>1, <1>5 DEF CallComing, Has
    <3>3. Bit(ExitReplied)' = Bit(ExitReplied) BY <2>2 DEF Bit
    <3>4. mode' # "popping" BY <1>3
    <3>5. QED BY <1>5, <1>14, <2>1, <2>2, <3>1, <3>2, <3>3, <3>4 DEF Sync
  <2>4. QED BY <1>5, <1>15, <1>16, <1>17, <1>18, <1>19, <1>21, <2>2, <2>3, Together
<1>24. QED BY <1>5, <1>22, <1>23

-----------------------------------------------------------------------------
(* The client's steps.  What it sees stays in order even when the server has stopped. *)
ServerKept == /\ UNCHANGED <<pendingCall, activeCall, pendingInterrupts, interrupts>>
              /\ UNCHANGED <<pendingSavedReply, mode, dead, error, Starting>>
LEMMA ClientKeeps ==
    ASSUME Whole, ClientCall \/ ClientSignal \/ ClientExit \/ ClientStep \/ ClientKilled
    PROVE  ServerKept /\ Taken' = Taken
<1>1. UNCHANGED ServerVars
  BY DEF ClientCall, ClientSignal, ClientExit, ClientStep, ClientKilled, ClientReceive,
         ClientPushReply, ClientPushed
<1>2. /\ UNCHANGED <<pendingCall, activeCall, pendingInterrupts, interrupts>>
      /\ UNCHANGED <<pendingSavedReply, mode, dead, error, pc>>
  BY <1>1 DEF ServerVars, callVars, interruptVars, lifeVars
<1>3. Starting' = Starting BY <1>2, SamePlaces
<1>4. Taken' = Taken BY <1>2, <1>3 DEF Taken
<1>5. QED BY <1>2, <1>3, <1>4 DEF ServerKept

LEMMA ClientFrame ==
    ASSUME ServerKept, Taken' = Taken, toServer' = toServer
    PROVE  /\ Depth' = Depth /\ LevelSeen' = LevelSeen
           /\ Nested => Nested'
           /\ Levels => Levels'
           /\ OneByOne => OneByOne'
           /\ Pushes => Pushes'
           /\ Contexts => Contexts'
           /\ CallComing' <=> CallComing
           /\ Has(toServer, "push")' <=> Has(toServer, "push")
<1>1. /\ UNCHANGED <<pendingCall, activeCall, pendingInterrupts, interrupts>>
      /\ UNCHANGED <<pendingSavedReply, mode, dead, error, Starting>>
  BY DEF ServerKept
<1>2. Depth' = Depth BY <1>1 DEF Depth
<1>3. LevelSeen' = LevelSeen BY <1>1, <1>2 DEF LevelSeen, EnterComing, Has, Msgs
<1>4. Nested => Nested' BY <1>1 DEF Nested
<1>5. Levels => Levels' BY <1>1, <1>2 DEF Levels, Fits, Bit, Requests, Msgs, Nothing
<1>6. OneByOne => OneByOne'
  BY <1>1 DEF OneByOne, CallsOnly, Requests, Msgs, Has, Orderly, Nothing
<1>7. Pushes => Pushes' BY <1>1, <1>3 DEF Pushes, Msgs, Has, CallAt, Nothing
<1>8. Contexts => Contexts' BY <1>1 DEF Contexts, InterruptedAt, SavedAt, CallAt, Nothing
<1>9. CallComing' <=> CallComing BY <1>1 DEF CallComing, Has, Msgs
<1>10. Has(toServer, "push")' <=> Has(toServer, "push") BY DEF Has, Msgs
<1>11. QED BY <1>2, <1>3, <1>4, <1>5, <1>6, <1>7, <1>8, <1>9, <1>10

LEMMA ClientCounts ==
    ASSUME ServerKept, Types, Types', NEW x
    PROVE  /\ Counted(x) /\ Counted(x)'
           /\ NWaiting(x)' = NWaiting(x) /\ NPending(x)' = NPending(x)
           /\ NActive(x)' = NActive(x) /\ NPushed(x)' = NPushed(x)
           /\ NInterrupted(x)' = NInterrupted(x) /\ NSaved(x)' = NSaved(x)
<1>1. Counted(x) /\ Counted(x)' BY Total
<1>2. QED BY <1>1, SameCounts DEF ServerKept

LEMMA SentCounts ==
    ASSUME ServerKept, Types, Types', NEW x, NEW b \in {0, 1},
           NServer(x)' = NServer(x) + b, NClient(x)' = NClient(x)
    PROVE  Occurrences(x)' = Occurrences(x) + b
BY ClientCounts DEF Counted

LEMMA KilledFlow == ASSUME Whole, Types', ClientKilled PROVE Protocol' /\ error' = error
<1>1. ServerKept /\ Taken' = Taken BY ClientKeeps
<1>2. client' = "killed" /\ UNCHANGED <<toServer, toClient>> BY DEF ClientKilled
<1>3. ClientSees' BY <1>2 DEF ClientSees
<1>4. error' = error BY <1>1 DEF ServerKept
<1>5. CASE Ok
  <2>1. /\ Types /\ Nested /\ Levels /\ OneByOne /\ Pushes /\ Contexts /\ AtMostOnce
    BY <1>5, Parts
  <2>2. ASSUME NEW x \in Call PROVE Occurrences(x)' = Occurrences(x)
    <3>1. NServer(x)' = NServer(x) /\ NClient(x)' = NClient(x) BY <1>2, SameCounts
    <3>2. QED BY <1>1, <2>1, <3>1, ClientCounts DEF Counted
  <2>3. AtMostOnce' BY <2>1, <2>2 DEF AtMostOnce
  <2>4. QED BY <1>1, <1>2, <1>3, <1>4, <2>1, <2>3, ClientFrame, Together
<1>6. CASE ~Ok BY <1>3, <1>4, <1>6, ErrorFlow DEF Ok
<1>7. QED BY <1>5, <1>6

LEMMA PushedFlow == ASSUME Whole, Types', ClientPushed PROVE Protocol' /\ error' = error
<1>1. ServerKept /\ Taken' = Taken BY ClientKeeps DEF ClientStep
<1>2. /\ client = "pushing" /\ client' = "entering" /\ pushAcked /\ ~pushAcked'
      /\ UNCHANGED <<toServer, toClient, level, frames>>
  BY DEF ClientPushed
<1>3. ClientSees BY DEF Whole, Protocol
<1>4. ClientSees' BY <1>2, <1>3 DEF ClientSees, Caller, CallAt, EnterAt, ExitAt
<1>5. error' = error BY <1>1 DEF ServerKept
<1>6. CASE Ok
  <2>1. /\ Types /\ Nested /\ Levels /\ OneByOne /\ Pushes /\ Contexts /\ AtMostOnce /\ Sync
    BY <1>2, <1>6, Parts
  <2>2. ASSUME NEW x \in Call PROVE Occurrences(x)' = Occurrences(x)
    <3>1. NServer(x)' = NServer(x) /\ NClient(x)' = NClient(x) BY <1>2, SameCounts
    <3>2. QED BY <1>1, <2>1, <3>1, ClientCounts DEF Counted
  <2>3. AtMostOnce' BY <2>1, <2>2 DEF AtMostOnce
  <2>4. \A x \in Call : x \in Outstanding' <=> x \in Outstanding
    BY <1>2 DEF Outstanding, Awaited
  <2>5. Exact'
    <3>1. ASSUME NEW x \in Call PROVE Occurrences(x)' = Bit(x \in Outstanding')
      <4>1. Occurrences(x) = Bit(x \in Outstanding) BY <2>1 DEF Sync, Exact
      <4>2. Bit(x \in Outstanding') = Bit(x \in Outstanding) BY <2>4 DEF Bit
      <4>3. QED BY <2>2, <4>1, <4>2
    <3>2. QED BY <3>1 DEF Exact
  <2>6. ~ExitReplied /\ ~ExitReplied' BY <1>2 DEF ExitReplied
  <2>7. mode' = mode /\ (Has(toClient, "enter")' <=> Has(toClient, "enter"))
    BY <1>1, <1>2 DEF ServerKept, Has, Msgs
  <2>8. LevelSeen' = LevelSeen /\ (Has(toServer, "push")' <=> Has(toServer, "push"))
    BY <1>1, <1>2, ClientFrame
  <2>9. Sync' BY <1>2, <2>1, <2>5, <2>6, <2>7, <2>8 DEF Sync, Bit
  <2>10. QED BY <1>1, <1>2, <1>4, <1>5, <2>1, <2>3, <2>9, ClientFrame, Together
<1>7. CASE ~Ok BY <1>4, <1>5, <1>7, ErrorFlow DEF Ok
<1>8. QED BY <1>6, <1>7

(* The client sends a request: it waits for nothing, or for a call that a signal interrupts. *)
LEMMA ClientSends ==
    ASSUME Whole, Types', Ok, client \in {"user", "calling"}, ServerKept, Taken' = Taken,
           NEW c \in Call, toServer' = Append(toServer, c), UNCHANGED <<toClient, pushAcked>>,
           Fits(c, Depth), c.kind = "enter" \/ client = "user", c \notin Outstanding,
           \A x \in Call : x \in Outstanding' <=> (x \in Outstanding \/ x = c),
           client' \in {"calling", "entering", "exiting"}, ClientSees',
           client' = "exiting" => toClient = <<>>,
           level' = level + Bit(c.kind = "enter")
    PROVE  Protocol'
<1>1. /\ Types /\ Modes /\ Nested /\ Levels /\ OneByOne /\ Pushes /\ Contexts
      /\ AtMostOnce /\ ClientSees /\ Orderly(toServer) /\ Sync
  BY Parts
<1>2. /\ ~EnterComing /\ level = Depth /\ LevelSeen = Depth
      /\ pendingInterrupts = <<>> /\ pendingSavedReply = Nothing /\ CallsOnly
      /\ \A m \in Msgs(toServer) : m.kind = "call"
      /\ client = "user" => toServer = <<>> /\ activeCall = Nothing /\ pendingCall = Nothing
  BY NoInterrupt
<1>3. /\ UNCHANGED <<pendingCall, activeCall, pendingInterrupts, interrupts>>
      /\ UNCHANGED <<pendingSavedReply, mode, dead, error, Starting>>
  BY DEF ServerKept
<1>4. toServer \in Seq(Message) /\ c \in Message /\ CarriedBy(c) = c /\ c.kind # "push"
  BY <1>1, CarriedCall, RequestForm DEF Types, Message, CallOrNone
<1>5. Msgs(toServer') = Msgs(toServer) \cup {c} BY <1>4, MsgsAppend
<1>6. \A m \in Msgs(toServer) : c.kind = "enter" BY <1>2, MsgsEmpty
<1>7. Orderly(toServer')
  <2>1. \A m \in Msgs(toServer) : \/ m.kind = "call" /\ c.kind = "enter"
                                  \/ m.kind = "enter" /\ c.kind = "push"
    BY <1>2, <1>6
  <2>2. QED BY <1>1, <1>4, <2>1, OrderlyAppend
<1>8. Depth' = Depth BY <1>3 DEF Depth
<1>9. EnterComing' <=> c.kind = "enter"
  BY <1>2, <1>3, <1>5 DEF EnterComing, CallsOnly, Has
<1>10. LevelSeen' = level'
  <2>1. Bit(EnterComing)' = Bit(c.kind = "enter") BY <1>9 DEF Bit
  <2>2. QED BY <1>2, <1>8, <2>1 DEF LevelSeen
<1>11. Nested' BY <1>1, <1>3 DEF Nested
<1>12. Levels'
  <2>1. \A m \in Requests(toServer') : m = c \/ m \in Requests(toServer) BY <1>5 DEF Requests
  <2>2. \A m \in Requests(toServer') : Fits(m, Depth) BY <1>1, <2>1 DEF Levels
  <2>3. QED BY <1>1, <1>3, <1>8, <2>2 DEF Levels, Fits, Bit, Msgs, Nothing
<1>13. OneByOne'
  <2>1. activeCall # Nothing \/ pendingCall # Nothing => Msgs(toServer) = {} /\ c.kind = "enter"
    <3>1. HAVE activeCall # Nothing \/ pendingCall # Nothing
    <3>2. c.kind = "enter" BY <1>2, <3>1
    <3>3. ASSUME NEW m \in Msgs(toServer) PROVE FALSE
      <4>1. m.kind = "call" BY <1>2
      <4>2. m \in Requests(toServer) /\ Has(toServer, "call") BY <4>1 DEF Requests, Has
      <4>3. QED BY <1>1, <3>1, <4>2 DEF OneByOne
    <3>4. QED BY <3>2, <3>3
  <2>2. activeCall # Nothing \/ pendingCall # Nothing =>
          ~Has(toServer', "call") /\ ~Has(toServer', "exit")
    BY <1>5, <2>1 DEF Has
  <2>3. CallsOnly' BY <1>2, <1>3 DEF CallsOnly
  <2>4. activeCall # Nothing /\ pendingCall # Nothing =>
          activeCall.kind = "call" /\ pendingCall.kind = "enter"
    BY <1>1 DEF OneByOne
  <2>5. QED BY <1>2, <1>3, <1>7, <2>2, <2>3, <2>4 DEF OneByOne, Nothing
<1>14. Pushes'
  <2>1. \A m \in Msgs(toServer') : m.kind # "push" BY <1>2, <1>4, <1>5
  <2>2. QED BY <1>2, <1>3, <2>1 DEF Pushes, Nothing
<1>15. Contexts' BY <1>1, <1>3 DEF Contexts, InterruptedAt, SavedAt, CallAt, Nothing
<1>16. ASSUME NEW x \in Call PROVE Occurrences(x)' = Bit(x \in Outstanding')
  <2>1. Count(Append(toServer, c), x) = Count(toServer, x) + Bit(c = x)
    BY <1>4, CountAppend
  <2>2. NServer(x)' = NServer(x) + Bit(c = x) BY <2>1 DEF NServer
  <2>3. NClient(x)' = NClient(x) BY SameCounts
  <2>4. Bit(c = x) \in {0, 1} BY DEF Bit
  <2>5. Occurrences(x)' = Occurrences(x) + Bit(c = x)
    BY <1>1, <2>2, <2>3, <2>4, SentCounts
  <2>6. Occurrences(x) = Bit(x \in Outstanding) BY <1>1 DEF Sync, Exact
  <2>7. QED BY <2>5, <2>6 DEF Bit
<1>17. Exact' /\ AtMostOnce'
  <2>1. \A x \in Call : Occurrences(x)' <= 1 BY <1>16 DEF Bit
  <2>2. QED BY <1>16, <2>1 DEF Exact, AtMostOnce
<1>18. Sync'
  <2>1. ~ExitReplied' BY DEF ExitReplied
  <2>2. level' = LevelSeen' + Bit(ExitReplied)'
    <3>1. Bit(ExitReplied)' = 0 /\ level' \in Nat BY <2>1 DEF Bit, Types, Level
    <3>2. QED BY <1>10, <3>1
  <2>3. ~Has(toServer', "push") BY <1>2, <1>4, <1>5 DEF Has
  <2>4. ~pushAcked' BY <1>1 DEF Sync
  <2>5. ~Has(toClient', "enter")
    <3>1. toClient = <<>> \/ toClient = <<CallAt(level)>> BY <1>1 DEF ClientSees
    <3>2. \A m \in Msgs(toClient) : m.kind = "call" BY <3>1, MsgsEmpty, MsgsOne, CallNames
    <3>3. QED BY <3>2 DEF Has, Msgs
  <2>6. QED BY <1>17, <2>1, <2>2, <2>3, <2>4, <2>5 DEF Sync
<1>19. QED BY <1>11, <1>12, <1>13, <1>14, <1>15, <1>17, <1>18, Together

LEMMA CallFlow == ASSUME Whole, Types', ClientCall \/ ClientExit PROVE Protocol' /\ error' = error
<1>0. PICK k \in {"call", "exit"} :
         /\ client = "user" /\ toServer' = Append(toServer, [kind |-> k, level |-> level])
         /\ UNCHANGED <<level, frames, toClient, pushAcked>>
         /\ (k = "call" /\ client' = "calling") \/ (k = "exit" /\ client' = "exiting" /\ level > 0)
  <2>1. CASE ClientCall
    <3>1. /\ client = "user" /\ client' = "calling"
          /\ toServer' = Append(toServer, [kind |-> "call", level |-> level])
          /\ UNCHANGED <<level, frames, toClient, pushAcked>>
      BY <2>1 DEF ClientCall
    <3> WITNESS "call" \in {"call", "exit"}
    <3>2. QED BY <3>1
  <2>2. CASE ClientExit
    <3>1. /\ client = "user" /\ client' = "exiting" /\ level > 0
          /\ toServer' = Append(toServer, [kind |-> "exit", level |-> level])
          /\ UNCHANGED <<level, frames, toClient, pushAcked>>
      BY <2>2 DEF ClientExit
    <3> WITNESS "exit" \in {"call", "exit"}
    <3>2. QED BY <3>1
  <2>3. QED BY <2>1, <2>2
<1> DEFINE c == [kind |-> k, level |-> level]
<1>1. ServerKept /\ Taken' = Taken BY ClientKeeps
<1>2. /\ client = "user" /\ toServer' = Append(toServer, c)
      /\ UNCHANGED <<level, frames, toClient, pushAcked>>
      /\ (k = "call" /\ client' = "calling") \/ (k = "exit" /\ client' = "exiting" /\ level > 0)
  BY <1>0
<1>3. ClientSees /\ Types BY DEF Whole, Protocol
<1>4. toClient = <<>> BY <1>2, <1>3 DEF ClientSees
<1>5. ClientSees' BY <1>2, <1>4 DEF ClientSees
<1>6. error' = error BY <1>1 DEF ServerKept
<1>7. CASE Ok
  <2>1. c \in Call /\ c.kind = k /\ c.level = level BY <1>2, <1>3 DEF Types, Call
  <2>2. level = Depth /\ level \in Nat BY <1>2, <1>3, <1>7, NoInterrupt, Numbers
  <2> HIDE DEF c
  <2>3. Fits(c, Depth) BY <1>2, <2>1, <2>2 DEF Fits, Bit
  <2>4. ASSUME NEW x \in Call
        PROVE  /\ x.kind = "enter" => x \notin Outstanding /\ x \notin Outstanding'
               /\ x.kind = "exit" => /\ x \notin Outstanding
                                     /\ x \in Outstanding' <=> k = "exit" /\ x.level = level
               /\ x.kind = "call" =>
                     /\ x \in Outstanding <=> x.level < level /\ frames[x.level] = "calling"
                     /\ x \in Outstanding' <=> \/ k = "call" /\ x.level = level
                                               \/ x.level < level /\ frames[x.level] = "calling"
    <3>1. /\ x.kind = "enter" =>
               (x \in Outstanding' <=> client' \in {"entering", "pushing"} /\ x.level = level')
          /\ x.kind = "exit" => (x \in Outstanding' <=> client' = "exiting" /\ x.level = level')
          /\ x.kind = "call" =>
               (x \in Outstanding' <=> \/ client' = "calling" /\ x.level = level'
                                       \/ x.level < level' /\ frames'[x.level] = "calling")
      BY <1>2, <2>2, OutstandingNext
    <3>2. QED BY <1>2, <2>2, <3>1, OutstandingIs
  <2>5. c \notin Outstanding
    <3>1. ~(level < level) BY <2>2
    <3>2. QED BY <1>2, <2>1, <2>4, <3>1
  <2>6. ASSUME NEW x \in Call PROVE x \in Outstanding' <=> (x \in Outstanding \/ x = c)
    <3>1. x = c <=> x.kind = k /\ x.level = level BY <2>1 DEF Call, c
    <3>2. x.kind \in {"call", "enter", "exit"} BY DEF Call
    <3>3. QED BY <1>2, <2>4, <3>1, <3>2
  <2>7. level' = level + Bit(c.kind = "enter") BY <1>2, <2>1, <2>2 DEF Bit
  <2>8. QED BY <1>1, <1>2, <1>4, <1>5, <1>6, <1>7, <2>1, <2>3, <2>5, <2>6, <2>7, ClientSends
<1>8. CASE ~Ok BY <1>5, <1>6, <1>8, ErrorFlow DEF Ok
<1>9. QED BY <1>7, <1>8

LEMMA SignalFlow == ASSUME Whole, Types', ClientSignal PROVE Protocol' /\ error' = error
<1> DEFINE c == EnterAt(level + 1)
<1>1. ServerKept /\ Taken' = Taken BY ClientKeeps
<1>2. /\ client \in {"user", "calling"} /\ toServer' = Append(toServer, c)
      /\ client' = "entering" /\ level' = level + 1 /\ frames' = [frames EXCEPT ![level] = client]
      /\ level < MaxDepth /\ UNCHANGED <<toClient, pushAcked>>
  BY DEF ClientSignal, EnterAt
<1>3. ClientSees /\ Types BY DEF Whole, Protocol
<1>4. /\ level \in Nat /\ level \in Level /\ level' \in Level /\ level' - 1 = level /\ level' > 0
      /\ frames \in [Level -> {"user", "calling"}]
  BY <1>2, <1>3, Numbers DEF Types
<1>5. frames'[level] = client /\ \A l \in Level : l # level => frames'[l] = frames[l]
  BY <1>2, <1>4
<1>6. ClientSees'
  <2>2. CallAt(level - 1)' = CallAt(level) BY <1>4 DEF CallAt
  <2>3. Caller' <=> client = "calling" BY <1>4, <1>5 DEF Caller
  <2>4. toClient' = <<>> \/ (client = "calling" /\ toClient' = <<CallAt(level)>>)
    BY <1>2, <1>3 DEF ClientSees
  <2>5. QED BY <1>2, <1>4, <2>2, <2>3, <2>4 DEF ClientSees
<1>7. error' = error BY <1>1 DEF ServerKept
<1>8. CASE Ok
  <2>1. c \in Call /\ c.kind = "enter" /\ c.level = level + 1
    BY <1>2, <1>4, InCall, CallNames
  <2>2. level = Depth BY <1>2, <1>8, NoInterrupt
  <2> HIDE DEF c
  <2>3. Fits(c, Depth) BY <2>1, <2>2 DEF Fits, Bit
  <2>4. ASSUME NEW x \in Call PROVE x \in Outstanding' <=> (x \in Outstanding \/ x = c)
    <3>1. x.kind \in {"call", "enter", "exit"} /\ x.level \in Level BY DEF Call
    <3>2. x = c <=> x.kind = "enter" /\ x.level = level + 1
      BY <2>1 DEF Call, c, EnterAt
    <3>3. /\ x.kind = "enter" => (x \in Outstanding' <=> x.level = level')
          /\ x.kind = "exit" => x \notin Outstanding'
          /\ x.kind = "call" =>
               (x \in Outstanding' <=> x.level < level' /\ frames'[x.level] = "calling")
      BY <1>2, <1>4, OutstandingNext
    <3>4. /\ x.kind = "enter" => x \notin Outstanding
          /\ x.kind = "exit" => x \notin Outstanding
          /\ x.kind = "call" =>
                (x \in Outstanding <=> \/ client = "calling" /\ x.level = level
                                       \/ x.level < level /\ frames[x.level] = "calling")
      BY <1>2, <1>4, OutstandingIs
    <3>5. x.level < level' <=> x.level < level \/ x.level = level
      BY <1>2, <1>4, <3>1 DEF Level
    <3>6. x.level < level => x.level # level BY <1>4
    <3>7. QED BY <1>2, <1>5, <3>1, <3>2, <3>3, <3>4, <3>5, <3>6
  <2>5. c \notin Outstanding BY <1>2, <1>4, <2>1, OutstandingIs
  <2>6. level' = level + Bit(c.kind = "enter") BY <1>2, <2>1 DEF Bit
  <2>7. QED BY <1>1, <1>2, <1>6, <1>7, <1>8, <2>1, <2>3, <2>4, <2>5, <2>6, ClientSends
<1>9. CASE ~Ok BY <1>6, <1>7, <1>9, ErrorFlow DEF Ok
<1>10. QED BY <1>8, <1>9

LEMMA HeadOne == ASSUME NEW a PROVE Head(<<a>>) = a /\ Tail(<<a>>) = <<>>
OBVIOUS

LEMMA HeadTwo == ASSUME NEW a, NEW b PROVE Head(<<a, b>>) = a /\ Tail(<<a, b>>) = <<b>>
OBVIOUS

(* A wrapper receives the reply it waits for, whatever came before. *)
LEMMA Received ==
    ASSUME Whole, Types', ClientReceive
    PROVE  /\ Head(toClient) = Awaited /\ toClient' = Tail(toClient) /\ toClient # <<>>
           /\ UNCHANGED <<frames, toServer, pushAcked>>
           /\ \/ /\ client = "calling" /\ Awaited = CallAt(level)
                 /\ client' = "user" /\ toClient' = <<>> /\ level' = level
              \/ /\ client = "entering" /\ Awaited = EnterAt(level)
                 /\ client' = "user" /\ toClient' = <<>> /\ level' = level
              \/ /\ client = "exiting" /\ Awaited = ExitAt(level) /\ level > 0
                 /\ client' = frames[level - 1] /\ level' = level - 1
                 /\ toClient' = <<>> \/ (Caller /\ toClient' = <<CallAt(level - 1)>>)
<1>1. ClientSees /\ Types BY DEF Whole, Protocol
<1>2. level \in Nat BY <1>1, Numbers
<1>3. /\ Awaited # Nothing /\ toClient # <<>> /\ toClient' = Tail(toClient)
      /\ client = "entering" => Head(toClient) = Awaited
      /\ UNCHANGED <<frames, toServer, pushAcked>>
  BY DEF ClientReceive
<1>4. client \in {"calling", "entering", "exiting"} BY <1>3 DEF Awaited
<1>5. /\ Head(toClient) = Awaited /\ client = "exiting" =>
            level' = level - 1 /\ client' = frames[level - 1]
      /\ Head(toClient) = Awaited /\ client # "exiting" => level' = level /\ client' = "user"
  BY DEF ClientReceive
<1>6. CASE client = "calling"
  <2>1. Awaited = CallAt(level) BY <1>6 DEF Awaited, CallAt
  <2>2. toClient = <<CallAt(level)>> BY <1>1, <1>3, <1>6 DEF ClientSees
  <2>3. Head(toClient) = CallAt(level) /\ Tail(toClient) = <<>> BY <2>2, HeadOne
  <2>4. QED BY <1>3, <1>5, <1>6, <2>1, <2>3
<1>7. CASE client = "entering"
  <2>1. Awaited = EnterAt(level) BY <1>7 DEF Awaited, EnterAt
  <2>2. Head(toClient) # CallAt(level - 1) BY <1>3, <1>7, <2>1, CallNames DEF CallAt, EnterAt
  <2>3. \/ toClient = <<EnterAt(level)>>
        \/ toClient = <<CallAt(level - 1)>>
        \/ toClient = <<CallAt(level - 1), EnterAt(level)>>
    BY <1>1, <1>3, <1>7 DEF ClientSees
  <2>4. toClient = <<EnterAt(level)>> BY <2>2, <2>3, HeadOne, HeadTwo
  <2>5. Tail(toClient) = <<>> BY <2>4, HeadOne
  <2>6. QED BY <1>3, <1>5, <1>7, <2>1, <2>5
<1>8. CASE client = "exiting"
  <2>1. Awaited = ExitAt(level) BY <1>8 DEF Awaited, ExitAt
  <2>2. \/ toClient = <<ExitAt(level)>>
        \/ Caller /\ toClient = <<ExitAt(level), CallAt(level - 1)>>
    BY <1>1, <1>3, <1>8 DEF ClientSees
  <2>3. /\ Head(toClient) = ExitAt(level)
        /\ Tail(toClient) = <<>> \/ (Caller /\ Tail(toClient) = <<CallAt(level - 1)>>)
    BY <2>2, HeadOne, HeadTwo
  <2>4. level > 0 BY <1>1, <1>8 DEF ClientSees
  <2>5. QED BY <1>3, <1>5, <1>8, <2>1, <2>3, <2>4
<1>9. QED BY <1>4, <1>6, <1>7, <1>8

LEMMA TakenOut ==
    ASSUME ServerKept, Types, Types', NEW x, NEW b \in {0, 1},
           NServer(x)' = NServer(x), NClient(x) = NClient(x)' + b
    PROVE  Occurrences(x) = Occurrences(x)' + b /\ Occurrences(x)' \in Nat
BY ClientCounts DEF Counted

LEMMA ReceivedOutstanding ==
    ASSUME Whole, Types', ClientReceive, NEW x \in Call
    PROVE  x \in Outstanding' <=> x \in Outstanding /\ x # Awaited
<1>1. Types BY DEF Whole
<1>2. level \in Nat /\ level' \in Nat /\ frames' = frames
  BY <1>1, Received, Numbers DEF Types, Level
<1>3. /\ x.kind = "enter" =>
           (x \in Outstanding' <=> client' \in {"entering", "pushing"} /\ x.level = level')
      /\ x.kind = "exit" => (x \in Outstanding' <=> client' = "exiting" /\ x.level = level')
      /\ x.kind = "call" =>
           (x \in Outstanding' <=> \/ client' = "calling" /\ x.level = level'
                                   \/ x.level < level' /\ frames[x.level] = "calling")
  BY <1>2, OutstandingNext
<1>4. /\ x.kind = "enter" =>
           (x \in Outstanding <=> client \in {"entering", "pushing"} /\ x.level = level)
      /\ x.kind = "exit" => (x \in Outstanding <=> client = "exiting" /\ x.level = level)
      /\ x.kind = "call" =>
           (x \in Outstanding <=> \/ client = "calling" /\ x.level = level
                                  \/ x.level < level /\ frames[x.level] = "calling")
  BY <1>2, OutstandingIs
<1>5. /\ x.kind \in {"call", "enter", "exit"} /\ x.level \in Nat
      /\ x = CallAt(level) <=> x.kind = "call" /\ x.level = level
      /\ x = EnterAt(level) <=> x.kind = "enter" /\ x.level = level
      /\ x = ExitAt(level) <=> x.kind = "exit" /\ x.level = level
  BY DEF Call, CallAt, EnterAt, ExitAt, Level
<1>6. CASE client = "calling" /\ Awaited = CallAt(level) /\ client' = "user" /\ level' = level
  <2>1. x.level < level => x.level # level BY <1>2, <1>5
  <2>2. QED BY <1>3, <1>4, <1>5, <1>6, <2>1
<1>7. CASE client = "entering" /\ Awaited = EnterAt(level) /\ client' = "user" /\ level' = level
  BY <1>3, <1>4, <1>5, <1>7
<1>8. CASE /\ client = "exiting" /\ Awaited = ExitAt(level) /\ level > 0
           /\ client' = frames[level - 1] /\ level' = level - 1
  <2>1. x.level < level <=> x.level = level' \/ x.level < level' BY <1>2, <1>5, <1>8
  <2>2. frames[level'] \in {"user", "calling"} /\ client' = frames[level']
    BY <1>1, <1>8 DEF Types
  <2>3. QED BY <1>3, <1>4, <1>5, <1>8, <2>1, <2>2
<1>9. QED BY <1>6, <1>7, <1>8, Received

LEMMA ReceiveFlow == ASSUME Whole, Types', ClientReceive PROVE Protocol' /\ error' = error
<1>1. ServerKept /\ Taken' = Taken BY ClientKeeps DEF ClientStep
<1>2. /\ Head(toClient) = Awaited /\ toClient' = Tail(toClient) /\ toClient # <<>>
      /\ UNCHANGED <<frames, toServer, pushAcked>>
  BY Received
<1>3. ClientSees /\ Types BY DEF Whole, Protocol
<1>4. client' \in {"user", "calling"} /\ client \in {"calling", "entering", "exiting"}
  BY <1>3, Received, Numbers DEF Types
<1>5. toClient' = <<>> \/ (client' = "calling" /\ toClient' = <<CallAt(level')>>)
  BY Received DEF Caller
<1>6. ClientSees' BY <1>4, <1>5 DEF ClientSees, CallAt
<1>7. error' = error BY <1>1 DEF ServerKept
<1>8. CASE Ok
  <2>1. /\ Types /\ Nested /\ Levels /\ OneByOne /\ Pushes /\ Contexts /\ AtMostOnce /\ Sync
    BY <1>4, <1>8, Parts
  <2>2. ASSUME NEW x \in Call
        PROVE  Occurrences(x)' = Bit(x \in Outstanding') /\ Occurrences(x)' <= 1
    <3>1. toClient \in Seq(Call) BY <1>3 DEF Types
    <3>2. Head(toClient) \in Call BY <1>2, <3>1, HeadTailProperties
    <3>3. CarriedBy(Head(toClient)) = Awaited BY <1>2, <3>2, CarriedCall DEF CallOrNone
    <3>4. Count(toClient, x) = Count(Tail(toClient), x) + Bit(Awaited = x)
      BY <1>2, <3>1, <3>3, CountTail
    <3>5. NClient(x) = NClient(x)' + Bit(Awaited = x) BY <1>2, <3>4 DEF NClient
    <3>6. NServer(x)' = NServer(x) BY <1>2, SameCounts
    <3>7. Bit(Awaited = x) \in {0, 1} BY DEF Bit
    <3>8. Occurrences(x) = Occurrences(x)' + Bit(Awaited = x) /\ Occurrences(x)' \in Nat
      BY <1>1, <2>1, <3>5, <3>6, <3>7, TakenOut
    <3>9. Occurrences(x) = Bit(x \in Outstanding) BY <2>1 DEF Sync, Exact
    <3>10. x \in Outstanding' <=> x \in Outstanding /\ x # Awaited BY ReceivedOutstanding
    <3>11. x = Awaited => x \in Outstanding BY DEF Outstanding, Call, Nothing
    <3>12. QED BY <3>8, <3>9, <3>10, <3>11 DEF Bit
  <2>3. Exact' /\ AtMostOnce' BY <2>2 DEF Exact, AtMostOnce
  <2>4. Sync'
    <3>1. LevelSeen' = LevelSeen /\ (Has(toServer, "push")' <=> Has(toServer, "push"))
      BY <1>1, <1>2, ClientFrame
    <3>2. ~ExitReplied' BY <1>4 DEF ExitReplied
    <3>3. level' = level - Bit(ExitReplied)
      <4>1. level \in Nat BY <1>3, Numbers
      <4>2. QED BY <1>2, <4>1, Received DEF ExitReplied, Bit
    <3>4. level' = LevelSeen' + Bit(ExitReplied)'
      <4>1. Bit(ExitReplied)' = 0 BY <3>2 DEF Bit
      <4>2. LevelSeen \in Int /\ Bit(ExitReplied) \in {0, 1} BY <1>3, Numbers
      <4>3. level = LevelSeen + Bit(ExitReplied) BY <2>1 DEF Sync
      <4>4. QED BY <3>1, <3>3, <4>1, <4>2, <4>3
    <3>5. ~Has(toServer', "push") /\ ~pushAcked' BY <1>2, <1>4, <2>1 DEF Sync
    <3>6. ~Has(toClient', "enter")
      <4>1. \A m \in Msgs(toClient') : m.kind = "call"
        BY <1>5, MsgsEmpty, MsgsOne DEF CallAt
      <4>2. QED BY <4>1 DEF Has
    <3>7. QED BY <1>4, <2>3, <3>2, <3>4, <3>5, <3>6 DEF Sync
  <2>5. QED BY <1>1, <1>2, <1>6, <1>7, <2>1, <2>3, <2>4, ClientFrame, Together
<1>9. CASE ~Ok BY <1>6, <1>7, <1>9, ErrorFlow DEF Ok
<1>10. QED BY <1>8, <1>9

(* The wrapper of interrupt_enter pushes back only the reply of the call that the signal
   interrupted, and then every call on its way to the server is that interrupt_enter. *)
LEMMA PushSent ==
    ASSUME Whole, ClientPushReply
    PROVE  /\ client = "entering" /\ client' = "pushing"
           /\ level \in Nat /\ level > 0 /\ Caller
           /\ toClient # <<>> /\ toClient' = Tail(toClient) /\ Head(toClient) = CallAt(level - 1)
           /\ toClient' = <<>> \/ toClient' = <<EnterAt(level)>>
           /\ toServer' = Append(toServer, [kind |-> "push", level |-> level,
                                            reply |-> Head(toClient)])
           /\ UNCHANGED <<level, frames, pushAcked>>
<1>1. ClientSees /\ Types BY DEF Whole, Protocol
<1>2. level \in Nat BY <1>1, Numbers
<1>3. /\ client = "entering" /\ client' = "pushing" /\ toClient # <<>>
      /\ Head(toClient) # Awaited /\ toClient' = Tail(toClient)
      /\ toServer' = Append(toServer, [kind |-> "push", level |-> level,
                                       reply |-> Head(toClient)])
      /\ UNCHANGED <<level, frames, pushAcked>>
  BY DEF ClientPushReply
<1>4. Head(toClient) # EnterAt(level) BY <1>3 DEF Awaited, EnterAt
<1>5. \/ toClient = <<EnterAt(level)>>
      \/ Caller /\ toClient = <<CallAt(level - 1)>>
      \/ Caller /\ toClient = <<CallAt(level - 1), EnterAt(level)>>
  BY <1>1, <1>3 DEF ClientSees
<1>6. /\ Caller /\ Head(toClient) = CallAt(level - 1)
      /\ Tail(toClient) = <<>> \/ Tail(toClient) = <<EnterAt(level)>>
  <2>1. toClient # <<EnterAt(level)>> BY <1>4, HeadOne
  <2>2. ASSUME Caller, toClient = <<CallAt(level - 1)>>
        PROVE  Head(toClient) = CallAt(level - 1) /\ Tail(toClient) = <<>>
    BY <2>2, HeadOne
  <2>3. ASSUME Caller, toClient = <<CallAt(level - 1), EnterAt(level)>>
        PROVE  Head(toClient) = CallAt(level - 1) /\ Tail(toClient) = <<EnterAt(level)>>
    BY <2>3, HeadTwo
  <2>4. QED BY <1>5, <2>1, <2>2, <2>3, Zenon
<1>7. level > 0 BY <1>6 DEF Caller
<1>8. QED BY <1>2, <1>3, <1>6, <1>7

LEMMA OnlyTheEnter ==
    ASSUME Whole, Ok, ClientPushReply
    PROVE  /\ \A x \in Under : x.kind = "enter"
           /\ CallAt(level - 1) \in Call /\ LevelSeen = level
<1>1. Types /\ Levels /\ AtMostOnce /\ level = LevelSeen + Bit(ExitReplied)
  BY Alive, PushSent
<1>2. /\ client = "entering" /\ level \in Nat /\ level > 0
      /\ toClient # <<>> /\ Head(toClient) = CallAt(level - 1)
  BY PushSent
<1>3. toClient \in Seq(Call) BY <1>1 DEF Types
<1>4. CallAt(level - 1) \in Call BY <1>2, <1>3, HeadTailProperties
<1>5. InClient(CallAt(level - 1)) BY <1>2, <1>3, MsgsTail DEF InClient
<1>6. LevelSeen = level
  <2>1. Bit(ExitReplied) = 0 BY <1>2 DEF ExitReplied, Bit
  <2>2. LevelSeen \in Int BY <1>1, Numbers
  <2>3. QED BY <1>1, <2>1, <2>2
<1>7. Depth < level => Depth = level - 1
  <2>1. Depth \in Int /\ Bit(EnterComing) \in {0, 1} BY <1>1, Numbers
  <2>2. level = Depth + Bit(EnterComing) BY <1>6 DEF LevelSeen
  <2>3. QED BY <1>2, <2>1, <2>2
<1>8. ASSUME NEW x \in Under PROVE x.kind = "enter"
  <2>1. x.kind \in {"call", "enter", "exit"} /\ (x.kind = "call" => x = CallAt(Depth))
    BY <1>1, UnderLevels
  <2>2. x.kind # "exit" /\ (x.kind = "call" => Depth < level) BY <1>2, Underway
  <2>3. ASSUME x.kind = "call" PROVE FALSE
    <3>1. x = CallAt(level - 1) BY <1>7, <2>1, <2>2, <2>3
    <3>2. /\ ~InServer(x) /\ ~InWaiting(x) /\ pendingCall # x /\ activeCall # x
      BY <1>1, <1>4, <1>5, <3>1, OnePlace
    <3>3. x \in Requests(toServer) => InServer(x)
      <4>1. CarriedBy(x) = x BY <1>4, <3>1, CarriedCall DEF CallOrNone
      <4>2. QED BY <4>1 DEF Requests, InServer
    <3>4. x \in Msgs(pendingInterrupts) => InWaiting(x) BY DEF InWaiting
    <3>5. QED BY <3>2, <3>3, <3>4 DEF Under
  <2>4. QED BY <2>1, <2>2, <2>3
<1>9. QED BY <1>4, <1>6, <1>8

(* While an interrupt_exit leaves its context, the next interrupt_enter has not gone past
   the pending call. *)
LEMMA EnterIsBehind ==
    ASSUME Whole, Ok, ClientPushReply, mode = "popping"
    PROVE  pendingCall.kind = "enter" \/ Has(toServer, "enter")
<1>1. /\ Types /\ Modes /\ Exact /\ Levels /\ Pushes /\ Contexts /\ OneByOne /\ Sync
  BY Alive, PushSent
<1>2. client = "entering" /\ level \in Nat BY PushSent
<1>3. \A x \in Under : x.kind = "enter" BY OnlyTheEnter
<1>4. level \in Level BY <1>1 DEF Types
<1>5. SUFFICES ASSUME pendingCall.kind # "enter", ~Has(toServer, "enter") PROVE FALSE
  OBVIOUS
<1>6. pendingInterrupts = <<>>
  <2>1. SUFFICES ASSUME pendingInterrupts # <<>> PROVE FALSE OBVIOUS
  <2>2. pendingCall # Nothing BY <1>1, <2>1 DEF OneByOne
  <2>3. pendingCall \in Under BY <2>2 DEF Under
  <2>4. QED BY <1>3, <1>5, <2>3
<1> DEFINE e == EnterAt(level)
<1>7. e \in Call /\ e.kind = "enter" /\ e.level = level /\ \A k : e # CallAt(k) /\ e # Nothing
  BY <1>4, InCall DEF EnterAt, CallAt, Nothing
<1> HIDE DEF e
<1>8. e \in Outstanding BY <1>2, <1>7, OutstandingIs
<1>9. Somewhere(e) BY <1>1, <1>7, <1>8, Awaits
<1>10. ~InServer(e)
  <2>1. ~Has(toServer, "push") BY <1>1, <1>2 DEF Sync
  <2>2. \A m \in Msgs(toServer) : m.kind # "push" /\ m.kind # "enter" BY <1>5, <2>1 DEF Has
  <2>3. QED BY <1>7, <2>2 DEF InServer, CarriedBy
<1>11. ~InClient(e) BY <1>1, <1>7 DEF Sync, InClient, Has
<1>12. ~InWaiting(e) BY <1>6, MsgsEmpty DEF InWaiting
<1>13. pendingCall # e /\ activeCall # e /\ pendingSavedReply # e
  <2>1. pendingCall # e BY <1>5, <1>7
  <2>2. activeCall # e BY <1>1, <1>7 DEF Modes, EnterModes
  <2>3. pendingSavedReply # e BY <1>1, <1>7 DEF Pushes
  <2>4. QED BY <2>1, <2>2, <2>3
<1>14. ~InInterrupted(e) BY <1>1, <1>7 DEF InInterrupted, Contexts, InterruptedAt
<1>15. ~InSaved(e) BY <1>1, <1>7 DEF InSaved, Contexts, SavedAt
<1>16. QED BY <1>9, <1>10, <1>11, <1>12, <1>13, <1>14, <1>15 DEF Somewhere

LEMMA MovedCounts ==
    ASSUME ServerKept, Types, Types', NEW x, NEW b \in {0, 1},
           NServer(x)' = NServer(x) + b, NClient(x) = NClient(x)' + b
    PROVE  Occurrences(x)' = Occurrences(x)
BY ClientCounts DEF Counted

LEMMA PushReplyFlow == ASSUME Whole, Types', ClientPushReply PROVE Protocol' /\ error' = error
<1> DEFINE p == [kind |-> "push", level |-> level, reply |-> Head(toClient)]
<1>1. ServerKept /\ Taken' = Taken BY ClientKeeps DEF ClientStep
<1>2. /\ client = "entering" /\ client' = "pushing" /\ level \in Nat /\ level > 0
      /\ toClient # <<>> /\ toClient' = Tail(toClient) /\ Head(toClient) = CallAt(level - 1)
      /\ toClient' = <<>> \/ toClient' = <<EnterAt(level)>>
      /\ toServer' = Append(toServer, p)
      /\ UNCHANGED <<level, frames, pushAcked>>
  BY PushSent
<1>3. /\ UNCHANGED <<pendingCall, activeCall, pendingInterrupts, interrupts>>
      /\ UNCHANGED <<pendingSavedReply, mode, dead, error, Starting>>
  BY <1>1 DEF ServerKept
<1>4. ClientSees' BY <1>2 DEF ClientSees, EnterAt
<1>5. CASE Ok
  <2>1. /\ Types /\ Modes /\ Nested /\ Levels /\ OneByOne /\ Pushes /\ Contexts
        /\ AtMostOnce /\ Orderly(toServer) /\ Sync
    BY <1>2, <1>5, Parts
  <2>2. /\ \A x \in Under : x.kind = "enter"
        /\ CallAt(level - 1) \in Call /\ LevelSeen = level
    BY <1>5, OnlyTheEnter
  <2>3. toServer \in Seq(Message) /\ toClient \in Seq(Call) /\ level \in Level
    BY <2>1 DEF Types
  <2>4. p \in Message /\ p.kind = "push" /\ p.reply = CallAt(level - 1)
    <3>1. p \in Pushed BY <1>2, <2>2, <2>3 DEF Pushed
    <3>2. QED BY <1>2, <3>1 DEF Message
  <2>5. CarriedBy(p) = CallAt(level - 1) BY <2>4 DEF CarriedBy
  <2> HIDE DEF p
  <2>6. Msgs(toServer') = Msgs(toServer) \cup {p} BY <1>2, <2>3, <2>4, MsgsAppend
  <2>7. \A m \in Msgs(toServer) : m.kind # "push" /\ m \in Under /\ m.kind = "enter"
    <3>1. ~Has(toServer, "push") BY <1>2, <2>1 DEF Sync
    <3>2. QED BY <2>2, <3>1 DEF Has, Under, Requests
  <2>8. Orderly(toServer')
    <3>1. Orderly(Append(toServer, p)) BY <2>1, <2>3, <2>4, <2>7, OrderlyAppend
    <3>2. QED BY <1>2, <3>1, Zenon
  <2>9. /\ Requests(toServer') = Requests(toServer)
        /\ \A k : k # "push" => (Has(toServer', k) <=> Has(toServer, k))
        /\ Has(toServer', "push")
    BY <2>4, <2>6 DEF Requests, Has
  <2>10. Depth' = Depth BY <1>1, <1>3 DEF Depth
  <2>11. LevelSeen' = LevelSeen
    <3>1. EnterComing' <=> EnterComing BY <1>3, <2>9 DEF EnterComing
    <3>2. QED BY <2>10, <3>1 DEF LevelSeen, Bit
  <2>12. Nested' BY <1>1, <1>3, <2>1 DEF Nested
  <2>13. Levels' BY <1>3, <2>1, <2>9, <2>10 DEF Levels, Fits, Bit, Msgs, Nothing
  <2>14. OneByOne' BY <1>3, <2>1, <2>8, <2>9 DEF OneByOne, CallsOnly, Nothing
  <2>15. Contexts' BY <1>1, <1>3, <2>1 DEF Contexts, InterruptedAt, SavedAt, CallAt, Nothing
  <2>16. activeCall.kind # "exit" /\ pendingCall.kind # "exit"
    <3>1. activeCall # Nothing => activeCall.kind = "enter" BY <2>2 DEF Under
    <3>2. pendingCall # Nothing => pendingCall.kind = "enter" BY <2>2 DEF Under
    <3>3. QED BY <3>1, <3>2 DEF Nothing
  <2>17. mode = "popping" => pendingCall.kind = "enter" \/ Has(toServer, "enter")
    BY <1>5, EnterIsBehind
  <2>18. Pushes'
    <3>1. ASSUME NEW m \in Msgs(toServer'), m.kind = "push"
          PROVE  /\ m.reply = CallAt(LevelSeen' - 1)
                 /\ mode' = "popping" => pendingCall'.kind = "enter" \/ Has(toServer', "enter")
                 /\ activeCall'.kind # "exit" /\ pendingCall'.kind # "exit"
      <4>1. m = p BY <2>6, <2>7, <3>1
      <4>2. m.reply = CallAt(LevelSeen' - 1) BY <2>2, <2>4, <2>11, <4>1
      <4>3. QED BY <1>3, <2>9, <2>16, <2>17, <4>2
    <3>2. pendingSavedReply' # Nothing => /\ pendingSavedReply' = CallAt(LevelSeen' - 1)
                                          /\ pendingCall'.kind = "enter" \/ mode' = "enter"
      BY <1>3, <2>1, <2>11 DEF Pushes
    <3>3. QED BY <3>1, <3>2 DEF Pushes, CallAt, Nothing
  <2>19. ASSUME NEW x \in Call PROVE Occurrences(x)' = Occurrences(x)
    <3> DEFINE b == Bit(CallAt(level - 1) = x)
    <3>1. CarriedBy(Head(toClient)) = CallAt(level - 1)
      BY <1>2, <2>2, CarriedCall DEF CallOrNone
    <3>2. Count(toClient, x) = Count(Tail(toClient), x) + b
      BY <1>2, <2>3, <3>1, CountTail
    <3>3. NClient(x) = NClient(x)' + b BY <1>2, <3>2 DEF NClient
    <3>4. Count(Append(toServer, p), x) = Count(toServer, x) + b
      BY <2>3, <2>4, <2>5, CountAppend
    <3>5. NServer(x)' = NServer(x) + b BY <1>2, <3>4 DEF NServer
    <3>6. b \in {0, 1} BY DEF Bit
    <3> HIDE DEF b
    <3>7. QED BY <1>1, <2>1, <3>3, <3>5, <3>6, MovedCounts
  <2>20. AtMostOnce' BY <2>1, <2>19 DEF AtMostOnce
  <2>21. Sync'
    <3>1. ASSUME NEW x \in Call PROVE x \in Outstanding' <=> x \in Outstanding
      BY <1>2 DEF Outstanding, Awaited
    <3>2. ASSUME NEW x \in Call PROVE Occurrences(x)' = Bit(x \in Outstanding')
      <4>1. Occurrences(x) = Bit(x \in Outstanding) BY <2>1 DEF Sync, Exact
      <4>2. Bit(x \in Outstanding') = Bit(x \in Outstanding) BY <3>1 DEF Bit
      <4>3. QED BY <2>19, <4>1, <4>2
    <3>3. Exact' BY <3>2 DEF Exact
    <3>4. ~ExitReplied' BY <1>2 DEF ExitReplied
    <3>5. level' = LevelSeen' + Bit(ExitReplied)'
      <4>1. Bit(ExitReplied)' = 0 BY <3>4 DEF Bit
      <4>2. QED BY <1>2, <2>2, <2>11, <4>1
    <3>6. ~pushAcked' BY <1>2, <2>1 DEF Sync
    <3>7. Has(toClient', "enter") => Has(toClient, "enter")
      <4>1. Msgs(Tail(toClient)) \subseteq Msgs(toClient) BY <1>2, <2>3, MsgsTail
      <4>2. QED BY <1>2, <4>1 DEF Has
    <3>8. Has(toClient', "enter") => mode' # "popping" BY <1>3, <2>1, <3>7 DEF Sync
    <3>9. QED BY <1>2, <2>9, <3>3, <3>4, <3>5, <3>6, <3>8 DEF Sync
  <2>22. QED
    BY <1>3, <1>4, <2>12, <2>13, <2>14, <2>15, <2>18, <2>20, <2>21, Together
<1>6. CASE ~Ok BY <1>3, <1>4, <1>6, ErrorFlow DEF Ok
<1>7. QED BY <1>5, <1>6

-----------------------------------------------------------------------------
(* The invariant of the whole thread, and what it says. *)
GuardedErrors == {"pending call overwritten", "pending call and pending continuation",
                  "resumed without a stack", "continuation with a stack",
                  "pending saved reply overwrites", "reply overwrites saved reply",
                  "pop of no interrupt", "released twice"}

LEMMA ProtocolStep ==
    ASSUME Whole, [Next]_vars
    PROVE  Protocol' /\ (error' = error \/ error' \notin GuardedErrors)
<1>1. Types' BY TypesStep
<1>2. ASSUME NEW w \in Worker, SchedulerStep(w) \/ CodeStep(w) \/ SuspendLocked(w) \/ AssertWait(w)
      PROVE  Protocol' /\ (error' = error \/ error' \notin GuardedErrors)
  <2>1. CASE \/ PickUp(w) \/ Unlock(w) \/ LookAtWait(w) \/ SuspendLocked(w)
             \/ AssertWait(w) \/ ThreadBlock(w) \/ FinishCall(w)
    BY <2>1, NeutralFlow
  <2>2. CASE Begin(w) BY <1>1, <2>2, BeginFlow DEF GuardedErrors
  <2>3. CASE StartCall(w) BY <1>1, <2>3, StartCallFlow
  <2>4. CASE ReturnToTop(w) BY <1>1, <2>4, LeavesFlow DEF GuardedErrors
  <2>5. CASE Reply(w) BY <1>1, <2>5, ReplyFlow
  <2>6. CASE PopInterrupt(w) BY <1>1, <2>6, PopInterruptFlow
  <2>7. CASE EnterInterrupt(w) BY <1>1, <2>7, EnterInterruptFlow
  <2>8. CASE ReplyInterrupted(w) BY <1>1, <2>8, ReplyInterruptedFlow
  <2>9. CASE FinishEnter(w) BY <1>1, <2>9, FinishEnterFlow
  <2>10. QED
    BY <1>2, <2>1, <2>2, <2>3, <2>4, <2>5, <2>6, <2>7, <2>8, <2>9 DEF SchedulerStep, CodeStep
<1>3. CASE ClientCall \/ ClientExit BY <1>1, <1>3, CallFlow
<1>4. CASE ClientSignal BY <1>1, <1>4, SignalFlow
<1>5. CASE ClientStep BY <1>1, <1>5, ReceiveFlow, PushReplyFlow, PushedFlow DEF ClientStep
<1>6. CASE ClientKilled BY <1>1, <1>6, KilledFlow
<1>7. CASE ReceiveCall BY <1>1, <1>7, ReceiveCallFlow
<1>8. CASE ReceivePush BY <1>1, <1>8, ReceivePushFlow DEF GuardedErrors
<1>9. CASE \/ DeathStep \/ Release \/ Wake \/ UNCHANGED vars
           \/ \E i \in Impersonator : Impersonate(i) \/ ImpersonatorStep(i)
  BY <1>9, NeutralFlow
<1>10. QED BY <1>2, <1>3, <1>4, <1>5, <1>6, <1>7, <1>8, <1>9 DEF Next

LEMMA WholeStep == Whole /\ [Next]_vars => Whole'
<1> SUFFICES ASSUME Whole, [Next]_vars PROVE Whole' OBVIOUS
<1>1. HoldInv' BY HoldStep DEF Whole
<1>2. QED BY <1>1, TypesStep, ModesStep, StacksStep, ReleasingStep, ProtocolStep DEF Whole

LEMMA WholeInit == Init => Whole
<1> SUFFICES ASSUME Init PROVE Whole OBVIOUS
<1>1. HoldInv BY HoldInit
<1>2. /\ pendingCall = Nothing /\ activeCall = Nothing /\ pendingInterrupts = <<>>
      /\ interrupts = <<>> /\ pendingSavedReply = Nothing /\ mode = "done"
      /\ toServer = <<>> /\ toClient = <<>> /\ client = "user" /\ level = 0 /\ ~pushAcked
      /\ frames = [l \in Level |-> "user"] /\ dead = FALSE /\ terminating = FALSE
      /\ dtapeThread = TRUE /\ releases = 0 /\ pc = [w \in Worker |-> "idle"]
      /\ suspended = FALSE /\ continuationCallback = FALSE /\ handlingInterruptedCall = FALSE
      /\ stack = NoStack /\ allocated = {} /\ dying = "no"
  BY DEF Init
<1>3. ~Starting /\ ~Coding /\ ~Blocking /\ ~Returning /\ ~Taken /\ ~OnStack
  BY <1>2 DEF Starting, Coding, Blocking, Returning, Taken, OnStack
<1>4. Types
  <2>1. 0 \in Level BY BoundsAssumption DEF Level
  <2>2. /\ pc \in [Worker -> InPlay \cup {"idle", "unlocking"}]
        /\ impersonator \in [Impersonator -> {"idle", "waiting", "acting"}]
    BY DEF Init
  <2>3. <<>> \in Seq(Call) /\ <<>> \in Seq(Context) /\ <<>> \in Seq(Message) BY EmptySeq
  <2>4. TypeOK BY <2>2, <2>3 DEF Init, TypeOK, CallOrNone, MaybeStack
  <2>5. QED BY <1>2, <2>1, <2>3, <2>4 DEF Types
<1>5. Modes
  BY <1>2, <1>3 DEF Modes, Finished, Waiting, EnterModes, Nothing
<1>6. Stacks
  BY <1>2, <1>3 DEF Stacks, SavedTop, Own, EnterModes, Entering
<1>7. Releasing BY <1>2 DEF Releasing, Owed, Bit
<1>8. Msgs(toServer) = {} /\ Msgs(toClient) = {} /\ Msgs(pendingInterrupts) = {}
  BY <1>2, MsgsEmpty
<1>9. Depth = 0 /\ LevelSeen = 0
  BY <1>2, <1>3, <1>8 DEF Depth, LevelSeen, EnterComing, Has, Bit, Nothing
<1>10. ClientSees BY <1>2 DEF ClientSees
<1>11. Pipeline
  BY <1>2, <1>3, <1>8 DEF Pipeline, Nested, Levels, OneByOne, Orderly, Requests, Nothing
<1>12. Pushes /\ Contexts BY <1>2, <1>8 DEF Pushes, Contexts
<1>13. Outstanding = {} BY <1>2 DEF Outstanding, Awaited, Level
<1>14. ASSUME NEW c \in Call PROVE Occurrences(c) = 0
  <2>1. Nothing # c BY DEF Nothing, Call
  <2>2. \A s : s = <<>> => {i \in 1 .. Len(s) : CarriedBy(s[i]) = c} = {} OBVIOUS
  <2>3. Cardinality({}) = 0 BY FS_EmptySet
  <2>4. [i \in 1 .. Len(interrupts) |-> interrupts[i].interruptedCall] = <<>>
        /\ [i \in 1 .. Len(interrupts) |-> interrupts[i].savedReply] = <<>>
    BY <1>2
  <2>5. QED BY <1>2, <2>1, <2>2, <2>3, <2>4 DEF Occurrences
<1>15. AtMostOnce /\ Exact BY <1>13, <1>14 DEF AtMostOnce, Exact, Bit
<1>16. Sync
  BY <1>2, <1>8, <1>9, <1>15 DEF Sync, ExitReplied, Has, Bit
<1>17. QED
  BY <1>1, <1>4, <1>5, <1>6, <1>7, <1>10, <1>11, <1>12, <1>15, <1>16 DEF Whole, Protocol

(* Every variable keeps its type: what callFromMessage saves is the reply of one of the
   thread's own calls, and what the thread keeps of stacks is stacks of the pool. *)
THEOREM TypeCorrectness == Spec => []TypeOK
<1>1. Whole => TypeOK BY DEF Whole, Types
<1>2. QED BY <1>1, WholeInit, WholeStep, PTL DEF Spec

(* A stack is never lost, never freed twice and never shared by two uses of the thread:
   what is out of the pool is the thread's own stack and the one that the interrupt saved,
   and the code runs and resumes on one of these (doWork, interrupt_enter), for any
   number of workers and of stacks. *)
THEOREM NoStackIsLost == Spec => []StacksAccountedFor
<1>1. ASSUME Whole PROVE StacksAccountedFor
  <2>1. Stacks /\ Types BY <1>1 DEF Whole
  <2>2. Len(interrupts) \in Nat /\ (Len(interrupts) = 0 <=> interrupts = <<>>)
    BY <2>1, EmptySeq, LenProperties DEF Types, TypeOK
  <2>3. \A i \in SavedStacks : i = Len(interrupts) /\ interrupts[i].savedStack = SavedTop
                               /\ SavedTop # NoStack
    BY <2>1, <2>2 DEF SavedStacks, Stacks, SavedTop, Top
  <2>4. SavedTop # NoStack => Len(interrupts) \in SavedStacks
                              /\ interrupts[Len(interrupts)].savedStack = SavedTop
    BY <2>2 DEF SavedStacks, SavedTop, Top
  <2>5. {interrupts[i].savedStack : i \in SavedStacks} = {SavedTop} \ {NoStack}
    BY <2>3, <2>4
  <2>6. allocated = ({stack} \ {NoStack}) \cup {interrupts[i].savedStack : i \in SavedStacks}
    BY <2>1, <2>5 DEF Stacks
  <2>7. \A i \in SavedStacks : /\ interrupts[i].savedStack # stack
                               /\ \A j \in SavedStacks \ {i} :
                                     interrupts[i].savedStack # interrupts[j].savedStack
    BY <2>1, <2>3 DEF Stacks
  <2>8. OnStack \/ (suspended /\ ~continuationCallback) => Own \in allocated
    BY <2>1 DEF Stacks, Own
  <2>9. (\E w \in Worker : pc[w] \in InPlay \ {"begin", "top"}) => OnStack
    BY DEF InPlay, OnStack, Starting, Coding, Blocking
  <2>10. QED BY <2>1, <2>6, <2>7, <2>8, <2>9 DEF StacksAccountedFor, Stacks
<1>2. QED BY <1>1, WholeInit, WholeStep, PTL DEF Spec

(* Every call that the client waits for is in exactly one place, whatever signals, pushed
   replies and waits do to it, and a wrapper is never given a reply that is not its own
   (call.cpp, interrupt_enter, interrupt_exit), at any depth of signal handlers. *)
THEOREM NoReplyIsLost == Spec => []RepliesAccountedFor
<1>1. ASSUME Whole PROVE RepliesAccountedFor
  <2>1. ClientSees /\ (Ok /\ client # "killed" => Sync) BY <1>1 DEF Whole, Protocol
  <2>2. client # "failed" BY <2>1 DEF ClientSees
  <2>3. Ok /\ client # "killed" =>
          \A c \in Call : Occurrences(c) = IF c \in Outstanding THEN 1 ELSE 0
    BY <2>1 DEF Sync, Exact, Bit
  <2>4. QED BY <2>2, <2>3 DEF RepliesAccountedFor, Ok
<1>2. QED BY <1>1, WholeInit, WholeStep, PTL DEF Spec

(* The throws and the assertions that guard the pending call, the continuation, the stack,
   the saved replies, the contexts and the release are never reached (thread.cpp, call.cpp). *)
THEOREM TheGuardsHold == Spec => []GuardedStatesUnreachable
<1>1. Init => Whole /\ GuardedStatesUnreachable
  BY WholeInit DEF Init, GuardedStatesUnreachable
<1>2. Whole /\ GuardedStatesUnreachable /\ [Next]_vars => Whole' /\ GuardedStatesUnreachable'
  BY WholeStep, ProtocolStep DEF GuardedStatesUnreachable, GuardedErrors
<1>3. QED BY <1>1, <1>2, PTL DEF Spec
=============================================================================
