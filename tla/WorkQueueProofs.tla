--------------------------- MODULE WorkQueueProofs ---------------------------
(***************************************************************************)
(* The accounting of the worker pool, for every number of workers and of   *)
(* pushes: the counter covers the waiting workers (so it never wraps), the *)
(* pool stays within its bounds, no item is stranded beside an idle        *)
(* worker, and the pool does what Dispatcher promises: every item goes to  *)
(* one worker, once and in push order.                                     *)
(***************************************************************************)
EXTENDS WorkQueue, FiniteSetTheorems, SequenceTheorems, TLAPS

(* The counter's type depends on what it counts, and the pool keeps its
   permanent workers because only temporary ones ever expire, so the three
   invariants are proved together with that fact. *)
OnlyTemporariesExpire == \A w \in Permanent : pc[w] # "expired"

IInv == /\ TypeOK
        /\ CountCoversWaiters
        /\ PoolWithinBounds
        /\ IdleWorkersAreCalled
        /\ OnlyTemporariesExpire

(* Every set of workers is finite and has a size. *)
LEMMA WorkerSets ==
    ASSUME NEW S \in SUBSET Worker
    PROVE  IsFiniteSet(S) /\ Cardinality(S) \in Nat
BY WorkerAssumption, FS_Subset, FS_CardinalityType

(* What adding or removing one worker does to the size of a set of workers. *)
LEMMA OneWorker ==
    ASSUME NEW S \in SUBSET Worker, NEW w \in Worker
    PROVE  /\ Cardinality(S) \in Nat
           /\ w \in S => Cardinality(S) >= 1
           /\ Cardinality(S \ {w}) \in Nat
           /\ Cardinality(S \ {w}) <= Cardinality(S)
           /\ Cardinality(S \cup {w})
                = IF w \in S THEN Cardinality(S) ELSE Cardinality(S) + 1
           /\ Cardinality(S \ {w})
                = IF w \in S THEN Cardinality(S) - 1 ELSE Cardinality(S)
<1>1. IsFiniteSet(S) /\ Cardinality(S) \in Nat  BY WorkerSets
<1>2. w \in S => Cardinality(S) >= 1  BY <1>1, FS_EmptySet
<1>3. Cardinality(S \ {w})
         = IF w \in S THEN Cardinality(S) - 1 ELSE Cardinality(S)
      BY <1>1, FS_RemoveElement
<1>4. Cardinality(S \ {w}) \in Nat /\ Cardinality(S \ {w}) <= Cardinality(S)
      BY <1>1, <1>2, <1>3
<1>5. QED  BY <1>1, <1>2, <1>3, <1>4, FS_AddElement

(* One worker's step from one place to another moves it into or out of each of
   the sets the invariants count. *)
LEMMA MoveWorker ==
    ASSUME TypeOK, NEW w \in Worker, NEW s \in PC, pc' = [pc EXCEPT ![w] = s]
    PROVE  /\ pc' \in [Worker -> PC]
           /\ Waiting' = IF s = "waiting" THEN Waiting \cup {w}
                                          ELSE Waiting \ {w}
           /\ Counted' = IF s \in {"waiting", "woken", "expired"}
                         THEN Counted \cup {w} ELSE Counted \ {w}
           /\ Awake' = IF s \in {"entering", "woken", "expired"}
                       THEN Awake \cup {w} ELSE Awake \ {w}
           /\ {v \in Worker : pc'[v] # "none"}
                = IF s = "none" THEN workerThreads \ {w}
                                ELSE workerThreads \cup {w}
<1>1. pc \in [Worker -> PC] /\ workerThreads = {v \in Worker : pc[v] # "none"}
      BY DEF TypeOK
<1>2. pc' \in [Worker -> PC]  BY <1>1
<1>3. \A v \in Worker : pc'[v] = IF v = w THEN s ELSE pc[v]  BY <1>1
<1>4. Waiting' = IF s = "waiting" THEN Waiting \cup {w} ELSE Waiting \ {w}
      BY <1>3 DEF Waiting, At
<1>5. Counted' = IF s \in {"waiting", "woken", "expired"}
                 THEN Counted \cup {w} ELSE Counted \ {w}
      BY <1>3 DEF Counted, At
<1>6. Awake' = IF s \in {"entering", "woken", "expired"}
               THEN Awake \cup {w} ELSE Awake \ {w}
      BY <1>3 DEF Awake, At
<1>7. {v \in Worker : pc'[v] # "none"}
        = IF s = "none" THEN workerThreads \ {w} ELSE workerThreads \cup {w}
      BY <1>1, <1>3
<1>8. QED  BY <1>2, <1>4, <1>5, <1>6, <1>7

(* Where a worker is says which of the counted sets it is in. *)
LEMMA Places ==
    ASSUME TypeOK
    PROVE  /\ Waiting \in SUBSET Worker
           /\ Counted \in SUBSET Worker
           /\ Awake \in SUBSET Worker
           /\ workerThreads \in SUBSET Worker
           /\ \A w \in Worker :
                 /\ w \in Waiting <=> pc[w] = "waiting"
                 /\ w \in Counted <=> pc[w] \in {"waiting", "woken", "expired"}
                 /\ w \in Awake <=> pc[w] \in {"entering", "woken", "expired"}
                 /\ w \in workerThreads <=> pc[w] # "none"
BY DEF TypeOK, Waiting, Counted, Awake, At

LEMMA InitInv == Init => IInv
<1> SUFFICES ASSUME Init PROVE IInv  OBVIOUS
<1>1. TypeOK
    <2>1. workItems \in Seq(1 .. pushed)  BY EmptySeq DEF Init
    <2>2. pc \in [Worker -> PC]  BY DEF Init, PC
    <2>3. workerThreads = {w \in Worker : pc[w] # "none"}
          BY PermanentAssumption DEF Init
    <2>4. workItem \in [Worker -> 0 .. pushed]  BY DEF Init
    <2>5. dying \in BOOLEAN /\ (dying <=> destructor # "idle")  BY DEF Init
    <2>6. QED  BY <2>1, <2>2, <2>3, <2>4, <2>5 DEF Init, TypeOK
<1>2. Counted = {} /\ Waiting = {}
      BY DEF Init, Counted, Waiting, At
<1>3. CountCoversWaiters  BY <1>2, FS_EmptySet DEF Init, CountCoversWaiters
<1>4. PoolWithinBounds  BY BoundsAssumption DEF Init, PoolWithinBounds
<1>5. IdleWorkersAreCalled  BY <1>2 DEF IdleWorkersAreCalled
<1>6. OnlyTemporariesExpire
      BY PermanentAssumption DEF Init, OnlyTemporariesExpire
<1>7. QED  BY <1>1, <1>3, <1>4, <1>5, <1>6 DEF IInv

(* The push actions. *)
LEMMA PushInv == IInv /\ Push => IInv'
<1> SUFFICES ASSUME IInv, Push PROVE IInv'  OBVIOUS
<1>t. TypeOK  BY DEF IInv
<1>s. workItems' \in Seq(1 .. pushed') /\ Len(workItems') = Len(workItems) + 1
      /\ Len(workItems) \in Nat
    <2>1. workItems \in Seq(1 .. pushed) /\ pushed \in Nat  BY <1>t DEF TypeOK
    <2>2. pushed' = pushed + 1 /\ workItems' = Append(workItems, pushed + 1)
          BY DEF Push, PushAndSpawn, PushAndNotify, Enqueue
    <2>3. workItems \in Seq(1 .. pushed + 1)  BY <2>1, SeqMonotonic, SMT
    <2>4. QED  BY <2>1, <2>2, <2>3, AppendProperties, LenProperties
<1>1. CASE PushAndNotify
    <2>1. Counted' = Counted /\ Waiting' = Waiting /\ Awake' = Awake
          BY <1>1 DEF PushAndNotify, Counted, Waiting, Awake, At
    <2>2. TypeOK'
          BY <1>1, <1>t, <1>s DEF PushAndNotify, Enqueue, TypeOK
    <2>3. IdleWorkersAreCalled'
        <3>1. Cardinality(Awake) \in Nat  BY <1>t, Places, WorkerSets
        <3>2. notifies' = notifies + 1 /\ notifies \in Nat /\ dying' = dying
              BY <1>1, <1>t DEF PushAndNotify, Enqueue, TypeOK
        <3>3. QED  BY <1>s, <2>1, <3>1, <3>2 DEF IInv, IdleWorkersAreCalled
    <2>4. CountCoversWaiters' /\ PoolWithinBounds' /\ OnlyTemporariesExpire'
          BY <1>1, <2>1 DEF IInv, PushAndNotify, Enqueue, CountCoversWaiters,
             PoolWithinBounds, OnlyTemporariesExpire
    <2>5. QED  BY <2>2, <2>3, <2>4 DEF IInv
<1>2. CASE PushAndSpawn
    <2>1. PICK w \in Worker \ workerThreads :
              /\ workerThreads' = workerThreads \cup {w}
              /\ pc' = [pc EXCEPT ![w] = "entering"]
          BY <1>2 DEF PushAndSpawn
    <2>2. pc[w] = "none"  BY <1>t, <2>1, Places
    <2>3. /\ Counted' = Counted
          /\ Waiting' = Waiting
          /\ pc' \in [Worker -> PC]
          /\ {v \in Worker : pc'[v] # "none"} = workerThreads'
          BY <1>t, <2>1, <2>2, MoveWorker, Places, Zenon DEF PC
    <2>4. TypeOK'
          BY <1>2, <1>t, <1>s, <2>3 DEF PushAndSpawn, Enqueue, TypeOK
    <2>5. Waiting = {}
        <3>1. Cardinality(Counted) \in Nat  BY <1>t, Places, WorkerSets
        <3>2. Cardinality(Counted) = 0
              BY <1>2, <3>1 DEF IInv, CountCoversWaiters, PushAndSpawn, HaveRoomToSpawn
        <3>3. Counted = {}  BY <1>t, <3>2, Places, WorkerSets, FS_EmptySet
        <3>4. QED  BY <1>t, <3>3, Places
    <2>6. IdleWorkersAreCalled'  BY <2>3, <2>5 DEF IdleWorkersAreCalled
    <2>7. CountCoversWaiters'
          BY <1>2, <2>3 DEF IInv, CountCoversWaiters, PushAndSpawn, Enqueue
    <2>8. PoolWithinBounds'
        <3>1. Cardinality(workerThreads') = Cardinality(workerThreads) + 1
              BY <1>t, <2>1, Places, OneWorker
        <3>2. Cardinality(workerThreads) \in Nat  BY <1>t, Places, WorkerSets
        <3>3. QED  BY <1>2, <2>1, <3>1, <3>2, BoundsAssumption
                   DEF IInv, PoolWithinBounds, PushAndSpawn, HaveRoomToSpawn
    <2>9. OnlyTemporariesExpire'
          BY <1>t, <2>1, PermanentAssumption DEF IInv, OnlyTemporariesExpire, TypeOK
    <2>10. QED  BY <2>4, <2>6, <2>7, <2>8, <2>9 DEF IInv
<1>3. QED  BY <1>1, <1>2 DEF Push

(* One evaluation of the wait predicate by worker w, from a count `available'
   that covers every waiter and w itself. *)
LEMMA PredicateInv ==
    ASSUME IInv, NEW w \in Worker, NEW available \in Nat,
           pc[w] \in {"entering", "woken", "expired"},
           Cardinality(Counted \cup {w}) <= available,
           UNCHANGED <<dying, pushed, notifies, destructor>>,
           \/ TakeItem(w, available)
           \/ StopForDying(w, available)
           \/ KeepWaiting(w, available)
    PROVE  IInv'
<1>t. TypeOK  BY DEF IInv
<1>c. /\ Cardinality(Counted \cup {w}) \in Nat
      /\ Cardinality(Counted \cup {w}) >= 1
      /\ Cardinality(Counted \ {w}) = Cardinality(Counted \cup {w}) - 1
      /\ Cardinality(Counted) \in Nat
      /\ Cardinality(Awake) \in Nat
    <2>1. Counted \in SUBSET Worker /\ Awake \in SUBSET Worker  BY <1>t, Places
    <2>2. Cardinality(Awake) \in Nat /\ Cardinality(Counted) \in Nat
          BY <2>1, WorkerSets
    <2>3. Counted \cup {w} \in SUBSET Worker /\ w \in Counted \cup {w}
          /\ (Counted \cup {w}) \ {w} = Counted \ {w}
          BY <2>1
    <2>4. /\ Cardinality(Counted \cup {w}) \in Nat
          /\ Cardinality(Counted \cup {w}) >= 1
          /\ Cardinality((Counted \cup {w}) \ {w}) = Cardinality(Counted \cup {w}) - 1
          BY <2>3, OneWorker
    <2>5. QED  BY <2>2, <2>3, <2>4
<1>o. workerThreads' = workerThreads
      BY DEF TakeItem, StopForDying, KeepWaiting
<1>w. w \in workerThreads  BY <1>t, Places
<1>q. workItems \in Seq(1 .. pushed) /\ Len(workItems) \in Nat
      BY <1>t, LenProperties DEF TypeOK
<1>1. CASE TakeItem(w, available)
    <2>1. pc' = [pc EXCEPT ![w] = "working"]  BY <1>1 DEF TakeItem
    <2>2. /\ Counted' = Counted \ {w}
          /\ Waiting' = Waiting
          /\ Awake' = Awake \ {w}
          /\ pc' \in [Worker -> PC]
          /\ {v \in Worker : pc'[v] # "none"} = workerThreads
          BY <1>t, <1>w, <2>1, MoveWorker, Places, Zenon DEF PC
    <2>3. /\ Head(workItems) \in 1 .. pushed
          /\ workItems' \in Seq(1 .. pushed)
          /\ Len(workItems') = Len(workItems) - 1
          BY <1>1, <1>q, HeadTailProperties DEF TakeItem
    <2>4. TypeOK'
        <3>1. workItem' \in [Worker -> 0 .. pushed]
              BY <1>1, <1>t, <2>3 DEF TakeItem, TypeOK
        <3>2. QED  BY <1>1, <1>t, <1>c, <1>o, <2>2, <2>3, <3>1 DEF TakeItem, TypeOK
    <2>5. CountCoversWaiters'
          BY <1>1, <1>c, <2>2 DEF TakeItem, CountCoversWaiters
    <2>6. IdleWorkersAreCalled'
        <3>1. Cardinality(Awake \ {w}) = Cardinality(Awake) - 1
              BY <1>t, Places, OneWorker
        <3>2. notifies \in Nat  BY <1>t DEF TypeOK
        <3>3. QED  BY <1>c, <1>q, <2>2, <2>3, <3>1, <3>2 DEF IInv, IdleWorkersAreCalled
    <2>7. OnlyTemporariesExpire'
          BY <1>t, <2>1, PermanentAssumption DEF IInv, OnlyTemporariesExpire, TypeOK
    <2>8. QED  BY <1>o, <2>4, <2>5, <2>6, <2>7 DEF IInv, PoolWithinBounds
<1>2. CASE StopForDying(w, available)
    <2>1. pc' = [pc EXCEPT ![w] = "returned"]  BY <1>2 DEF StopForDying
    <2>2. /\ Counted' = Counted \ {w}
          /\ pc' \in [Worker -> PC]
          /\ {v \in Worker : pc'[v] # "none"} = workerThreads
          BY <1>t, <1>w, <2>1, MoveWorker, Places, Zenon DEF PC
    <2>3. TypeOK'
          BY <1>2, <1>t, <1>c, <1>o, <2>2 DEF StopForDying, TypeOK
    <2>4. CountCoversWaiters'
          BY <1>2, <1>c, <2>2 DEF StopForDying, CountCoversWaiters
    <2>5. IdleWorkersAreCalled'
          BY <1>2 DEF StopForDying, IdleWorkersAreCalled
    <2>6. OnlyTemporariesExpire'
          BY <1>t, <2>1, PermanentAssumption DEF IInv, OnlyTemporariesExpire, TypeOK
    <2>7. QED  BY <1>o, <2>3, <2>4, <2>5, <2>6 DEF IInv, PoolWithinBounds
<1>3. CASE KeepWaiting(w, available)
    <2>1. pc' = [pc EXCEPT ![w] = "waiting"]  BY <1>3 DEF KeepWaiting
    <2>2. /\ Counted' = Counted \cup {w}
          /\ pc' \in [Worker -> PC]
          /\ {v \in Worker : pc'[v] # "none"} = workerThreads
          BY <1>t, <1>w, <2>1, MoveWorker, Places, Zenon DEF PC
    <2>3. TypeOK'
          BY <1>3, <1>t, <1>o, <2>2 DEF KeepWaiting, TypeOK
    <2>4. CountCoversWaiters'
          BY <1>3, <2>2 DEF KeepWaiting, CountCoversWaiters
    <2>5. IdleWorkersAreCalled'
        <3>1. Len(workItems') = 0  BY <1>3 DEF KeepWaiting
        <3>2. Cardinality(Awake') \in Nat  BY <2>3, WorkerSets DEF Awake, At
        <3>3. notifies' \in Nat  BY <2>3 DEF TypeOK
        <3>4. QED  BY <3>1, <3>2, <3>3 DEF IdleWorkersAreCalled
    <2>6. OnlyTemporariesExpire'
          BY <1>t, <2>1, PermanentAssumption DEF IInv, OnlyTemporariesExpire, TypeOK
    <2>7. QED  BY <1>o, <2>3, <2>4, <2>5, <2>6 DEF IInv, PoolWithinBounds
<1>4. QED  BY <1>1, <1>2, <1>3

(* A temporary worker that gives up. *)
LEMMA RetireInv ==
    ASSUME IInv, NEW w \in Worker, pc[w] = "expired", Retire(w),
           UNCHANGED <<dying, pushed, notifies, destructor>>
    PROVE  IInv'
<1>t. TypeOK  BY DEF IInv
<1>1. pc' = [pc EXCEPT ![w] = "none"]  BY DEF Retire
<1>2. /\ Counted' = Counted \ {w}
      /\ pc' \in [Worker -> PC]
      /\ {v \in Worker : pc'[v] # "none"} = workerThreads \ {w}
      BY <1>t, <1>1, MoveWorker, Zenon DEF PC
<1>3. TypeOK'  BY <1>t, <1>2 DEF Retire, TypeOK
<1>4. CountCoversWaiters'
    <2>1. Counted \in SUBSET Worker  BY <1>t, Places
    <2>2. Cardinality(Counted) \in Nat
          /\ Cardinality(Counted \ {w}) \in Nat
          /\ Cardinality(Counted \ {w}) <= Cardinality(Counted)
          BY <2>1, OneWorker, Zenon
    <2>3. Cardinality(Counted') <= Cardinality(Counted)
          /\ Cardinality(Counted') \in Nat
          BY <1>2, <2>2
    <2>4. threadsAvailable' = threadsAvailable /\ threadsAvailable \in Nat
          BY <1>t DEF Retire, TypeOK
    <2>5. QED  BY <2>2, <2>3, <2>4 DEF IInv, CountCoversWaiters
<1>5. PoolWithinBounds'
    <2>1. workerThreads' = workerThreads \ {w}  BY DEF Retire
    <2>2. w \notin Permanent  BY DEF IInv, OnlyTemporariesExpire
    <2>3. Cardinality(workerThreads) \in Nat
          /\ Cardinality(workerThreads') <= Cardinality(workerThreads)
          /\ Cardinality(workerThreads') \in Nat
        <3>1. workerThreads \in SUBSET Worker  BY <1>t, Places
        <3>2. QED  BY <2>1, <3>1, OneWorker, Zenon
    <2>4. QED  BY <2>1, <2>2, <2>3, BoundsAssumption DEF IInv, PoolWithinBounds
<1>6. IdleWorkersAreCalled'
    <2>1. Len(workItems') = 0  BY DEF Retire
    <2>2. Cardinality(Awake') \in Nat  BY WorkerSets DEF Awake, At
    <2>3. notifies' \in Nat  BY <1>3 DEF TypeOK
    <2>4. QED  BY <2>1, <2>2, <2>3 DEF IdleWorkersAreCalled
<1>7. OnlyTemporariesExpire'
      BY <1>t, <1>1, PermanentAssumption DEF IInv, OnlyTemporariesExpire, TypeOK
<1>8. QED  BY <1>3, <1>4, <1>5, <1>6, <1>7 DEF IInv

(* Every step of a worker's loop. *)
LEMMA WorkerStepInv ==
    ASSUME IInv, NEW w \in Worker, WorkerStep(w)
    PROVE  IInv'
<1>t. TypeOK  BY DEF IInv
<1>n. threadsAvailable \in Nat /\ Cardinality(Counted) \in Nat
      /\ Cardinality(Counted) <= threadsAvailable /\ Counted \in SUBSET Worker
      BY <1>t, Places, WorkerSets DEF IInv, TypeOK, CountCoversWaiters
<1>1. CASE Enter(w)
    <2>1. w \notin Counted /\ pc[w] = "entering"  BY <1>1, <1>t, Places DEF Enter
    <2>2. Cardinality(Counted \cup {w}) = Cardinality(Counted) + 1
          BY <1>n, <2>1, OneWorker
    <2>3. Cardinality(Counted \cup {w}) <= threadsAvailable + 1
          /\ threadsAvailable + 1 \in Nat
          BY <1>n, <2>2
    <2>4. UNCHANGED <<dying, pushed, notifies, destructor>>
          /\ \/ TakeItem(w, threadsAvailable + 1)
             \/ StopForDying(w, threadsAvailable + 1)
             \/ KeepWaiting(w, threadsAvailable + 1)
          BY <1>1 DEF Enter
    <2>5. QED  BY <2>1, <2>3, <2>4, PredicateInv
<1>2. CASE Reenter(w)
    <2>1. w \in Counted /\ pc[w] = "woken"  BY <1>2, <1>t, Places DEF Reenter
    <2>2. Counted \cup {w} = Counted  BY <2>1
    <2>3. Cardinality(Counted \cup {w}) <= threadsAvailable  BY <1>n, <2>2
    <2>4. QED  BY <1>n, <1>2, <2>1, <2>3, PredicateInv DEF Reenter
<1>3. CASE Expire(w)
    <2>1. w \in Counted /\ pc[w] = "expired"  BY <1>3, <1>t, Places DEF Expire
    <2>2. Counted \cup {w} = Counted  BY <2>1
    <2>3. Cardinality(Counted \cup {w}) <= threadsAvailable  BY <1>n, <2>2
    <2>4. QED  BY <1>n, <1>3, <2>1, <2>3, PredicateInv, RetireInv DEF Expire
<1>4. CASE FinishWork(w)
    <2>1. pc' = [pc EXCEPT ![w] = "entering"] /\ pc[w] = "working"
          BY <1>4 DEF FinishWork
    <2>2. /\ Counted' = Counted
          /\ Waiting' = Waiting
          /\ Awake' = Awake \cup {w}
          /\ w \notin Awake
          /\ pc' \in [Worker -> PC]
          /\ {v \in Worker : pc'[v] # "none"} = workerThreads
        <3>1. /\ Counted' = Counted \ {w}
              /\ Waiting' = Waiting \ {w}
              /\ Awake' = Awake \cup {w}
              /\ pc' \in [Worker -> PC]
              /\ {v \in Worker : pc'[v] # "none"} = workerThreads \cup {w}
              BY <1>t, <2>1, MoveWorker, Zenon DEF PC
        <3>2. /\ w \notin Counted /\ w \notin Waiting /\ w \notin Awake
              /\ w \in workerThreads
              BY <1>t, <2>1, Places
        <3>3. QED  BY <3>1, <3>2
    <2>3. TypeOK'
        <3>1. workItem' \in [Worker -> 0 .. pushed]
              BY <1>4, <1>t DEF FinishWork, TypeOK
        <3>2. QED  BY <1>4, <1>t, <2>2, <3>1 DEF FinishWork, TypeOK
    <2>4. CountCoversWaiters' /\ PoolWithinBounds'
          BY <1>4, <2>2 DEF FinishWork, IInv, CountCoversWaiters, PoolWithinBounds
    <2>5. IdleWorkersAreCalled'
        <3>1. Cardinality(Awake') = Cardinality(Awake) + 1 /\ Cardinality(Awake) \in Nat
              BY <1>t, <2>2, Places, OneWorker
        <3>2. Len(workItems) \in Nat /\ notifies \in Nat
              BY <1>t, LenProperties DEF TypeOK
        <3>3. QED  BY <1>4, <2>2, <3>1, <3>2 DEF FinishWork, IInv, IdleWorkersAreCalled
    <2>6. OnlyTemporariesExpire'
          BY <1>t, <2>1, PermanentAssumption DEF IInv, OnlyTemporariesExpire, TypeOK
    <2>7. QED  BY <2>3, <2>4, <2>5, <2>6 DEF IInv
<1>5. QED  BY <1>1, <1>2, <1>3, <1>4 DEF WorkerStep

(* A waiter leaves the condition variable: notified, spuriously or in time. *)
LEMMA LeaveWaitInv ==
    ASSUME IInv, NEW w \in Worker, NEW s \in {"woken", "expired"},
           pc[w] = "waiting", pc' = [pc EXCEPT ![w] = s],
           s = "expired" => w \notin Permanent,
           UNCHANGED <<workItems, threadsAvailable, workerThreads, workItem,
                       dying, pushed, destructor>>,
           notifies' \in Nat, notifies' + 1 >= notifies
    PROVE  IInv'
<1>t. TypeOK  BY DEF IInv
<1>1. /\ Counted' = Counted
      /\ w \notin Awake
      /\ Awake' = Awake \cup {w}
      /\ Waiting # {}
      /\ pc' \in [Worker -> PC]
      /\ {v \in Worker : pc'[v] # "none"} = workerThreads
    <2>1. s \in PC /\ s \in {"waiting", "woken", "expired"} /\ s # "none"
          /\ s \in {"entering", "woken", "expired"}
          BY DEF PC
    <2>2. /\ Counted' = Counted \cup {w}
          /\ Awake' = Awake \cup {w}
          /\ pc' \in [Worker -> PC]
          /\ {v \in Worker : pc'[v] # "none"} = workerThreads \cup {w}
          BY <1>t, <2>1, MoveWorker, Zenon
    <2>3. w \in Counted /\ w \notin Awake /\ w \in Waiting /\ w \in workerThreads
          BY <1>t, Places
    <2>4. QED  BY <2>2, <2>3
<1>2. TypeOK'  BY <1>t, <1>1 DEF TypeOK
<1>3. CountCoversWaiters' /\ PoolWithinBounds'
      BY <1>1 DEF IInv, CountCoversWaiters, PoolWithinBounds
<1>4. IdleWorkersAreCalled'
    <2>1. Cardinality(Awake') = Cardinality(Awake) + 1 /\ Cardinality(Awake) \in Nat
          BY <1>t, <1>1, Places, OneWorker
    <2>2. Len(workItems) \in Nat /\ notifies \in Nat
          BY <1>t, LenProperties DEF TypeOK
    <2>3. ~dying => Len(workItems) <= notifies + Cardinality(Awake)
          BY <1>1 DEF IInv, IdleWorkersAreCalled
    <2>4. \A l, n, m, c \in Nat : m + 1 >= n /\ l <= n + c => l <= m + (c + 1)
          OBVIOUS
    <2>5. workItems' = workItems /\ dying' = dying  OBVIOUS
    <2>6. ~dying => Len(workItems) <= notifies' + (Cardinality(Awake) + 1)
          BY <2>1, <2>2, <2>3, <2>4, Zenon
    <2>7. QED  BY <2>1, <2>5, <2>6 DEF IdleWorkersAreCalled
<1>5. OnlyTemporariesExpire'
      BY <1>t, PermanentAssumption DEF IInv, OnlyTemporariesExpire, TypeOK
<1>6. QED  BY <1>2, <1>3, <1>4, <1>5 DEF IInv

LEMMA NotifyOneInv == IInv /\ NotifyOne => IInv'
<1> SUFFICES ASSUME IInv, NotifyOne PROVE IInv'  OBVIOUS
<1>t. TypeOK  BY DEF IInv
<1>n. notifies' \in Nat /\ notifies' + 1 >= notifies
      /\ UNCHANGED <<workItems, threadsAvailable, workerThreads, workItem,
                     dying, pushed, destructor>>
      BY <1>t DEF NotifyOne, TypeOK, poolVars
<1>1. CASE Waiting = {} /\ UNCHANGED pc
    <2>1. Waiting' = {} /\ Counted' = Counted
          BY <1>1 DEF Waiting, Counted, At
    <2>2. TypeOK'  BY <1>t, <1>n, <1>1 DEF TypeOK
    <2>3. QED  BY <1>n, <1>1, <2>1, <2>2 DEF IInv, CountCoversWaiters,
                  PoolWithinBounds, IdleWorkersAreCalled, OnlyTemporariesExpire
<1>2. ASSUME NEW w \in Waiting, pc' = [pc EXCEPT ![w] = "woken"] PROVE IInv'
    <2>1. w \in Worker /\ pc[w] = "waiting"  BY <1>2, <1>t, Places
    <2>2. QED  BY <1>n, <1>2, <2>1, LeaveWaitInv
<1>3. QED  BY <1>1, <1>2 DEF NotifyOne

(* The destructor. *)
LEMMA DestructorInv == IInv /\ (StartDying \/ NotifyAll \/ Joined) => IInv'
<1> SUFFICES ASSUME IInv, StartDying \/ NotifyAll \/ Joined PROVE IInv'  OBVIOUS
<1>t. TypeOK  BY DEF IInv
<1>1. dying' /\ UNCHANGED <<workItems, threadsAvailable, workerThreads, workItem,
                            pushed, notifies>>
      BY <1>t, Zenon DEF StartDying, NotifyAll, Joined, poolVars, TypeOK
<1>2. TypeOK' /\ Counted' = Counted /\ OnlyTemporariesExpire'
    <2>1. CASE StartDying \/ Joined
          BY <1>t, <2>1 DEF StartDying, Joined, poolVars, IInv, TypeOK, Counted, At,
             OnlyTemporariesExpire
    <2>2. CASE NotifyAll
        <3>1. \A w \in Worker :
                 pc'[w] = IF pc[w] = "waiting" THEN "woken" ELSE pc[w]
              BY <2>2 DEF NotifyAll
        <3>2. pc' \in [Worker -> PC]  BY <1>t, <2>2 DEF NotifyAll, TypeOK, PC
        <3>3. Counted' = Counted  BY <3>1 DEF Counted, At
        <3>4. workerThreads = {w \in Worker : pc'[w] # "none"}
              BY <1>t, <3>1 DEF TypeOK
        <3>5. OnlyTemporariesExpire'
              BY <3>1, PermanentAssumption DEF IInv, OnlyTemporariesExpire
        <3>6. dying' \in BOOLEAN /\ destructor' = "joining" /\ dying'
              BY <1>t, <2>2, Zenon DEF NotifyAll, TypeOK
        <3>7. TypeOK'  BY <1>1, <1>t, <3>2, <3>4, <3>6 DEF TypeOK
        <3>8. QED  BY <3>3, <3>5, <3>7
    <2>3. QED  BY <2>1, <2>2
<1>3. CountCoversWaiters' /\ PoolWithinBounds' /\ IdleWorkersAreCalled'
      BY <1>1, <1>2 DEF IInv, CountCoversWaiters, PoolWithinBounds,
         IdleWorkersAreCalled
<1>4. QED  BY <1>2, <1>3 DEF IInv

LEMMA NextInv == IInv /\ [Next]_vars => IInv'
<1> SUFFICES ASSUME IInv, [Next]_vars PROVE IInv'  OBVIOUS
<1>1. CASE Push  BY <1>1, PushInv
<1>2. CASE NotifyOne  BY <1>2, NotifyOneInv
<1>3. CASE StartDying \/ NotifyAll \/ Joined  BY <1>3, DestructorInv
<1>4. ASSUME NEW w \in Worker,
             WorkerStep(w) \/ SpuriousWakeup(w) \/ WaitPeriodEnds(w)
      PROVE  IInv'
    <2>1. CASE WorkerStep(w)  BY <2>1, WorkerStepInv
    <2>2. CASE SpuriousWakeup(w) \/ WaitPeriodEnds(w)
        <3>1. notifies' = notifies /\ notifies \in Nat
              /\ UNCHANGED <<workItems, threadsAvailable, workerThreads, workItem,
                             dying, pushed, destructor>>
              BY <2>2 DEF SpuriousWakeup, WaitPeriodEnds, poolVars, IInv, TypeOK
        <3>2. notifies' \in Nat /\ notifies' + 1 >= notifies  BY <3>1
        <3>3. CASE SpuriousWakeup(w)
              BY <3>1, <3>2, <3>3, LeaveWaitInv DEF SpuriousWakeup
        <3>4. CASE WaitPeriodEnds(w)
              BY <3>1, <3>2, <3>4, LeaveWaitInv DEF WaitPeriodEnds
        <3>5. QED  BY <2>2, <3>3, <3>4
    <2>3. QED  BY <1>4, <2>1, <2>2
<1>5. CASE UNCHANGED vars
      BY <1>5 DEF vars, IInv, TypeOK, CountCoversWaiters, PoolWithinBounds,
         IdleWorkersAreCalled, OnlyTemporariesExpire, Waiting, Counted, Awake, At
<1>6. QED  BY <1>1, <1>2, <1>3, <1>4, <1>5 DEF Next

(* The inductive invariant holds throughout. *)
THEOREM Invariance == Spec => []IInv
<1>1. Init => IInv  BY InitInv
<1>2. IInv /\ [Next]_vars => IInv'  BY NextInv
<1>3. QED  BY <1>1, <1>2, PTL DEF Spec

(* _workerThreads lists exactly the live threads and every counter is a
   natural number, for any pool size. *)
THEOREM TypeCorrect == Spec => []TypeOK
<1>1. IInv => TypeOK  BY DEF IInv
<1>2. QED  BY <1>1, Invariance, PTL

(* _threadsAvailable never counts fewer threads than are in the wait: the
   decrements of the predicate cannot wrap the unsigned counter. *)
THEOREM CounterNeverWraps == Spec => []CountCoversWaiters
<1>1. IInv => CountCoversWaiters  BY DEF IInv
<1>2. QED  BY <1>1, Invariance, PTL

(* No queued item is left without a wakeup on its way while a worker sleeps. *)
THEOREM NoStrandedItem == Spec => []IdleWorkersAreCalled
<1>1. IInv => IdleWorkersAreCalled  BY DEF IInv
<1>2. QED  BY <1>1, Invariance, PTL

(* The pool stays between its permanent workers and maximumThreads(). *)
THEOREM PoolBounded == Spec => []PoolWithinBounds
<1>1. IInv => PoolWithinBounds  BY DEF IInv
<1>2. QED  BY <1>1, Invariance, PTL

----------------------------------------------------------------------------
(* The refinement of Dispatcher.  Its items are the tickets; what makes a step
   of the pool one of its steps is that the queue holds the last tickets in
   order, that the workers hold earlier ones, and that no two hold the same. *)
Tickets ==
    /\ Len(workItems) <= pushed
    /\ \A i \in 1 .. Len(workItems) : workItems[i] = (pushed - Len(workItems)) + i
    /\ \A w \in Worker : /\ workItem[w] # 0 <=> pc[w] = "working"
                         /\ workItem[w] <= pushed - Len(workItems)
    /\ \A v, w \in Worker : v # w /\ workItem[v] = workItem[w] => workItem[v] = 0

Held == {workItem[w] : w \in Worker} \ {0}

(* What an ordered queue of tickets looks like after a push and after a pop. *)
LEMMA PushedTicket ==
    ASSUME TypeOK, Tickets, pushed' = pushed + 1, workItems' = Append(workItems, pushed + 1)
    PROVE  /\ Len(workItems') = Len(workItems) + 1
           /\ \A i \in 1 .. Len(workItems') :
                 workItems'[i] = (pushed' - Len(workItems')) + i
<1>1. workItems \in Seq(1 .. pushed) /\ pushed \in Nat /\ Len(workItems) \in Nat
      BY DEF TypeOK
<1>2. Len(workItems') = Len(workItems) + 1  BY <1>1
<1>3. ASSUME NEW i \in 1 .. Len(workItems')
      PROVE  workItems'[i] = IF i <= Len(workItems) THEN workItems[i] ELSE pushed + 1
      BY <1>1, <1>2
<1>4. QED  BY <1>1, <1>2, <1>3 DEF Tickets

LEMMA PoppedTicket ==
    ASSUME TypeOK, Tickets, workItems # <<>>
    PROVE  /\ Len(Tail(workItems)) = Len(workItems) - 1 /\ Len(workItems) \in Nat \ {0}
           /\ Head(workItems) = (pushed - Len(workItems)) + 1
           /\ \A i \in 1 .. Len(Tail(workItems)) :
                 Tail(workItems)[i] = (pushed - Len(Tail(workItems))) + i
<1>1. workItems \in Seq(1 .. pushed) /\ pushed \in Nat  BY DEF TypeOK
<1>2. /\ Len(workItems) \in Nat \ {0} /\ Len(Tail(workItems)) = Len(workItems) - 1
      /\ Head(workItems) = workItems[1]
      /\ \A i \in 1 .. Len(Tail(workItems)) : Tail(workItems)[i] = workItems[i + 1]
      BY <1>1
<1>3. Head(workItems) = (pushed - Len(workItems)) + 1  BY <1>2 DEF Tickets
<1>4. \A i \in 1 .. Len(Tail(workItems)) :
          Tail(workItems)[i] = (pushed - Len(workItems)) + (i + 1)
      BY <1>2 DEF Tickets
<1>5. QED  BY <1>1, <1>2, <1>3, <1>4

(* push: the next ticket, at the end of the queue. *)
LEMMA PushTickets ==
    ASSUME TypeOK, Tickets, Push
    PROVE  Tickets' /\ D!Submit
<1>1. /\ pushed' = pushed + 1 /\ workItems' = Append(workItems, pushed + 1)
      /\ pushed < MaxPushes /\ workItem' = workItem
      BY DEF Push, PushAndSpawn, PushAndNotify, Enqueue
<1>2. \A w \in Worker : pc'[w] = "working" <=> pc[w] = "working"
      <2>1. CASE PushAndNotify  BY <2>1 DEF PushAndNotify
      <2>2. CASE PushAndSpawn
            <3>1. PICK v \in Worker \ workerThreads : pc' = [pc EXCEPT ![v] = "entering"]
                  BY <2>2 DEF PushAndSpawn
            <3>2. QED  BY <3>1 DEF TypeOK
      <2>3. QED  BY <2>1, <2>2 DEF Push
<1>3. Tickets'  BY <1>1, <1>2, PushedTicket DEF Tickets, TypeOK
<1>4. D!Submit  BY <1>1 DEF D!Submit
<1>5. QED  BY <1>3, <1>4

(* A worker that had no item takes the first of the queue. *)
LEMMA TakeTickets ==
    ASSUME TypeOK, Tickets, NEW w \in Worker, NEW available, pc[w] # "working",
           TakeItem(w, available), pushed' = pushed
    PROVE  Tickets' /\ D!Dispatch
<1>1. /\ workItems # <<>> /\ workItems' = Tail(workItems)
      /\ workItem' = [workItem EXCEPT ![w] = Head(workItems)]
      /\ pc' = [pc EXCEPT ![w] = "working"]
      BY DEF TakeItem
<1>2. /\ pushed \in Nat /\ workItem \in [Worker -> 0 .. pushed] /\ pc \in [Worker -> PC]
      BY DEF TypeOK
<1>3. workItem[w] = 0  BY DEF Tickets
<1>4. /\ Head(workItems) \in Nat \ {0}
      /\ \A v \in Worker : workItem[v] < Head(workItems)
      BY <1>1, <1>2, PoppedTicket DEF Tickets
<1>5. \A v \in Worker : /\ workItem'[v] = IF v = w THEN Head(workItems) ELSE workItem[v]
                        /\ pc'[v] = IF v = w THEN "working" ELSE pc[v]
      BY <1>1, <1>2
<1>6. Tickets'
      <2>1. /\ Len(workItems') = Len(workItems) - 1 /\ Len(workItems) \in Nat \ {0}
            /\ Head(workItems) = (pushed - Len(workItems)) + 1
            /\ \A i \in 1 .. Len(workItems') :
                  workItems'[i] = (pushed' - Len(workItems')) + i
            BY <1>1, PoppedTicket
      <2>2. Len(workItems') <= pushed'  BY <1>2, <2>1 DEF Tickets
      <2>3. \A v \in Worker : workItem'[v] # 0 <=> pc'[v] = "working"
            BY <1>4, <1>5 DEF Tickets
      <2>4. \A v \in Worker : workItem'[v] <= pushed' - Len(workItems')
            BY <1>2, <1>4, <1>5, <2>1 DEF Tickets
      <2>5. \A u, v \in Worker : u # v /\ workItem'[u] = workItem'[v] => workItem'[u] = 0
            <3>1. \A v \in Worker : v # w => workItem'[v] # workItem'[w]
                  BY <1>2, <1>4, <1>5
            <3>2. QED  BY <1>5, <3>1 DEF Tickets
      <2>6. QED  BY <2>1, <2>2, <2>3, <2>4, <2>5 DEF Tickets
<1>7. Held' = Held \cup {Head(workItems)}
      BY <1>3, <1>4, <1>5 DEF Held
<1>8. QED  BY <1>1, <1>6, <1>7 DEF D!Dispatch, Held

(* A worker that has finished gives its item up, which nobody else holds. *)
LEMMA FinishTickets ==
    ASSUME TypeOK, Tickets, NEW w \in Worker, FinishWork(w)
    PROVE  Tickets' /\ D!Complete
<1>1. /\ pc[w] = "working" /\ pc' = [pc EXCEPT ![w] = "entering"]
      /\ workItem' = [workItem EXCEPT ![w] = 0] /\ UNCHANGED <<workItems, pushed>>
      BY DEF FinishWork
<1>2. /\ pushed \in Nat /\ workItem \in [Worker -> 0 .. pushed] /\ pc \in [Worker -> PC]
      /\ Len(workItems) \in Nat
      BY DEF TypeOK
<1>3. \A v \in Worker : /\ workItem'[v] = IF v = w THEN 0 ELSE workItem[v]
                        /\ pc'[v] = IF v = w THEN "entering" ELSE pc[v]
      BY <1>1, <1>2
<1>4. workItem[w] # 0 /\ \A v \in Worker : v # w => workItem[v] # workItem[w]
      BY <1>1 DEF Tickets
<1>5. Tickets'  BY <1>1, <1>2, <1>3 DEF Tickets
<1>6. Held' = Held \ {workItem[w]}  BY <1>3, <1>4 DEF Held
<1>7. workItem[w] \in Held  BY <1>4 DEF Held
<1>8. QED  BY <1>1, <1>5, <1>6, <1>7 DEF D!Complete, Held

(* Everything else is invisible: no item moves and no worker starts or ends. *)
LEMMA OtherTickets ==
    ASSUME TypeOK, Tickets, UNCHANGED <<workItems, workItem, pushed>>,
           \A w \in Worker : pc'[w] = "working" <=> pc[w] = "working"
    PROVE  Tickets' /\ UNCHANGED <<pushed, workItems, Held>>
BY DEF Tickets, Held

LEMMA WorkerTickets ==
    ASSUME TypeOK, Tickets, NEW w \in Worker, WorkerStep(w)
    PROVE  Tickets' /\ [D!Next]_<<pushed, workItems, Held>>
<1>1. CASE FinishWork(w)  BY <1>1, FinishTickets DEF D!Next
<1>2. CASE ~FinishWork(w)
      <2>1. /\ pc[w] \in {"entering", "woken", "expired"} /\ pushed' = pushed
            /\ \E a \in {threadsAvailable, threadsAvailable + 1} :
                  TakeItem(w, a) \/ StopForDying(w, a) \/ KeepWaiting(w, a) \/ Retire(w)
            BY <1>2 DEF WorkerStep, Enter, Reenter, Expire
      <2>2. PICK a : TakeItem(w, a) \/ StopForDying(w, a) \/ KeepWaiting(w, a) \/ Retire(w)
            BY <2>1
      <2>3. CASE TakeItem(w, a)  BY <2>1, <2>3, TakeTickets DEF D!Next
      <2>4. CASE ~TakeItem(w, a)
            <3>1. UNCHANGED <<workItems, workItem>>
                  BY <2>2, <2>4 DEF StopForDying, KeepWaiting, Retire
            <3>2. PICK s \in {"returned", "waiting", "none"} : pc' = [pc EXCEPT ![w] = s]
                  BY <2>2, <2>4 DEF StopForDying, KeepWaiting, Retire
            <3>3. \A v \in Worker : pc'[v] = "working" <=> pc[v] = "working"
                  BY <2>1, <3>2 DEF TypeOK
            <3>4. QED  BY <2>1, <3>1, <3>3, OtherTickets
      <2>5. QED  BY <2>3, <2>4
<1>3. QED  BY <1>1, <1>2

LEMMA NextTickets ==
    TypeOK /\ Tickets /\ [Next]_vars => Tickets' /\ [D!Next]_<<pushed, workItems, Held>>
<1> SUFFICES ASSUME TypeOK, Tickets, [Next]_vars
             PROVE  Tickets' /\ [D!Next]_<<pushed, workItems, Held>>
    OBVIOUS
<1>1. CASE Push  BY <1>1, PushTickets DEF D!Next
<1>2. ASSUME NEW w \in Worker, WorkerStep(w)
      PROVE  Tickets' /\ [D!Next]_<<pushed, workItems, Held>>
      BY <1>2, WorkerTickets
<1>3. CASE \/ NotifyOne \/ StartDying \/ NotifyAll \/ Joined \/ UNCHANGED vars
           \/ \E w \in Worker : SpuriousWakeup(w) \/ WaitPeriodEnds(w)
      <2>1. UNCHANGED <<workItems, workItem, pushed>>
            BY <1>3 DEF NotifyOne, StartDying, NotifyAll, Joined, SpuriousWakeup,
                        WaitPeriodEnds, poolVars, vars
      <2>2. \A v \in Worker : pc'[v] = "working" <=> pc[v] = "working"
            BY <1>3 DEF NotifyOne, StartDying, NotifyAll, Joined, SpuriousWakeup,
                        WaitPeriodEnds, vars, Waiting, At, TypeOK
      <2>3. QED  BY <2>1, <2>2, OtherTickets
<1>4. QED  BY <1>1, <1>2, <1>3 DEF Next

(* push and the workers, however they are spawned, woken, timed out and told to
   die, implement Dispatcher: each item is handed to one worker, once, in the
   order of the pushes. *)
THEOREM ImplementsDispatcher == Spec => DispatchesInOrder
<1>1. Init => Tickets /\ D!Init
      <2> SUFFICES ASSUME Init PROVE Tickets /\ D!Init  OBVIOUS
      <2>1. Tickets  BY DEF Init, Tickets
      <2>2. Held = {}  BY DEF Init, Held
      <2>3. QED  BY <2>1, <2>2 DEF Init, D!Init, Held
<1>2. TypeOK /\ Tickets /\ [Next]_vars => Tickets' /\ [D!Next]_D!vars
      BY NextTickets DEF D!vars, Held
<1>3. QED  BY <1>1, <1>2, TypeCorrect, PTL DEF Spec, DispatchesInOrder, D!Spec

(* ~WorkQueue walks _workerThreads without the lock; nobody changes the map once
   _dying is set: a push is no longer allowed, and a worker that times out finds
   _dying before it would erase itself. *)
THEOREM MapIsFixed == Spec => MapFixedWhileJoining
<1>1. TypeOK /\ [Next]_vars => [dying => workerThreads' = workerThreads]_vars
      <2> SUFFICES ASSUME TypeOK, Next, dying PROVE workerThreads' = workerThreads
          OBVIOUS
      <2>1. CASE Push
            BY <2>1 DEF Push, PushAndSpawn, PushAndNotify, Enqueue, TypeOK
      <2>2. CASE ~Push
            BY <2>2 DEF Next, NotifyOne, StartDying, NotifyAll, Joined, WorkerStep,
                        SpuriousWakeup, WaitPeriodEnds, poolVars, Enter, Reenter, Expire,
                        FinishWork, TakeItem, StopForDying, KeepWaiting, Retire
      <2>3. QED  BY <2>1, <2>2
<1>2. QED  BY <1>1, TypeCorrect, PTL DEF Spec, MapFixedWhileJoining
=============================================================================
