---------------------------- MODULE TimerProofs ----------------------------
(***************************************************************************)
(* In the default build, with one worker, no timer with a finite deadline  *)
(* is left behind: proved for any number of timers and microthreads.       *)
(*                                                                         *)
(* TimerIsArmed is not inductive.  The arm that precedes an enqueue is     *)
(* skipped when _currentTimerDeadline is early enough, so that one must    *)
(* not be an empty promise (CurrentIsReal); what was armed must still hold *)
(* when the call gets into the queue (EnterIsCovered); and the deadline    *)
(* dtape_timer_fired arms with must still be that of the head (ArmIsNext), *)
(* which is what having one worker is needed for (OneOnWorker).            *)
(***************************************************************************)
EXTENDS Timer, TLAPS

(* No deadline that timer_arm would take for a request to disarm. *)
FiniteDeadlines == \A d \in Deadline, l \in Leeway : d + l < UINT64_MAX

Away(p) == job[p].step \in {"idle", "callout"}
OneOnWorker == \A p, q \in Proc : p # q => Away(p) \/ Away(q)
QueueIsFinite == \A c \in Call : queue[c].deadline < UINT64_MAX
FdIsCurrent == timerFD # 0 => timerFD = currentTimerDeadline
CurrentIsReal ==
    currentTimerDeadline # 0 =>
        \/ timerFD = currentTimerDeadline
        \/ fired > 0
        \/ \E p \in Proc : job[p].step \in {"expire", "callout", "arm"}
EnterIsCovered ==
    \A p \in Proc : job[p].step = "enter" =>
        /\ job[p].at.deadline < UINT64_MAX
        /\ \/ timerFD # 0 /\ timerFD <= job[p].at.deadline
           \/ fired > 0
           \/ \E q \in Proc : job[q].step = "callout"
ArmIsNext ==
    \A p \in Proc : job[p].step = "arm" =>
        /\ job[p].deadline # 0
        /\ \A c \in Call : Queued(c) => job[p].deadline <= queue[c].deadline

Inv ==
    /\ TypeOK /\ OneOnWorker /\ QueueIsFinite /\ FdIsCurrent /\ CurrentIsReal
    /\ EnterIsCovered /\ ArmIsNext /\ TimerIsArmed

-----------------------------------------------------------------------------
(* What the deadline of the head is, in the terms the invariant needs. *)
LEMMA NextIsLeast ==
    ASSUME TypeOK, QueueIsFinite, NEW d \in NextDeadlines
    PROVE  /\ d \in Nat /\ d # 0
           /\ \A c \in Call : Queued(c) => d <= queue[c].deadline
           /\ (\E c \in Call : Queued(c)) => d # UINT64_MAX
  BY DeadlineAssumption
  DEF TypeOK, QueueIsFinite, NextDeadlines, IsHead, Queued, DeadlinePair

(* What a microthread that runs knows of the others. *)
LEMMA OthersAreAway ==
    ASSUME SingleThreaded, NEW p \in Proc, CanRun(p)
    PROVE  \A q \in Proc \ {p} : Away(q)
  BY DEF CanRun, Away

LEMMA InitInv == Init => Inv
  BY DeadlineAssumption
  DEF Init, Inv, TypeOK, OneOnWorker, Away, QueueIsFinite, FdIsCurrent, CurrentIsReal,
      EnterIsCovered, ArmIsNext, TimerIsArmed, IsFinite, Queued, NotQueued, Idle,
      DeadlinePair, Job

(* An arm with the head's deadline leaves every timer armed. *)
LEMMA OverridingArm ==
    ASSUME TypeOK, QueueIsFinite, NEW d \in Nat, d # 0,
           \A c \in Call : Queued(c) => d <= queue[c].deadline,
           TimerArm(d, TRUE)
    PROVE  /\ timerFD' \in Nat \ {UINT64_MAX} /\ currentTimerDeadline' = timerFD'
           /\ \A c \in Call : Queued(c) => timerFD' # 0 /\ timerFD' <= queue[c].deadline
  BY DeadlineAssumption DEF TimerArm, TypeOK, QueueIsFinite, Queued, DeadlinePair

LEMMA AssignQueueInv ==
    ASSUME SingleThreaded, FiniteDeadlines, Inv,
           NEW p \in Proc, NEW c \in Call, NEW d \in Deadline, NEW l \in Leeway,
           NEW limited \in BOOLEAN, AssignQueue(p, c, d, l, limited)
    PROVE  Inv'
  <1> DEFINE at == Deadlines(d, l, limited)
             new == [step |-> "enter", call |-> c, at |-> at]
  <1>1. at \in DeadlinePair /\ at.deadline # 0 /\ at.deadline < UINT64_MAX
    BY DeadlineAssumption
    DEF Deadlines, DeadlinePair, FiniteDeadlines, AssignQueue, Inv, TypeOK
  <1>2. new \in Job /\ new.step = "enter" /\ new.at = at
    BY <1>1 DEF Job
  <1>3. job' = [job EXCEPT ![p] = new] /\ TimerArm(at.deadline, FALSE)
    BY DEF AssignQueue
  <1> HIDE DEF new, at
  <1>4. job'[p] = new /\ \A q \in Proc \ {p} : job'[q] = job[q] /\ Away(q)
    BY <1>3, OthersAreAway DEF Inv, TypeOK, AssignQueue
  <1>5. /\ timerFD' \in Nat \ {UINT64_MAX} /\ currentTimerDeadline' \in Nat \ {UINT64_MAX}
        /\ \/ timerFD' = timerFD /\ currentTimerDeadline' = currentTimerDeadline
              /\ currentTimerDeadline # 0 /\ currentTimerDeadline <= at.deadline
           \/ /\ timerFD' = at.deadline /\ currentTimerDeadline' = at.deadline
              /\ currentTimerDeadline = 0 \/ at.deadline < currentTimerDeadline
    BY <1>1, <1>3, DeadlineAssumption DEF TimerArm, Inv, TypeOK, DeadlinePair
  <1>6. UNCHANGED <<now, queue, fired>> /\ enters' \in Nat /\ job[p].step = "idle"
    BY EntersAssumption DEF AssignQueue, Inv, TypeOK
  <1>7. TypeOK'
    BY <1>2, <1>3, <1>5, <1>6 DEF Inv, TypeOK
  <1>8. OneOnWorker' /\ QueueIsFinite' /\ ArmIsNext'
    BY <1>2, <1>4, <1>6 DEF Inv, OneOnWorker, Away, QueueIsFinite, ArmIsNext, Queued
  <1>9. FdIsCurrent' /\ CurrentIsReal'
    BY <1>2, <1>4, <1>5, <1>6 DEF Inv, FdIsCurrent, CurrentIsReal
  <1>10. EnterIsCovered'
    <2> SUFFICES ASSUME NEW q \in Proc, job'[q].step = "enter"
                 PROVE  /\ job'[q].at.deadline < UINT64_MAX
                        /\ \/ timerFD' # 0 /\ timerFD' <= job'[q].at.deadline
                           \/ fired' > 0
                           \/ \E r \in Proc : job'[r].step = "callout"
      BY DEF EnterIsCovered
    <2>1. q = p
      BY <1>4 DEF Away
    <2>2. job'[q].at = at
      BY <2>1, <1>2, <1>4
    <2>3. \/ timerFD' # 0 /\ timerFD' <= at.deadline
          \/ fired > 0
          \/ \E r \in Proc : r # p /\ job[r].step = "callout"
      <3>1. CASE timerFD' = at.deadline
        BY <3>1, <1>1 DEF DeadlinePair
      <3>2. CASE timerFD' = timerFD /\ currentTimerDeadline # 0 /\ currentTimerDeadline <= at.deadline
        BY <3>2, <1>4, <1>6 DEF Inv, CurrentIsReal, Away
      <3> QED BY <1>5, <3>1, <3>2
    <2> QED BY <1>1, <1>4, <1>6, <2>2, <2>3
  <1>11. TimerIsArmed'
    <2> SUFFICES ASSUME NEW k \in Call, IsFinite(k)
                 PROVE  WillLook(queue[k].deadline)'
      BY <1>6 DEF TimerIsArmed, IsFinite, Queued
    <2>1. WillLook(queue[k].deadline) /\ queue[k].deadline \in Nat
      BY DEF Inv, TimerIsArmed, TypeOK, DeadlinePair
    <2>2. CASE timerFD # 0 /\ timerFD <= queue[k].deadline
      BY <1>1, <1>5, <1>6, <2>1, <2>2
      DEF WillLook, Inv, TypeOK, FdIsCurrent, DeadlinePair
    <2>3. CASE ~ (timerFD # 0 /\ timerFD <= queue[k].deadline)
      BY <1>4, <1>6, <2>1, <2>3 DEF WillLook, Away
    <2> QED BY <2>2, <2>3
  <1> QED BY <1>7, <1>8, <1>9, <1>10, <1>11 DEF Inv

LEMMA EnqueueInv ==
    ASSUME SingleThreaded, Inv, NEW p \in Proc, Enqueue(p)
    PROVE  Inv'
  <1> DEFINE c == job[p].call
             at == job[p].at
  <1>1. c \in Call /\ at \in DeadlinePair /\ at.deadline < UINT64_MAX
    BY DEF Enqueue, Inv, TypeOK, Job, EnterIsCovered
  <1>2. queue' = [queue EXCEPT ![c] = at] /\ job' = [job EXCEPT ![p] = Idle]
    BY DEF Enqueue
  <1>3. UNCHANGED <<now, timerFD, currentTimerDeadline, fired, enters>> /\ job[p].step = "enter"
    BY DEF Enqueue
  <1>4. /\ job'[p].step = "idle"
        /\ \A q \in Proc \ {p} : job'[q] = job[q] /\ Away(q)
    BY <1>2, OthersAreAway DEF Inv, TypeOK, Enqueue, Idle
  <1>5. \/ timerFD # 0 /\ timerFD <= at.deadline
        \/ fired > 0
        \/ \E q \in Proc \ {p} : job[q].step = "callout"
    BY <1>3 DEF Inv, EnterIsCovered
  <1> HIDE DEF c, at
  <1>6. TypeOK'
    BY <1>1, <1>2, <1>3 DEF Inv, TypeOK, Job, Idle
  <1>7. OneOnWorker' /\ EnterIsCovered' /\ ArmIsNext'
    BY <1>4 DEF OneOnWorker, EnterIsCovered, ArmIsNext, Away
  <1>8. QueueIsFinite'
    BY <1>1, <1>2 DEF Inv, TypeOK, QueueIsFinite
  <1>9. FdIsCurrent' /\ CurrentIsReal'
    BY <1>3, <1>4 DEF Inv, FdIsCurrent, CurrentIsReal
  <1>10. TimerIsArmed'
    <2> SUFFICES ASSUME NEW k \in Call, IsFinite(k)'
                 PROVE  WillLook(queue[k].deadline)'
      BY DEF TimerIsArmed
    <2>1. CASE k = c
      BY <1>2, <1>3, <1>4, <1>5, <2>1, <1>1 DEF WillLook, Inv, TypeOK
    <2>2. CASE k # c
      <3>1. queue'[k] = queue[k] /\ IsFinite(k)
        BY <1>1, <1>2, <2>2 DEF Inv, TypeOK, IsFinite, Queued
      <3>2. WillLook(queue[k].deadline)
        BY <3>1 DEF Inv, TimerIsArmed
      <3> QED BY <3>1, <3>2, <1>3, <1>4 DEF WillLook
    <2> QED BY <2>1, <2>2
  <1> QED BY <1>6, <1>7, <1>8, <1>9, <1>10 DEF Inv

LEMMA DequeueInv ==
    ASSUME SingleThreaded, Inv, NEW p \in Proc, NEW c \in Call, Dequeue(p, c)
    PROVE  Inv'
  <1>1. /\ queue' = [queue EXCEPT ![c] = NotQueued]
        /\ job' = [job EXCEPT ![p] = [step |-> "cancel"]]
        /\ job[p].step = "idle"
        /\ UNCHANGED <<now, timerFD, currentTimerDeadline, fired, enters>>
    BY DEF Dequeue
  <1>2. /\ job'[p].step = "cancel"
        /\ \A q \in Proc \ {p} : job'[q] = job[q] /\ Away(q)
    BY <1>1, OthersAreAway DEF Inv, TypeOK, Dequeue
  <1>3. TypeOK'
    BY <1>1 DEF Inv, TypeOK, Job, NotQueued, DeadlinePair
  <1>4. OneOnWorker' /\ EnterIsCovered' /\ ArmIsNext' /\ TimerIsArmed'
    BY <1>2 DEF OneOnWorker, EnterIsCovered, ArmIsNext, Away, TimerIsArmed, WillLook
  <1>5. QueueIsFinite'
    BY <1>1, DeadlineAssumption DEF Inv, TypeOK, QueueIsFinite, NotQueued
  <1>6. FdIsCurrent' /\ CurrentIsReal'
    BY <1>1, <1>2 DEF Inv, FdIsCurrent, CurrentIsReal
  <1> QED BY <1>3, <1>4, <1>5, <1>6 DEF Inv

(* The two overriding arms, of a cancel and of dtape_timer_fired. *)
LEMMA OverrideInv ==
    ASSUME SingleThreaded, Inv, NEW p \in Proc, CanRun(p), NEW d \in Nat, d # 0,
           \A c \in Call : Queued(c) => d <= queue[c].deadline,
           TimerArm(d, TRUE), job' = [job EXCEPT ![p] = Idle],
           UNCHANGED <<now, queue, fired, enters>>
    PROVE  Inv'
  <1>1. /\ job'[p].step = "idle"
        /\ \A q \in Proc \ {p} : job'[q] = job[q] /\ Away(q)
    BY OthersAreAway DEF Inv, TypeOK, Idle
  <1>2. /\ timerFD' \in Nat \ {UINT64_MAX} /\ currentTimerDeadline' = timerFD'
        /\ \A c \in Call : Queued(c) => timerFD' # 0 /\ timerFD' <= queue[c].deadline
    BY OverridingArm DEF Inv
  <1>3. TypeOK'
    BY <1>2 DEF Inv, TypeOK, Job, Idle
  <1>4. OneOnWorker' /\ EnterIsCovered' /\ ArmIsNext'
    BY <1>1 DEF OneOnWorker, EnterIsCovered, ArmIsNext, Away
  <1>5. QueueIsFinite' /\ FdIsCurrent' /\ CurrentIsReal'
    BY <1>2 DEF Inv, QueueIsFinite, FdIsCurrent, CurrentIsReal
  <1>6. TimerIsArmed'
    BY <1>2 DEF TimerIsArmed, IsFinite, Queued, WillLook
  <1> QED BY <1>3, <1>4, <1>5, <1>6 DEF Inv

LEMMA TimerQueueCancelInv ==
    ASSUME SingleThreaded, Inv, NEW p \in Proc, TimerQueueCancel(p)
    PROVE  Inv'
  <1>1. PICK d \in NextDeadlines : TimerArm(d, TRUE)
    BY DEF TimerQueueCancel
  <1>2. d \in Nat /\ d # 0 /\ \A c \in Call : Queued(c) => d <= queue[c].deadline
    BY NextIsLeast DEF Inv
  <1> QED BY <1>1, <1>2, OverrideInv DEF TimerQueueCancel

LEMMA ArmNextInv ==
    ASSUME SingleThreaded, Inv, NEW p \in Proc, ArmNext(p)
    PROVE  Inv'
  <1>1. /\ job[p].deadline \in Nat /\ job[p].deadline # 0
        /\ \A c \in Call : Queued(c) => job[p].deadline <= queue[c].deadline
    BY DEF ArmNext, Inv, TypeOK, Job, ArmIsNext
  <1> QED BY <1>1, OverrideInv DEF ArmNext

LEMMA TimerEventInv ==
    ASSUME Inv, TimerEvent
    PROVE  Inv'
  BY DeadlineAssumption
  DEF TimerEvent, Inv, TypeOK, OneOnWorker, Away, QueueIsFinite, FdIsCurrent, CurrentIsReal,
      EnterIsCovered, ArmIsNext, TimerIsArmed, IsFinite, Queued, WillLook

LEMMA TickInv ==
    ASSUME Inv, Tick
    PROVE  Inv'
  BY DEF Tick, Inv, TypeOK, OneOnWorker, Away, QueueIsFinite, FdIsCurrent, CurrentIsReal,
         EnterIsCovered, ArmIsNext, TimerIsArmed, IsFinite, Queued, WillLook

(* The steps of dtape_timer_fired that leave the timerfd alone: the         *)
(* microthread ends in a step from which it is to look at the queue again.  *)
LEMMA LookInv ==
    ASSUME SingleThreaded, Inv, NEW p \in Proc, CanRun(p), NEW new \in Job,
           new.step \in {"expire", "callout"},
           job' = [job EXCEPT ![p] = new],
           job[p].step # "arm",
           queue' \in [Call -> DeadlinePair],
           \A c \in Call : queue'[c] \in {queue[c], NotQueued},
           fired' \in Nat,
           UNCHANGED <<now, timerFD, currentTimerDeadline, enters>>
    PROVE  Inv'
  <1>1. /\ job'[p].step \in {"expire", "callout"}
        /\ \A q \in Proc \ {p} : job'[q] = job[q] /\ Away(q)
    BY OthersAreAway DEF Inv, TypeOK
  <1>2. TypeOK'
    BY DEF Inv, TypeOK
  <1>3. OneOnWorker' /\ EnterIsCovered' /\ ArmIsNext' /\ TimerIsArmed'
    BY <1>1 DEF OneOnWorker, EnterIsCovered, ArmIsNext, Away, TimerIsArmed, WillLook
  <1>4. QueueIsFinite'
    BY DeadlineAssumption DEF Inv, QueueIsFinite, NotQueued
  <1>5. FdIsCurrent' /\ CurrentIsReal'
    BY <1>1 DEF Inv, FdIsCurrent, CurrentIsReal
  <1> QED BY <1>2, <1>3, <1>4, <1>5 DEF Inv

LEMMA TimerFiredInv ==
    ASSUME SingleThreaded, Inv, NEW p \in Proc, TimerFired(p)
    PROVE  Inv'
  <1> DEFINE new == [step |-> "expire", deadline |-> now]
  <1>1. new \in Job /\ new.step = "expire"
    BY DEF Inv, TypeOK, Job
  <1>2. fired' \in Nat /\ queue' = queue /\ queue \in [Call -> DeadlinePair]
    BY DEF TimerFired, Inv, TypeOK
  <1>3. job' = [job EXCEPT ![p] = new] /\ job[p].step # "arm"
    BY DEF TimerFired
  <1> HIDE DEF new
  <1> QED BY <1>1, <1>2, <1>3, LookInv DEF TimerFired

LEMMA CalloutReturnsInv ==
    ASSUME SingleThreaded, Inv, NEW p \in Proc, CalloutReturns(p)
    PROVE  Inv'
  <1> DEFINE new == [step |-> "expire", deadline |-> now]
  <1>1. new \in Job /\ new.step = "expire"
    BY DEF Inv, TypeOK, Job
  <1>2. fired' \in Nat /\ queue' = queue /\ queue \in [Call -> DeadlinePair]
    BY DEF CalloutReturns, Inv, TypeOK
  <1>3. job' = [job EXCEPT ![p] = new] /\ job[p].step # "arm"
    BY DEF CalloutReturns
  <1> HIDE DEF new
  <1> QED BY <1>1, <1>2, <1>3, LookInv DEF CalloutReturns

LEMMA ExpireInv ==
    ASSUME SingleThreaded, Inv, NEW p \in Proc, Expire(p)
    PROVE  Inv'
  <1> DEFINE new == [step |-> "callout"]
  <1>1. new \in Job /\ new.step = "callout"
    BY DEF Job
  <1>2. /\ fired' \in Nat /\ queue' \in [Call -> DeadlinePair]
        /\ \A c \in Call : queue'[c] \in {queue[c], NotQueued}
    BY DEF Expire, Inv, TypeOK, NotQueued, DeadlinePair
  <1>3. job' = [job EXCEPT ![p] = new] /\ job[p].step # "arm"
    BY DEF Expire
  <1> HIDE DEF new
  <1> QED BY <1>1, <1>2, <1>3, LookInv DEF Expire

LEMMA NextDeadlineInv ==
    ASSUME SingleThreaded, Inv, NEW p \in Proc, NextDeadline(p)
    PROVE  Inv'
  <1>1. PICK d \in NextDeadlines : job' = [job EXCEPT ![p] = [step |-> "arm", deadline |-> d]]
    BY DEF NextDeadline
  <1>2. d \in Nat /\ d # 0 /\ \A c \in Call : Queued(c) => d <= queue[c].deadline
    BY NextIsLeast DEF Inv
  <1>3. UNCHANGED <<now, queue, timerFD, currentTimerDeadline, fired, enters>>
    BY DEF NextDeadline
  <1>4. /\ job'[p].step = "arm" /\ job'[p].deadline = d
        /\ \A q \in Proc \ {p} : job'[q] = job[q] /\ Away(q)
    BY <1>1, OthersAreAway DEF Inv, TypeOK, NextDeadline
  <1>5. TypeOK'
    BY <1>1, <1>2, <1>3 DEF Inv, TypeOK, Job
  <1>6. OneOnWorker' /\ EnterIsCovered' /\ ArmIsNext' /\ TimerIsArmed'
    BY <1>2, <1>3, <1>4
    DEF OneOnWorker, EnterIsCovered, ArmIsNext, Away, TimerIsArmed, WillLook, IsFinite, Queued
  <1>7. QueueIsFinite' /\ FdIsCurrent' /\ CurrentIsReal'
    BY <1>3, <1>4 DEF Inv, QueueIsFinite, FdIsCurrent, CurrentIsReal
  <1> QED BY <1>5, <1>6, <1>7 DEF Inv

-----------------------------------------------------------------------------
LEMMA NextInv ==
    ASSUME SingleThreaded, FiniteDeadlines, Inv, [Next]_vars
    PROVE  Inv'
  <1>1. CASE UNCHANGED vars
    BY <1>1
    DEF vars, Inv, TypeOK, OneOnWorker, Away, QueueIsFinite, FdIsCurrent, CurrentIsReal,
        EnterIsCovered, ArmIsNext, TimerIsArmed, IsFinite, Queued, WillLook
  <1>2. ASSUME NEW p \in Proc, Advance(p) PROVE Inv'
    BY <1>2, EnqueueInv, TimerQueueCancelInv, TimerFiredInv, ExpireInv, CalloutReturnsInv,
       NextDeadlineInv, ArmNextInv
    DEF Advance
  <1> QED BY <1>1, <1>2, AssignQueueInv, DequeueInv, TimerEventInv, TickInv DEF Next

(* In the single-threaded build, with deadlines short of UINT64_MAX, while  *)
(* a timer is queued the timerfd is armed for it or someone is still to     *)
(* look, through every interleaving of entering, cancelling, the main       *)
(* loop's read and dtape_timer_fired.                                       *)
THEOREM NoTimerLeftBehind ==
    ASSUME SingleThreaded, FiniteDeadlines
    PROVE  Spec => [](TypeOK /\ TimerIsArmed)
  <1>1. Init => Inv
    BY InitInv
  <1>2. Inv /\ [Next]_vars => Inv'
    BY NextInv
  <1>3. Inv => TypeOK /\ TimerIsArmed
    BY DEF Inv
  <1> QED BY <1>1, <1>2, <1>3, PTL DEF Spec
=============================================================================
