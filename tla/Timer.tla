------------------------------- MODULE Timer -------------------------------
(***************************************************************************)
(* The server's timers: XNU's queue of timer calls, kept by deadline       *)
(* (timer_call.c), over one host timerfd that the timer_arm hook sets      *)
(* (server.cpp) and the main loop reads.  timer.c is the glue.             *)
(*                                                                         *)
(* The queue and the timerfd have different locks.  A call that is entered *)
(* arms the timerfd first and is put in the queue afterwards; an expired   *)
(* timerfd is read by the main loop, which leaves the expiry to a kernel   *)
(* microthread, dtape_timer_fired; that one arms the timerfd again after   *)
(* it has let go of the queue.  Each of those is a step of its own here.   *)
(*                                                                         *)
(* A call is due from its soft deadline on, or from its deadline (later by *)
(* the leeway) if it is rate-limited; the queue is sorted by the deadline. *)
(***************************************************************************)
EXTENDS Naturals

CONSTANTS Call,            \* the timer_call structures
          Proc,            \* the microthreads that use timers
          SingleThreaded,  \* DSERVER_SINGLE_THREADED, on by default: one worker
          Deadline,        \* the deadlines timers are entered with
          Leeway,          \* and their leeways
          UINT64_MAX,
          PastAdjustment,  \* past_deadline_timer_adjustment
          MaxTime, MaxEnters

ASSUME SingleThreadedAssumption == SingleThreaded \in BOOLEAN
ASSUME DeadlineAssumption ==
    /\ Deadline \subseteq Nat \ {0} /\ Leeway \subseteq Nat
    /\ PastAdjustment \in Nat \ {0}
    /\ MaxTime \in Nat /\ UINT64_MAX \in Nat /\ MaxTime + PastAdjustment < UINT64_MAX
ASSUME EntersAssumption == MaxEnters \in Nat

VARIABLES now,                   \* the host's monotonic clock
          queue,                 \* timer_queue: deadline of each call, 0 if not queued
          timerFD,               \* when the timerfd expires, 0 if it is disarmed
          currentTimerDeadline,
          fired,                 \* dtape_timer_fired handed to kernelAsync and not begun
          job,                   \* what each microthread is doing with the timers
          enters                 \* how many timers were entered (a bound)

vars == <<now, queue, timerFD, currentTimerDeadline, fired, job, enters>>

NotQueued == [deadline |-> 0, due |-> 0]
Idle == [step |-> "idle"]

Queued(c) == queue[c].deadline # 0
IsHead(c) == Queued(c) /\ \A o \in Call : Queued(o) => queue[c].deadline <= queue[o].deadline
(* The deadline of the head, or UINT64_MAX when there is none (a set of one). *)
NextDeadlines ==
    IF \A c \in Call : ~ Queued(c) THEN {UINT64_MAX}
    ELSE {queue[c].deadline : c \in {o \in Call : IsHead(o)}}

(* With one worker a microthread runs only while the others are idle or,    *)
(* suspended in a callout, have left the worker.                            *)
CanRun(p) ==
    SingleThreaded => \A q \in Proc \ {p} : job[q].step \in {"idle", "callout"}

Init ==
    /\ now = 1
    /\ queue = [c \in Call |-> NotQueued]
    /\ timerFD = 0 /\ currentTimerDeadline = 0
    /\ fired = 0
    /\ job = [p \in Proc |-> Idle]
    /\ enters = 0

-----------------------------------------------------------------------------
(* The timer_arm hook. *)
TimerArm(deadline, override) ==
    LET ns == IF deadline = UINT64_MAX THEN 0 ELSE deadline
    IN  IF ~ override /\ currentTimerDeadline # 0 /\ ns >= currentTimerDeadline
        THEN UNCHANGED <<timerFD, currentTimerDeadline>>
        ELSE timerFD' = ns /\ currentTimerDeadline' = ns

(* The deadlines of a call that is entered for time d: capped, or moved to  *)
(* just after now when it has passed already.  A rate-limited call waits    *)
(* for its deadline.                                                        *)
Deadlines(d, leeway, ratelimited) ==
    LET deadline == IF d + leeway >= UINT64_MAX THEN UINT64_MAX ELSE d + leeway
    IN  IF deadline < now
        THEN [deadline |-> now + PastAdjustment, due |-> now + PastAdjustment]
        ELSE [deadline |-> deadline, due |-> IF ratelimited THEN deadline ELSE d]

(* timer_call_enter_internal: first timer_queue_assign, which arms ...      *)
AssignQueue(p, c, d, leeway, ratelimited) ==
    /\ job[p].step = "idle" /\ CanRun(p)
    /\ enters < MaxEnters /\ now + PastAdjustment <= MaxTime  \* bounds
    /\ LET at == Deadlines(d, leeway, ratelimited)
       IN  /\ TimerArm(at.deadline, FALSE)
           /\ job' = [job EXCEPT ![p] = [step |-> "enter", call |-> c, at |-> at]]
    /\ enters' = enters + 1
    /\ UNCHANGED <<now, queue, fired>>

(* ... then the queue, whether or not the call was in it.                   *)
Enqueue(p) ==
    /\ job[p].step = "enter" /\ CanRun(p)
    /\ queue' = [queue EXCEPT ![job[p].call] = job[p].at]
    /\ job' = [job EXCEPT ![p] = Idle]
    /\ UNCHANGED <<now, timerFD, currentTimerDeadline, fired, enters>>

(* timer_call_cancel of a queued call: out of the queue first ...           *)
Dequeue(p, c) ==
    /\ job[p].step = "idle" /\ CanRun(p)
    /\ Queued(c)
    /\ queue' = [queue EXCEPT ![c] = NotQueued]
    /\ job' = [job EXCEPT ![p] = [step |-> "cancel"]]
    /\ UNCHANGED <<now, timerFD, currentTimerDeadline, fired, enters>>

(* ... then, with the queue's lock taken again, the timerfd.                *)
TimerQueueCancel(p) ==
    /\ job[p].step = "cancel" /\ CanRun(p)
    /\ \E d \in NextDeadlines : TimerArm(d, TRUE)
    /\ job' = [job EXCEPT ![p] = Idle]
    /\ UNCHANGED <<now, queue, fired, enters>>

-----------------------------------------------------------------------------
(* The main loop: the timerfd is read and dtape_timer_fired scheduled.      *)
TimerEventIgnored ==  \* mutant: read but not handed on
    /\ timerFD # 0 /\ timerFD <= now
    /\ timerFD' = 0
    /\ UNCHANGED <<now, queue, currentTimerDeadline, fired, job, enters>>

TimerEvent ==
    /\ timerFD # 0 /\ timerFD <= now
    /\ timerFD' = 0
    /\ fired' = fired + 1
    /\ UNCHANGED <<now, queue, currentTimerDeadline, job, enters>>

(* dtape_timer_fired begins, with the time of its own look at the clock.    *)
TimerFired(p) ==
    /\ job[p].step = "idle" /\ CanRun(p)
    /\ fired > 0
    /\ fired' = fired - 1
    /\ job' = [job EXCEPT ![p] = [step |-> "expire", deadline |-> now]]
    /\ UNCHANGED <<now, queue, timerFD, currentTimerDeadline, enters>>

(* timer_queue_expire: the head is due.  It leaves the queue, whose lock is *)
(* dropped for the callout; there the microthread may be suspended, and what *)
(* the callout does with timers is another microthread's steps here.        *)
Expire(p) ==
    /\ job[p].step = "expire" /\ CanRun(p)
    /\ \E c \in Call :
          /\ IsHead(c) /\ queue[c].due <= job[p].deadline
          /\ queue' = [queue EXCEPT ![c] = NotQueued]
    /\ job' = [job EXCEPT ![p] = [step |-> "callout"]]
    /\ UNCHANGED <<now, timerFD, currentTimerDeadline, fired, enters>>

CalloutReturns(p) ==
    /\ job[p].step = "callout" /\ CanRun(p)
    /\ job' = [job EXCEPT ![p] = [step |-> "expire", deadline |-> now]]
    /\ UNCHANGED <<now, queue, timerFD, currentTimerDeadline, fired, enters>>

(* The head is not due: timer_queue_expire returns the next deadline ...    *)
NextDeadline(p) ==
    /\ job[p].step = "expire" /\ CanRun(p)
    /\ \/ \A c \in Call : ~ Queued(c)
       \/ \E c \in Call : IsHead(c) /\ queue[c].due > job[p].deadline
    /\ \E d \in NextDeadlines : job' = [job EXCEPT ![p] = [step |-> "arm", deadline |-> d]]
    /\ UNCHANGED <<now, queue, timerFD, currentTimerDeadline, fired, enters>>

(* ... and dtape_timer_fired arms the timerfd with it.                      *)
ArmNextIfEarlier(p) ==  \* mutant: without override
    /\ job[p].step = "arm" /\ CanRun(p)
    /\ TimerArm(job[p].deadline, FALSE)
    /\ job' = [job EXCEPT ![p] = Idle]
    /\ UNCHANGED <<now, queue, fired, enters>>

ArmNext(p) ==
    /\ job[p].step = "arm" /\ CanRun(p)
    /\ TimerArm(job[p].deadline, TRUE)
    /\ job' = [job EXCEPT ![p] = Idle]
    /\ UNCHANGED <<now, queue, fired, enters>>

Tick ==
    /\ now < MaxTime
    /\ now' = now + 1
    /\ UNCHANGED <<queue, timerFD, currentTimerDeadline, fired, job, enters>>

Advance(p) ==
    \/ Enqueue(p) \/ TimerQueueCancel(p)
    \/ TimerFired(p) \/ Expire(p) \/ CalloutReturns(p) \/ NextDeadline(p) \/ ArmNext(p)

Next ==
    \/ \E p \in Proc, c \in Call, d \in Deadline, l \in Leeway, r \in BOOLEAN :
          AssignQueue(p, c, d, l, r)
    \/ \E p \in Proc, c \in Call : Dequeue(p, c)
    \/ \E p \in Proc : Advance(p)
    \/ TimerEvent
    \/ Tick

Spec == Init /\ [][Next]_vars

(* Time passes, the main loop returns to epoll_wait, and the workers run    *)
(* the microthreads that can run; nobody has to enter or cancel a timer.    *)
Fairness == WF_vars(Tick) /\ WF_vars(TimerEvent) /\ \A p \in Proc : WF_vars(Advance(p))
FairSpec == Spec /\ Fairness

-----------------------------------------------------------------------------
DeadlinePair == [deadline : Nat, due : Nat]
Job ==
    [step : {"idle", "cancel", "callout"}]
      \cup [step : {"enter"}, call : Call, at : DeadlinePair]
      \cup [step : {"expire", "arm"}, deadline : Nat]

(* The types of the timers' state; the timerfd is never given UINT64_MAX    *)
(* for a deadline, which timer_arm turns into a disarm (server.cpp:97).     *)
TypeOK ==
    /\ now \in Nat
    /\ queue \in [Call -> DeadlinePair]
    /\ timerFD \in Nat \ {UINT64_MAX} /\ currentTimerDeadline \in Nat \ {UINT64_MAX}
    /\ fired \in Nat
    /\ job \in [Proc -> Job]
    /\ enters \in Nat

(* While a timer is in the queue, the timerfd will go off no later than its *)
(* deadline, or someone is still to look at the queue and arm it: the arm   *)
(* before the enqueue (timer.c:64), the overriding arms of a cancel and of  *)
(* dtape_timer_fired (timer.c:55, 69) and the main loop's read, which       *)
(* disarms the timerfd but not _currentTimerDeadline, never leave a timer   *)
(* behind.                                                                  *)
WillLook(deadline) ==
    \/ timerFD # 0 /\ timerFD <= deadline
    \/ fired > 0
    \/ \E p \in Proc : job[p].step \in {"expire", "callout", "cancel"}
    \/ \E p \in Proc : job[p].step = "arm" /\ job[p].deadline <= deadline

IsFinite(c) == Queued(c) /\ queue[c].deadline # UINT64_MAX

TimerIsArmed == \A c \in Call : IsFinite(c) => WillLook(queue[c].deadline)

(* A timer that is entered goes off, or is cancelled, or is entered again,  *)
(* whatever the others that are entered, cancelled and expire meanwhile     *)
(* (timer_queue_expire's loop, timer.c:55).                                 *)
EveryTimerFires == \A c \in Call : IsFinite(c) ~> ~ IsFinite(c)
=============================================================================
