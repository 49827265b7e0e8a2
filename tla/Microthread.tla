----------------------------- MODULE Microthread -----------------------------
(***************************************************************************)
(* One managed thread of osxieserver (thread.cpp) with the actors that     *)
(* touch it: the client thread it stands for (the generated RPC wrappers   *)
(* and the signal handler that brackets itself with interrupt_enter and    *)
(* interrupt_exit), the server's main loop, which turns messages into      *)
(* pending calls, the worker threads that run doWork on it, whoever wakes  *)
(* it from a wait, a kernel microthread that impersonates it, and its      *)
(* death.                                                                  *)
(*                                                                         *)
(* One action is one critical section of the thread's _rwlock, or one      *)
(* stretch of code that touches nothing another actor can see.             *)
(***************************************************************************)
EXTENDS Naturals, Sequences, FiniteSets

CONSTANTS Worker,       \* worker threads of the work queue
          Impersonator, \* kernel microthreads that may impersonate the thread
          StackId,      \* stacks the pool can hand out
          WaitKinds,    \* how calls wait: "locked", "unlocked" or both
          MaxDepth,     \* bound on the nesting of signal handlers
          MaxCalls,     \* bound on the calls the client makes
          MaxSignals,   \* bound on the signals it receives
          MaxWaits,     \* bound on the waits of all its calls
          MaxImpersonations, \* bound on the impersonations of the thread
          Mortal        \* whether the client can be killed

ASSUME WorkerAssumption == Worker # {} /\ Worker \cap Impersonator = {}
ASSUME WaitKindsAssumption == WaitKinds \subseteq {"locked", "unlocked"}
ASSUME BoundsAssumption == /\ MaxDepth \in Nat /\ MaxCalls \in Nat
                           /\ MaxSignals \in Nat /\ MaxWaits \in Nat
                           /\ MaxImpersonations \in Nat /\ Mortal \in BOOLEAN

VARIABLES
  \* members of Thread
  pendingCall, activeCall, pendingInterrupts, interrupts,
  running, suspended, deferralState,
  continuationCallback,      \* whether there is one
  interruptedContinuation,   \* whether there is one
  interruptedForSignal,
  handlingInterruptedCall,   \* and _pendingCallOverride, set and cleared with it
  pendingSavedReply, dead, terminating,
  dying,                     \* what notifyDead has still to do
  stack,                     \* _stack
  resumeContext,             \* the stack _resumeContext runs on
  returnContext,             \* the stack _syscallReturnHereDuringInterrupt runs on
  dtapeThread,               \* whether _dtapeThread is still there
  \* around it
  allocated,                 \* stacks that are not in the pool
  scheduled,                 \* entries for this thread in the work queue
  pc,                        \* where each worker is in doWork
  mode,                      \* what the microthread's code does when it runs
  executing,                 \* the stack it runs on
  waiting,                   \* whether it is on a wait queue, and of which kind
  queueLock,                 \* the worker whose unlockMeWhenSuspending is set
  waits, releases,           \* waits made; _scheduleRelease calls not yet run
  unheard,                   \* history: a resume() came before the suspension
  impersonator, impersonations,
  error,                     \* the exception or assertion that ended the server
  \* the client
  client, level, frames, calls, signals, toServer, toClient, pushAcked

callVars == <<pendingCall, activeCall, pendingInterrupts>>
interruptVars == <<interrupts, interruptedContinuation, interruptedForSignal,
                   handlingInterruptedCall, pendingSavedReply, returnContext>>
stackVars == <<stack, resumeContext, allocated, executing>>
lifeVars == <<dead, terminating, dying, dtapeThread, releases>>
waitVars == <<waiting, queueLock, waits, unheard>>
impVars == <<impersonator, impersonations>>
clientVars == <<client, level, frames, calls, signals, toServer, pushAcked>>
vars == <<callVars, interruptVars, stackVars, lifeVars, waitVars, impVars,
          clientVars, toClient, running, suspended, deferralState,
          continuationCallback, scheduled, pc, mode, error>>

Nothing == [kind |-> "none", level |-> 0]
NoStack == "no stack"
ASSUME StackAssumption == NoStack \notin StackId
Nobody == "nobody"
Level == 0 .. MaxDepth
Call == [kind : {"call", "enter", "exit"}, level : Level]
CallOrNone == Call \cup {Nothing}
MaybeStack == StackId \cup {NoStack}
Context == [savedStack : MaybeStack, interruptedCall : CallOrNone,
            savedReply : CallOrNone]
Top == interrupts[Len(interrupts)]
Ok == error = "none"  \* the server has not thrown
InPlay == {"begin", "start", "run", "blocking", "suspending", "top"}  \* inside doWork, _running set

Init ==
    /\ pendingCall = Nothing /\ activeCall = Nothing /\ pendingInterrupts = <<>>
    /\ interrupts = <<>>
    /\ running = FALSE /\ suspended = FALSE /\ deferralState = "NotDeferred"
    /\ continuationCallback = FALSE /\ interruptedContinuation = FALSE
    /\ interruptedForSignal = FALSE /\ handlingInterruptedCall = FALSE
    /\ pendingSavedReply = Nothing /\ dead = FALSE /\ terminating = FALSE /\ dying = "no"
    /\ stack = NoStack /\ resumeContext = NoStack /\ returnContext = NoStack
    /\ dtapeThread = TRUE /\ allocated = {} /\ scheduled = 0
    /\ pc = [w \in Worker |-> "idle"] /\ mode = "done" /\ executing = NoStack
    /\ waiting = "no" /\ queueLock = Nobody /\ waits = 0 /\ releases = 0
    /\ unheard = FALSE
    /\ impersonator = [i \in Impersonator |-> "idle"] /\ impersonations = 0 /\ error = "none"
    /\ client = "user" /\ level = 0 /\ frames = [l \in Level |-> "user"]
    /\ calls = 0 /\ signals = 0 /\ toServer = <<>> /\ toClient = <<>>
    /\ pushAcked = FALSE

----------------------------------------------------------------------------
(* The client: a generated RPC wrapper sends its call and receives until the
   reply arrives.  A signal runs the handler, which starts with interrupt_enter
   (a wrapper that pushes replies it does not expect back to the server) and
   ends with interrupt_exit. *)

ServerVars == <<callVars, interruptVars, stackVars, lifeVars, waitVars, impVars,
                running, suspended, deferralState, continuationCallback,
                scheduled, pc, mode, error>>

ClientCall == /\ client = "user"
              /\ calls < MaxCalls
              /\ calls' = calls + 1
              /\ client' = "calling"
              /\ toServer' = Append(toServer, [kind |-> "call", level |-> level])
              /\ UNCHANGED <<level, frames, signals, toClient, pushAcked, ServerVars>>

ClientSignal == /\ client \in {"user", "calling"}
                /\ signals < MaxSignals
                /\ level < MaxDepth
                /\ signals' = signals + 1
                /\ frames' = [frames EXCEPT ![level] = client]
                /\ level' = level + 1
                /\ client' = "entering"
                /\ toServer' = Append(toServer, [kind |-> "enter", level |-> level + 1])
                /\ UNCHANGED <<calls, toClient, pushAcked, ServerVars>>

ClientExit == /\ client = "user"
              /\ level > 0
              /\ client' = "exiting"
              /\ toServer' = Append(toServer, [kind |-> "exit", level |-> level])
              /\ UNCHANGED <<level, frames, calls, signals, toClient, pushAcked,
                             ServerVars>>

Awaited == CASE client = "calling"  -> [kind |-> "call", level |-> level]
             [] client = "entering" -> [kind |-> "enter", level |-> level]
             [] client = "exiting"  -> [kind |-> "exit", level |-> level]
             [] OTHER               -> Nothing

(* A wrapper gives up on a reply that is not its own, unless it is the one of
   interrupt_enter, which pushes it back to the server. *)
ClientReceive ==
    /\ Awaited # Nothing
    /\ toClient # <<>>
    /\ client = "entering" => Head(toClient) = Awaited
    /\ toClient' = Tail(toClient)
    /\ IF Head(toClient) # Awaited
       THEN client' = "failed" /\ UNCHANGED level
       ELSE IF client = "exiting"
       THEN level' = level - 1 /\ client' = frames[level - 1]
       ELSE client' = "user" /\ UNCHANGED level
    /\ UNCHANGED <<frames, calls, signals, toServer, pushAcked, ServerVars>>

(* dserver_rpc_hooks_push_reply, which then waits for a byte from the server *)
ClientPushReply ==
    /\ client = "entering"
    /\ toClient # <<>>
    /\ Head(toClient) # Awaited
    /\ toClient' = Tail(toClient)
    /\ toServer' = Append(toServer, [kind |-> "push", level |-> level,
                                     reply |-> Head(toClient)])
    /\ client' = "pushing"
    /\ UNCHANGED <<level, frames, calls, signals, pushAcked, ServerVars>>

ClientPushed == /\ client = "pushing"
                /\ pushAcked
                /\ pushAcked' = FALSE
                /\ client' = "entering"
                /\ UNCHANGED <<level, frames, calls, signals, toServer, toClient,
                               ServerVars>>

ClientKilled == /\ Mortal
                /\ client # "killed"
                /\ client' = "killed"
                /\ UNCHANGED <<level, frames, calls, signals, toServer, toClient,
                               pushAcked, ServerVars>>

----------------------------------------------------------------------------
(* The main loop: callFromMessage, setPendingCall, and the push of the thread
   onto the work queue.  A dead thread is no longer registered, and a message
   from it is ignored.  The loop does one thing at a time: nothing is received
   while it is in notifyDead. *)
Receiving == Ok /\ dying = "no" /\ toServer # <<>>

ReceiveCall ==
    /\ Receiving
    /\ LET c == Head(toServer) IN
       /\ c.kind # "push"
       /\ toServer' = Tail(toServer)
       /\ IF dead
          THEN UNCHANGED <<pendingCall, pendingInterrupts, scheduled, error>>
          ELSE IF pendingCall = Nothing
          THEN /\ pendingCall' = c
               /\ scheduled' = scheduled + 1
               /\ UNCHANGED <<pendingInterrupts, error>>
          ELSE IF c.kind = "enter"
          THEN /\ pendingInterrupts' = Append(pendingInterrupts, c)
               /\ scheduled' = scheduled + 1
               /\ UNCHANGED <<pendingCall, error>>
          ELSE /\ error' = "pending call overwritten"
               /\ UNCHANGED <<pendingCall, pendingInterrupts, scheduled>>
    /\ UNCHANGED <<activeCall, interruptVars, stackVars, lifeVars, waitVars, impVars,
                   client, level, frames, calls, signals, pushAcked, toClient,
                   running, suspended, deferralState, continuationCallback, pc, mode>>

SaveInTop(reply) ==
    interrupts' = [interrupts EXCEPT ![Len(interrupts)].savedReply = reply]

(* What is read out of the client for a push_reply call, which throws when the
   client is gone and its death is not yet noticed. *)
PushedReply(m) == m.reply

ReceivePush ==
    /\ Receiving
    /\ LET m == Head(toServer) IN
       /\ m.kind = "push"
       /\ toServer' = Tail(toServer)
       /\ IF dead
          THEN UNCHANGED <<pendingSavedReply, interrupts, pushAcked, error>>
          ELSE IF client = "killed"
          THEN /\ error' = "pushed reply not readable"
               /\ UNCHANGED <<pendingSavedReply, interrupts, pushAcked>>
          ELSE IF pendingCall.kind = "enter"
          THEN /\ pendingSavedReply' = PushedReply(m)
               /\ pushAcked' = TRUE
               /\ UNCHANGED <<interrupts, error>>
          ELSE IF interrupts = <<>>
          THEN /\ error' = "push outside of interrupt"
               /\ UNCHANGED <<pendingSavedReply, interrupts, pushAcked>>
          ELSE IF Top.savedReply # Nothing
          THEN /\ error' = "push overwrites saved reply"
               /\ UNCHANGED <<pendingSavedReply, interrupts, pushAcked>>
          ELSE /\ SaveInTop(PushedReply(m))
               /\ pushAcked' = TRUE
               /\ UNCHANGED <<pendingSavedReply, error>>
    /\ UNCHANGED <<callVars, interruptedContinuation, interruptedForSignal,
                   handlingInterruptedCall, returnContext, stackVars, lifeVars,
                   waitVars, impVars, client, level, frames, calls, signals, toClient,
                   running, suspended, deferralState, continuationCallback, scheduled,
                   pc, mode>>

(* resume: dropped unless the thread is suspended, also if it is about to be. *)
Blocking == \E w \in Worker : pc[w] \in {"blocking", "suspending"}
Resume == /\ scheduled' = IF suspended THEN scheduled + 1 ELSE scheduled
          /\ unheard' = (unheard \/ Blocking)

(* What clear_wait_internal clears: the wait of an assert_wait, but not the place
   of the thread in the queue of a duct-taped lock. *)
ClearWait == IF waiting = "unlocked" THEN "no" ELSE waiting

(* The process's pidfd fires and the main loop calls notifyDead, which marks the
   thread under its lock. *)
NotifyDead ==
    /\ Ok
    /\ client = "killed"
    /\ ~dead
    /\ dead' = TRUE
    /\ terminating' = (terminating \/ activeCall = Nothing)
    /\ dying' = IF activeCall = Nothing THEN "release" ELSE "resume"
    /\ UNCHANGED <<callVars, interruptVars, stackVars, dtapeThread, releases, waitVars,
                   impVars, clientVars, toClient, running, suspended, deferralState,
                   continuationCallback, scheduled, pc, mode, error>>

(* Then dtape_thread_dying clears TH_WAIT, so that a thread_block which has not
   looked at it yet does not suspend, and one that has looked does.  A thread that
   will not run again is to be released. *)
ThreadDying ==
    /\ Ok
    /\ dying \in {"release", "resume"}
    /\ waiting' = ClearWait
    /\ pc' = [w \in Worker |-> IF pc[w] = "blocking" THEN "run" ELSE pc[w]]
    /\ dying' = IF dying = "release" THEN "no" ELSE "cleared"
    /\ releases' = IF dying = "release" THEN releases + 1 ELSE releases
    /\ UNCHANGED <<callVars, interruptVars, stackVars, dead, terminating, dtapeThread,
                   queueLock, waits, unheard, impVars, clientVars, toClient, running,
                   suspended, deferralState, continuationCallback, scheduled, mode, error>>

(* The others are resumed, if they are suspended by now. *)
ResumeDead ==
    /\ Ok
    /\ dying = "cleared"
    /\ dying' = "no"
    /\ Resume
    /\ UNCHANGED <<callVars, interruptVars, stackVars, dead, terminating, dtapeThread,
                   releases, waiting, queueLock, waits, impVars, clientVars, toClient,
                   running, suspended, deferralState, continuationCallback, pc, mode, error>>

(* The kernel microthread that _scheduleRelease asked for. *)
Release ==
    /\ Ok
    /\ releases > 0
    /\ releases' = releases - 1
    /\ dtapeThread' = FALSE
    /\ error' = IF dtapeThread THEN error ELSE "released twice"
    /\ UNCHANGED <<callVars, interruptVars, stackVars, dead, terminating, dying,
                   waitVars, impVars, clientVars, toClient, running, suspended,
                   deferralState, continuationCallback, scheduled, pc, mode>>

----------------------------------------------------------------------------
(* doWork, run by worker w on an entry of the work queue. *)
At(w, place) == Ok /\ pc[w] = place

PickUpDeferredForgets(w) ==  \* mutant: a deferred execution is not remembered
    /\ deferralState # "NotDeferred"
    /\ UNCHANGED <<deferralState, running, terminating, pc>>

PickUpDeferred(w) ==
    /\ deferralState # "NotDeferred"
    /\ deferralState' = "DeferredPending"
    /\ UNCHANGED <<running, terminating, pc>>

PickUpRunning(w) ==
    /\ deferralState = "NotDeferred"
    /\ running
    /\ UNCHANGED <<running, deferralState, terminating, pc>>

PickUpDead(w) ==
    /\ deferralState = "NotDeferred"
    /\ ~running
    /\ terminating \/ (dead /\ activeCall = Nothing)
    /\ terminating' = TRUE
    /\ UNCHANGED <<running, deferralState, pc>>

PickUpToRunAgain(w) ==  \* mutant: no check of _running
    /\ deferralState = "NotDeferred"
    /\ ~terminating /\ ~(dead /\ activeCall = Nothing)
    /\ running' = TRUE
    /\ pc' = [pc EXCEPT ![w] = "begin"]
    /\ UNCHANGED <<deferralState, terminating>>

PickUpToRun(w) ==
    /\ deferralState = "NotDeferred"
    /\ ~running
    /\ ~terminating /\ ~(dead /\ activeCall = Nothing)
    /\ running' = TRUE
    /\ pc' = [pc EXCEPT ![w] = "begin"]
    /\ UNCHANGED <<deferralState, terminating>>

PickUp(w) ==
    /\ At(w, "idle")
    /\ scheduled > 0
    /\ scheduled' = scheduled - 1
    /\ PickUpDeferred(w) \/ PickUpRunning(w) \/ PickUpDead(w) \/ PickUpToRun(w)
    /\ UNCHANGED <<callVars, interruptVars, stackVars, dead, dying, dtapeThread,
                   releases, waitVars, impVars, clientVars, toClient, suspended,
                   continuationCallback, mode, error>>

NeverDying == FALSE  \* mutant: the death that waited for the call is forgotten
FinishesDying == dead /\ activeCall = Nothing /\ ~terminating

(* doneWorking, with the lock still held. *)
DoneWorking(w) ==
    /\ running' = FALSE
    /\ pc' = [pc EXCEPT ![w] = IF queueLock = w THEN "unlocking" ELSE "idle"]
    /\ IF FinishesDying
       THEN terminating' = TRUE /\ releases' = releases + 1
       ELSE UNCHANGED <<terminating, releases>>
    /\ IF ~dtapeThread
       THEN /\ error' = "exit of a released thread"
            /\ UNCHANGED <<pendingCall, pendingInterrupts, scheduled>>
       ELSE IF dead \/ pendingInterrupts = <<>>
       THEN UNCHANGED <<pendingCall, pendingInterrupts, scheduled, error>>
       ELSE IF pendingCall # Nothing
       THEN /\ error' = "interrupt to schedule but call pending"
            /\ UNCHANGED <<pendingCall, pendingInterrupts, scheduled>>
       ELSE /\ pendingCall' = Head(pendingInterrupts)
            /\ pendingInterrupts' = Tail(pendingInterrupts)
            /\ scheduled' = scheduled + 1
            /\ UNCHANGED error

(* The second critical section, after an InterruptEnter has been given a context
   of its own: the fields as it leaves them. *)
TakesInterrupt == ~handlingInterruptedCall /\ pendingCall.kind = "enter"
StackNow == IF TakesInterrupt THEN NoStack ELSE stack
ContinuationKept == continuationCallback  \* mutant: not reset for an interrupt
ContinuationNow == ~TakesInterrupt /\ continuationCallback

EnterContext ==
    /\ interrupts' = IF TakesInterrupt
                     THEN Append(interrupts, [savedStack |-> stack,
                                              interruptedCall |-> activeCall,
                                              savedReply |-> Nothing])
                     ELSE interrupts
    /\ interruptedContinuation' = IF TakesInterrupt THEN continuationCallback
                                                    ELSE interruptedContinuation
    /\ activeCall' = IF TakesInterrupt THEN Nothing ELSE activeCall
    /\ UNCHANGED <<interruptedForSignal, handlingInterruptedCall, pendingSavedReply,
                   returnContext>>

BeginResumes(w) ==
    /\ suspended
    /\ handlingInterruptedCall \/ pendingCall = Nothing
    /\ suspended' = FALSE
    /\ continuationCallback' = FALSE
    /\ pc' = [pc EXCEPT ![w] = "run"]
    /\ IF ContinuationNow
       THEN /\ error' = IF StackNow = NoStack THEN error ELSE "continuation with a stack"
            /\ \E s \in StackId \ allocated :
                  /\ stack' = s
                  /\ executing' = s
                  /\ resumeContext' = s
                  /\ allocated' = allocated \cup {s}
       ELSE /\ error' = IF StackNow = NoStack THEN "resumed without a stack" ELSE error
            /\ stack' = StackNow
            /\ executing' = resumeContext
            /\ UNCHANGED <<resumeContext, allocated>>
    /\ UNCHANGED <<pendingCall, pendingInterrupts, running, scheduled, terminating,
                   releases>>

BeginStarts(w) ==
    /\ ~(suspended /\ handlingInterruptedCall)
    /\ pendingCall # Nothing
    /\ suspended' = FALSE
    /\ continuationCallback' = ContinuationNow
    /\ pc' = [pc EXCEPT ![w] = "start"]
    /\ \E s \in StackId \ (allocated \ {StackNow}) :
          /\ stack' = s
          /\ executing' = s
          /\ allocated' = (allocated \ {StackNow}) \cup {s}
    /\ UNCHANGED <<pendingCall, pendingInterrupts, resumeContext, running, scheduled,
                   terminating, releases, error>>

BeginFindsNothing(w) ==
    /\ ~suspended
    /\ pendingCall = Nothing
    /\ DoneWorking(w)
    /\ UNCHANGED <<suspended, continuationCallback, stackVars>>

Begin(w) ==
    /\ At(w, "begin")
    /\ EnterContext
    /\ IF ContinuationNow /\ pendingCall # Nothing
       THEN /\ error' = "pending call and pending continuation"
            /\ UNCHANGED <<pendingCall, pendingInterrupts, suspended, running, scheduled,
                           continuationCallback, stackVars, pc, terminating, releases>>
       ELSE BeginResumes(w) \/ BeginStarts(w) \/ BeginFindsNothing(w)
    /\ UNCHANGED <<dead, dying, dtapeThread, waitVars, impVars, clientVars, toClient,
                   deferralState, mode>>

(* microthreadWorker: makePendingCallActive, then processCall. *)
StartCall(w) ==
    /\ At(w, "start")
    /\ activeCall' = pendingCall
    /\ pendingCall' = Nothing
    /\ mode' = IF pendingCall.kind = "enter" THEN "enter" ELSE "call"
    /\ pc' = [pc EXCEPT ![w] = "run"]
    /\ UNCHANGED <<pendingInterrupts, interruptVars, stackVars, lifeVars, waitVars,
                   impVars, clientVars, toClient, running, suspended, deferralState,
                   continuationCallback, scheduled, error>>

KeepsStackIfSuspended == suspended  \* mutant: continuations are not considered
KeepsStack == suspended /\ ~continuationCallback

(* Back at the top, suspended or finished. *)
ReturnToTop(w) ==
    /\ At(w, "top")
    /\ IF KeepsStack THEN UNCHANGED <<allocated, stack>>
                     ELSE allocated' = allocated \ {stack} /\ stack' = NoStack
    /\ DoneWorking(w)
    /\ UNCHANGED <<activeCall, interruptVars, resumeContext, executing, dead, dying,
                   dtapeThread, waitVars, impVars, clientVars, toClient, suspended,
                   deferralState, continuationCallback, mode>>

Unlock(w) ==
    /\ At(w, "unlocking")
    /\ queueLock' = Nobody
    /\ pc' = [pc EXCEPT ![w] = "idle"]
    /\ UNCHANGED <<callVars, interruptVars, stackVars, lifeVars, waiting, waits, unheard,
                   impVars, clientVars, toClient, running, suspended, deferralState,
                   continuationCallback, scheduled, mode, error>>

----------------------------------------------------------------------------
(* The code of a call.  It may wait and in the end replies.  A duct-taped lock
   suspends with the lock of its queue held until the worker is back at the
   top; thread_block first puts the thread on a wait queue, and suspends with
   no lock held. *)

MayWait == /\ waits < MaxWaits
           /\ waiting = "no"
           /\ \/ mode = "call" /\ activeCall.kind = "call"
              \/ mode = "interrupted"

SuspendLocked(w) ==
    /\ At(w, "run")
    /\ MayWait
    /\ "locked" \in WaitKinds
    /\ waits' = waits + 1
    /\ waiting' = "locked"
    /\ unheard' = FALSE
    /\ queueLock' = w
    /\ suspended' = TRUE
    /\ resumeContext' = executing
    /\ pc' = [pc EXCEPT ![w] = "top"]
    /\ UNCHANGED <<callVars, interruptVars, stack, allocated, executing, lifeVars,
                   impVars, clientVars, toClient, running, deferralState,
                   continuationCallback, scheduled, mode, error>>

AssertWait(w) ==
    /\ At(w, "run")
    /\ MayWait
    /\ mode = "call"        \* a wait that was interrupted is not repeated
    /\ "unlocked" \in WaitKinds
    /\ waits' = waits + 1
    /\ waiting' = "unlocked"
    /\ unheard' = FALSE
    /\ pc' = [pc EXCEPT ![w] = "blocking"]
    /\ UNCHANGED <<callVars, interruptVars, stackVars, lifeVars, queueLock, impVars,
                   clientVars, toClient, running, suspended, deferralState,
                   continuationCallback, scheduled, mode, error>>

(* thread_block finds TH_WAIT set, and only then suspends.  A wakeup in between does
   not clear TH_WAIT. *)
LookAtWait(w) ==
    /\ At(w, "blocking")
    /\ pc' = [pc EXCEPT ![w] = "suspending"]
    /\ UNCHANGED <<callVars, interruptVars, stackVars, lifeVars, waitVars, impVars,
                   clientVars, toClient, running, suspended, deferralState,
                   continuationCallback, scheduled, mode, error>>

ThreadBlock(w) ==
    /\ At(w, "suspending")
    /\ suspended' = TRUE
    /\ continuationCallback' \in BOOLEAN
    /\ resumeContext' = executing
    /\ pc' = [pc EXCEPT ![w] = "top"]
    /\ UNCHANGED <<callVars, interruptVars, stack, allocated, executing, lifeVars,
                   waitVars, impVars, clientVars, toClient, running, deferralState,
                   scheduled, mode, error>>

SavedReplyLost == <<>>  \* mutant: the saved reply is not sent
SavedReplyOut == IF Top.savedReply = Nothing THEN <<>> ELSE <<Top.savedReply>>

ReplyOut == IF dead THEN <<>> ELSE <<activeCall>>

(* pushCallReply outside of an interrupted call. *)
Reply(w) ==
    /\ At(w, "run")
    /\ mode = "call"
    /\ activeCall' = Nothing
    /\ toClient' = toClient \o ReplyOut
    /\ mode' = IF activeCall.kind = "exit" THEN "popping" ELSE "done"
    /\ UNCHANGED <<pendingCall, pendingInterrupts, interruptVars, stackVars, lifeVars,
                   waitVars, impVars, clientVars, running, suspended, deferralState,
                   continuationCallback, scheduled, pc, error>>

(* The rest of InterruptExit: pop the context, deliver the reply it holds. *)
PopInterrupt(w) ==
    /\ At(w, "run")
    /\ mode = "popping"
    /\ mode' = "done"
    /\ IF interrupts = <<>>
       THEN error' = "pop of no interrupt" /\ UNCHANGED <<interrupts, toClient>>
       ELSE /\ interrupts' = SubSeq(interrupts, 1, Len(interrupts) - 1)
            /\ toClient' = toClient \o SavedReplyOut
            /\ UNCHANGED error
    /\ UNCHANGED <<callVars, interruptedContinuation, interruptedForSignal,
                   handlingInterruptedCall, pendingSavedReply, returnContext,
                   stackVars, lifeVars, waitVars, impVars, clientVars, running,
                   suspended, deferralState, continuationCallback, scheduled, pc>>

FinishCall(w) ==
    /\ At(w, "run")
    /\ mode = "done"
    /\ pc' = [pc EXCEPT ![w] = "top"]
    /\ UNCHANGED <<callVars, interruptVars, stackVars, lifeVars, waitVars, impVars,
                   clientVars, toClient, running, suspended, deferralState,
                   continuationCallback, scheduled, mode, error>>

(* _handleInterruptEnterForCurrentThread, up to the interrupted call. *)
EnterInterrupt(w) ==
    /\ At(w, "run")
    /\ mode = "enter"
    /\ pendingSavedReply' = Nothing
    /\ IF pendingSavedReply = Nothing
       THEN UNCHANGED <<interrupts, error>>
       ELSE IF Top.savedReply # Nothing
       THEN error' = "pending saved reply overwrites" /\ UNCHANGED interrupts
       ELSE SaveInTop(pendingSavedReply) /\ UNCHANGED error
    /\ interruptedForSignal' = TRUE
    /\ interruptedContinuation' = FALSE
    /\ waiting' = ClearWait
    /\ returnContext' = executing
    /\ IF interruptedContinuation
       THEN mode' = "interrupted" /\ UNCHANGED <<handlingInterruptedCall, executing>>
       ELSE IF Top.interruptedCall # Nothing
       THEN /\ mode' = "interrupted"
            /\ handlingInterruptedCall' = TRUE
            /\ executing' = resumeContext
       ELSE mode' = "entered" /\ UNCHANGED <<handlingInterruptedCall, executing>>
    /\ UNCHANGED <<callVars, stack, resumeContext, allocated, lifeVars, queueLock,
                   waits, unheard, impVars, clientVars, toClient, running, suspended,
                   deferralState, continuationCallback, scheduled, pc>>

(* The interrupted call replies, which saves the reply, and control returns to
   the InterruptEnter that is waiting for it. *)
ReplyInterrupted(w) ==
    /\ At(w, "run")
    /\ mode = "interrupted"
    /\ mode' = "entered"
    /\ handlingInterruptedCall' = FALSE
    /\ executing' = returnContext
    /\ IF Top.savedReply # Nothing
       THEN error' = "reply overwrites saved reply" /\ UNCHANGED interrupts
       ELSE /\ interrupts' = [interrupts EXCEPT
                 ![Len(interrupts)].savedReply = Top.interruptedCall,
                 ![Len(interrupts)].interruptedCall = Nothing]
            /\ UNCHANGED error
    /\ UNCHANGED <<callVars, interruptedContinuation, interruptedForSignal,
                   pendingSavedReply, returnContext, stack, resumeContext, allocated,
                   lifeVars, waitVars, impVars, clientVars, toClient, running,
                   suspended, deferralState, continuationCallback, scheduled, pc>>

(* The rest of _handleInterruptEnterForCurrentThread; the reply to the
   InterruptEnter itself follows as for any call. *)
FinishEnter(w) ==
    /\ At(w, "run")
    /\ mode = "entered"
    /\ mode' = "call"
    /\ allocated' = allocated \ {Top.savedStack}
    /\ interruptedForSignal' = FALSE
    /\ interrupts' = [interrupts EXCEPT ![Len(interrupts)].savedStack = NoStack,
                                        ![Len(interrupts)].interruptedCall = Nothing]
    /\ UNCHANGED <<callVars, interruptedContinuation, handlingInterruptedCall,
                   pendingSavedReply, returnContext, stack, resumeContext, executing,
                   lifeVars, waitVars, impVars, clientVars, toClient, running,
                   suspended, deferralState, continuationCallback, scheduled, pc, error>>

----------------------------------------------------------------------------
(* Whoever the thread waits for wakes it: off the wait queue, then resume.  It
   needs the lock of the queue. *)
Wake ==
    /\ Ok
    /\ waiting # "no"
    /\ queueLock = Nobody
    /\ waiting' = "no"
    /\ Resume
    /\ UNCHANGED <<callVars, interruptVars, stackVars, lifeVars, queueLock, waits,
                   impVars, clientVars, toClient, running, suspended, deferralState,
                   continuationCallback, pc, mode, error>>

(* Kernel microthread i impersonates the thread: defer it, wait until it does
   not run, and claim it. *)
Impersonate(i) ==
    /\ Ok
    /\ impersonator[i] = "idle"
    /\ impersonations < MaxImpersonations
    /\ impersonations' = impersonations + 1
    /\ deferralState' = IF deferralState = "NotDeferred" THEN "DeferredNotPending"
                                                         ELSE deferralState
    /\ impersonator' = [impersonator EXCEPT ![i] = IF running THEN "waiting" ELSE "acting"]
    /\ running' = TRUE
    /\ UNCHANGED <<callVars, interruptVars, stackVars, lifeVars, waitVars, clientVars,
                   toClient, suspended, continuationCallback, scheduled, pc, mode, error>>

ImpersonateWhenStopped(i) ==
    /\ Ok
    /\ impersonator[i] = "waiting"
    /\ ~running
    /\ running' = TRUE
    /\ impersonator' = [impersonator EXCEPT ![i] = "acting"]
    /\ UNCHANGED <<callVars, interruptVars, stackVars, lifeVars, waitVars,
                   impersonations, clientVars, toClient, suspended, deferralState,
                   continuationCallback, scheduled, pc, mode, error>>

StopImpersonating(i) ==
    /\ Ok
    /\ impersonator[i] = "acting"
    /\ impersonator' = [impersonator EXCEPT ![i] = "idle"]
    /\ running' = FALSE
    /\ deferralState' = "NotDeferred"
    /\ scheduled' = IF deferralState = "DeferredPending" THEN scheduled + 1 ELSE scheduled
    /\ UNCHANGED <<callVars, interruptVars, stackVars, lifeVars, waitVars,
                   impersonations, clientVars, toClient, suspended,
                   continuationCallback, pc, mode, error>>

----------------------------------------------------------------------------
ClientStep == ClientReceive \/ ClientPushReply \/ ClientPushed

DeathStep == NotifyDead \/ ThreadDying \/ ResumeDead

ImpersonatorStep(i) == ImpersonateWhenStopped(i) \/ StopImpersonating(i)

(* doWork, but for the microthread's own code *)
SchedulerStep(w) == PickUp(w) \/ Begin(w) \/ StartCall(w) \/ ReturnToTop(w) \/ Unlock(w)

CodeStep(w) == \/ LookAtWait(w) \/ ThreadBlock(w)
               \/ Reply(w) \/ PopInterrupt(w) \/ FinishCall(w)
               \/ EnterInterrupt(w) \/ ReplyInterrupted(w) \/ FinishEnter(w)

Next == \/ ClientCall \/ ClientSignal \/ ClientExit \/ ClientStep \/ ClientKilled
        \/ ReceiveCall \/ ReceivePush \/ DeathStep \/ Release \/ Wake
        \/ \E i \in Impersonator : Impersonate(i) \/ ImpersonatorStep(i)
        \/ \E w \in Worker :
              SchedulerStep(w) \/ CodeStep(w) \/ SuspendLocked(w) \/ AssertWait(w)

Spec == Init /\ [][Next]_vars

(* The client reads what arrives and its signal handlers return, the main loop
   and the workers go on as long as they have something to do, an impersonation
   ends, and what a call waits for happens.  Nobody may answer a dead client, but a
   lock is released all the same. *)
FairSpec == /\ Spec
            /\ WF_vars(ClientStep \/ ClientExit)
            /\ WF_vars(ReceiveCall \/ ReceivePush \/ DeathStep)
            /\ WF_vars(Release)
            /\ WF_vars((~dead \/ waiting = "locked") /\ Wake)
            /\ \A i \in Impersonator : WF_vars(ImpersonatorStep(i))
            /\ \A w \in Worker : WF_vars(SchedulerStep(w) \/ CodeStep(w))

----------------------------------------------------------------------------
(* Every variable has its type; what callFromMessage saves is a reply of the
   thread's own calls. *)
TypeOK ==
    /\ pendingCall \in CallOrNone /\ activeCall \in CallOrNone
    /\ pendingInterrupts \in Seq(Call) /\ interrupts \in Seq(Context)
    /\ running \in BOOLEAN /\ suspended \in BOOLEAN
    /\ deferralState \in {"NotDeferred", "DeferredNotPending", "DeferredPending"}
    /\ continuationCallback \in BOOLEAN /\ interruptedContinuation \in BOOLEAN
    /\ interruptedForSignal \in BOOLEAN /\ handlingInterruptedCall \in BOOLEAN
    /\ pendingSavedReply \in CallOrNone
    /\ dead \in BOOLEAN /\ terminating \in BOOLEAN /\ dtapeThread \in BOOLEAN
    /\ dying \in {"no", "release", "resume", "cleared"} /\ unheard \in BOOLEAN
    /\ {stack, resumeContext, returnContext, executing} \subseteq MaybeStack
    /\ allocated \subseteq StackId /\ scheduled \in Nat /\ releases \in Nat
    /\ pc \in [Worker -> InPlay \cup {"idle", "unlocking"}]
    /\ mode \in {"call", "popping", "done", "enter", "interrupted", "entered"}
    /\ waiting \in {"no", "locked", "unlocked"} /\ queueLock \in Worker \cup {Nobody}
    /\ waits \in Nat /\ impersonations \in Nat
    /\ impersonator \in [Impersonator -> {"idle", "waiting", "acting"}]

(* At most one worker or impersonator has the thread at any time, and _running
   says whether one does: two workers never run on one microthread's stack
   (doWork, impersonate). *)
Holders == {w \in Worker : pc[w] \in InPlay}
           \cup {i \in Impersonator : impersonator[i] = "acting"}
OneHolder == /\ \A a, b \in Holders : a = b
             /\ running <=> Holders # {}

(* The stacks out of the pool are the thread's own and those its interrupts
   saved, each in one place: none leaks and none is freed twice.  The code runs,
   and will be resumed, only on one of them (stackPool.free in doWork and in
   _handleInterruptEnterForCurrentThread). *)
SavedStacks == {i \in 1 .. Len(interrupts) : interrupts[i].savedStack # NoStack}
StacksAccountedFor ==
    /\ allocated = ({stack} \ {NoStack}) \cup {interrupts[i].savedStack : i \in SavedStacks}
    /\ \A i \in SavedStacks : /\ interrupts[i].savedStack # stack
                              /\ \A j \in SavedStacks \ {i} :
                                    interrupts[i].savedStack # interrupts[j].savedStack
    /\ (\E w \in Worker : pc[w] \in InPlay \ {"begin", "top"}) => executing \in allocated
    /\ suspended /\ ~continuationCallback => resumeContext \in allocated

(* Every call the client waits for is in exactly one place (a socket, a queue,
   a member of the thread, a saved reply), whatever signals and pushed replies
   do to it: no reply is lost or sent twice, and none reaches a wrapper that waits
   for another one, which would make it give up. *)
Outstanding ==
    ({Awaited} \cup {[kind |-> "call", level |-> l] : l \in {k \in Level :
                                        k < level /\ frames[k] = "calling"}}
     \cup (IF client = "pushing" THEN {[kind |-> "enter", level |-> level]} ELSE {}))
    \ {Nothing}
CarriedBy(m) == IF m.kind = "push" THEN m.reply ELSE m
Occurrences(c) ==
    LET In(s) == Cardinality({i \in 1 .. Len(s) : CarriedBy(s[i]) = c})
        One(x) == IF x = c THEN 1 ELSE 0
    IN In(toServer) + In(toClient) + In(pendingInterrupts)
       + One(pendingCall) + One(activeCall) + One(pendingSavedReply)
       + In([i \in 1 .. Len(interrupts) |-> interrupts[i].interruptedCall])
       + In([i \in 1 .. Len(interrupts) |-> interrupts[i].savedReply])
RepliesAccountedFor ==
    /\ client # "failed"
    /\ \/ client = "killed" \/ dead \/ error # "none"
       \/ \A c \in Call : Occurrences(c) = IF c \in Outstanding THEN 1 ELSE 0

(* A dead thread without an active call is marked, so that it never runs again
   (notifyDead, doWork). *)
DeadIsFinal == dead /\ activeCall = Nothing /\ ~running => terminating

(* These throws and assertions of the code are never reached: the pending call
   and the saved replies are not overwritten, a resumed thread has the stack it
   needs, an interrupt that is left was entered, and the duct-taped thread is
   released once. *)
GuardedStatesUnreachable ==
    error \notin {"pending call overwritten", "pending call and pending continuation",
                  "resumed without a stack", "continuation with a stack",
                  "pending saved reply overwrites", "reply overwrites saved reply",
                  "pop of no interrupt", "released twice"}

(* A resume() that came between the announcement of a wait and its suspension was
   dropped, and nobody will come again (thread.c:520-531, thread.cpp:644). *)
Overslept == suspended /\ unheard

(* Every call, interrupt_enter and interrupt_exit returns to the client's code,
   unless the client is killed, under the fairness of FairSpec; a call that waits
   without a lock can miss its wakeup, and in no other way. *)
ClientReturns == []<>(client \in {"user", "killed"} \/ error # "none" \/ Overslept)

(* A thread that dies is released (notifyDead, _scheduleRelease), but for one that
   is asleep for good: notifyDead found it about to suspend, or it went on to wait,
   after notifyDead, for what nobody sends a dead client. *)
DeadIsReleased ==
    dead ~> (\/ ~dtapeThread \/ error # "none"
             \/ [](Overslept \/ (suspended /\ waiting = "unlocked" /\ dying = "no")))

(* A reply that the client pushes back during interrupt_enter is kept for it. *)
PushedReplyIsKept == error \notin {"push outside of interrupt",
                                   "push overwrites saved reply"}

(* A reply that the server holds is sent again once the handler's interrupt_exit has been
   called, so that the client, which then waits for it, gets it (generate-rpc-wrappers.py:
   100-101).  With a handler inside a handler the code does not keep this: a reply pushed
   back while its interrupt_enter is in _pendingInterrupts is saved in the context of the
   outer handler (call.cpp:184), which is not left before the call returns. *)
HeldAt(l) == /\ client = "calling" /\ level = l
             /\ \E i \in 1 .. Len(interrupts) :
                   interrupts[i].savedReply = [kind |-> "call", level |-> l]
HeldReplyIsResent ==
    \A l \in Level : HeldAt(l) ~> (~HeldAt(l) \/ client = "killed" \/ error # "none")

(* An interrupt saved while a call was pending is processed once that call has
   finished or suspended (the comment at thread.cpp:271-273).  The code does not
   keep this: doneWorking throws at thread.cpp:568. *)
SavedInterruptIsProcessed == error # "interrupt to schedule but call pending"

(* A thread that is released never runs again (the comment at thread.cpp:1463-1464).
   The code does not keep this: notifyDead tests only _activeCall. *)
ReleasedNeverRuns == ~dtapeThread => ~running
=============================================================================
