------------------------------ MODULE MainLoop ------------------------------
(***************************************************************************)
(* The server's main loop (server.cpp): one thread that receives the calls *)
(* of all clients from one datagram socket, sends the outbox that every    *)
(* thread pushes replies to, and calls back the monitors of other          *)
(* descriptors.  It sleeps in epoll_wait on                                *)
(*   - the socket, edge-triggered, with what it last heard of it in        *)
(*     _canRead and _canWrite;                                             *)
(*   - an eventfd that a push writes to, one-shot and armed only while the *)
(*     socket can be written to;                                           *)
(*   - the monitors, whose addresses epoll gives back and which are looked *)
(*     up by address, so one that is removed is kept until the end of the  *)
(*     iteration.                                                          *)
(***************************************************************************)
EXTENDS Naturals, Sequences, FiniteSets

CONSTANTS Client,
          QueueLimit,   \* datagrams a client's socket holds before a send is refused
          Address,      \* where monitors may be allocated
          EventsAtOnce, \* the length of the array given to epoll_wait, 16 in the code
          MaxCalls, MaxReplies, MaxMonitors

ASSUME LimitAssumption == QueueLimit \in Nat \ {0} /\ EventsAtOnce \in Nat \ {0}
ASSUME BoundAssumption == {MaxCalls, MaxReplies, MaxMonitors} \subseteq Nat

VARIABLES pc,
          canRead, canWrite,
          rx,         \* calls in the socket that were not received
          edge,       \* epoll has something to report about the socket
          outbox,     \* the addressees of the messages to send
          notifying,  \* threads about to write to the eventfd
          eventfd,    \* the eventfd is not zero
          armed,      \* epoll watches the eventfd
          inflight,   \* datagrams in each client's socket
          gone,       \* the clients whose socket is closed
          monitors,   \* _monitors, each at an address
          waitingToDie,
          generation, \* how many monitors were allocated at each address
          ready,      \* the monitors epoll has something to report about
          batch,      \* the events epoll_wait returned, those not handled
          calling,    \* the event whose monitor is being called
          calls, replies  \* how many there were of each (bounds)

ioVars == <<canRead, canWrite, rx, edge, outbox, inflight, gone>>
wakeupVars == <<notifying, eventfd, armed>>
monitorVars == <<monitors, waitingToDie, generation, ready>>
vars == <<pc, ioVars, wakeupVars, monitorVars, batch, calling, calls, replies>>

NoEvent == [kind |-> "none"]
WakeupEvent == [kind |-> "wakeup"]
SocketEvent(in) == [kind |-> "socket", in |-> in]
MonitorEvent(a, g) == [kind |-> "monitor", address |-> a, generation |-> g]

Init ==
    /\ pc = "receive"
    /\ canRead = FALSE /\ canWrite = TRUE
    /\ rx = 0 /\ edge = TRUE
    /\ outbox = <<>> /\ inflight = [c \in Client |-> 0] /\ gone = {}
    /\ notifying = 0 /\ eventfd = FALSE /\ armed = TRUE
    /\ monitors = {} /\ waitingToDie = {} /\ ready = {}
    /\ generation = [a \in Address |-> 0]
    /\ batch = {} /\ calling = NoEvent
    /\ calls = 0 /\ replies = 0

-----------------------------------------------------------------------------
(* receiveMany reads until there is nothing left; what it read is handed to *)
(* the work queue.                                                          *)
ReceiveSome ==  \* mutant: one recvmmsg, taken for all there was
    /\ pc = "receive"
    /\ rx' = IF canRead /\ rx > 0 THEN rx - 1 ELSE rx
    /\ canRead' = FALSE
    /\ pc' = "reset"
    /\ UNCHANGED <<canWrite, edge, outbox, inflight, gone, wakeupVars, monitorVars, batch,
                   calling, calls, replies>>

Receive ==
    /\ pc = "receive"
    /\ rx' = IF canRead THEN 0 ELSE rx
    /\ canRead' = FALSE
    /\ pc' = "reset"
    /\ UNCHANGED <<canWrite, edge, outbox, inflight, gone, wakeupVars, monitorVars, batch,
                   calling, calls, replies>>

ResetWakeup ==
    /\ pc = "reset"
    /\ eventfd' = FALSE
    /\ pc' = IF canWrite THEN "send" ELSE "rearm"
    /\ UNCHANGED <<ioVars, notifying, armed, monitorVars, batch, calling, calls, replies>>

(* sendMany, with the lock of the outbox held throughout: the first message *)
(* is sent, or dropped because its addressee has died, or there is no room  *)
(* for it, or there is none.                                                *)
Blocked(c) == c \notin gone /\ inflight[c] >= QueueLimit

SendOne ==
    /\ pc = "send" /\ outbox # <<>>
    /\ ~ Blocked(Head(outbox))
    /\ outbox' = Tail(outbox)
    /\ inflight' = IF Head(outbox) \in gone THEN inflight
                   ELSE [inflight EXCEPT ![Head(outbox)] = @ + 1]
    /\ UNCHANGED <<pc, canRead, canWrite, rx, edge, gone, wakeupVars, monitorVars, batch,
                   calling, calls, replies>>

SendStops ==
    /\ pc = "send"
    /\ outbox # <<>> => Blocked(Head(outbox))
    /\ canWrite' = (outbox = <<>>)
    /\ pc' = "rearm"
    /\ UNCHANGED <<canRead, rx, edge, outbox, inflight, gone, wakeupVars, monitorVars, batch,
                   calling, calls, replies>>

RearmAndReset ==  \* mutant: the eventfd is reset after sending
    /\ pc = "rearm"
    /\ armed' = canWrite
    /\ eventfd' = FALSE
    /\ pc' = "wait"
    /\ UNCHANGED <<ioVars, notifying, monitorVars, batch, calling, calls, replies>>

Rearm ==
    /\ pc = "rearm"
    /\ armed' = canWrite
    /\ pc' = "wait"
    /\ UNCHANGED <<ioVars, notifying, eventfd, monitorVars, batch, calling, calls, replies>>

(* epoll_wait.  It reports the socket's state at the time it returns.       *)
ReadyEvents ==
    (IF edge THEN {SocketEvent(rx > 0)} ELSE {})
      \cup (IF armed /\ eventfd THEN {WakeupEvent} ELSE {})
      \cup {MonitorEvent(a, generation[a]) : a \in monitors \cap ready}

Wait ==
    /\ pc = "wait" /\ ReadyEvents # {}
    /\ \E events \in SUBSET ReadyEvents :
          /\ events # {} /\ Cardinality(events) <= EventsAtOnce
          /\ Cardinality(events) < EventsAtOnce => events = ReadyEvents
          /\ batch' = events
    /\ edge' = (edge /\ \A e \in batch' : e.kind # "socket")
    /\ armed' = (armed /\ WakeupEvent \notin batch')
    /\ ready' = {a \in ready : MonitorEvent(a, generation[a]) \notin batch'}
    /\ pc' = "handle"
    /\ UNCHANGED <<canRead, canWrite, rx, outbox, inflight, gone, notifying, eventfd, monitors,
                   waitingToDie, generation, calling, calls, replies>>

(* Nothing happened for five seconds. *)
WaitTimesOut ==
    /\ pc = "wait" /\ ReadyEvents = {}
    /\ pc' = "clear"
    /\ UNCHANGED <<ioVars, wakeupVars, monitorVars, batch, calling, calls, replies>>

HandleSocketDeaf ==  \* mutant: EPOLLOUT is not looked at
    \E e \in batch :
        /\ pc = "handle" /\ e.kind = "socket"
        /\ canRead' = (canRead \/ e.in)
        /\ batch' = batch \ {e}
        /\ UNCHANGED <<pc, canWrite, rx, edge, outbox, inflight, gone, wakeupVars, monitorVars,
                       calling, calls, replies>>

HandleSocket ==
    \E e \in batch :
        /\ pc = "handle" /\ e.kind = "socket"
        /\ canRead' = (canRead \/ e.in)
        /\ canWrite' = TRUE
        /\ batch' = batch \ {e}
        /\ UNCHANGED <<pc, rx, edge, outbox, inflight, gone, wakeupVars, monitorVars,
                       calling, calls, replies>>

HandleWakeup ==
    /\ pc = "handle" /\ WakeupEvent \in batch
    /\ batch' = batch \ {WakeupEvent}
    /\ UNCHANGED <<pc, ioVars, wakeupVars, monitorVars, calling, calls, replies>>

(* The monitor's address is looked for in _monitors, under the lock.  The   *)
(* callback, without it, follows.                                           *)
HandleMonitor ==
    \E e \in batch :
        /\ pc = "handle" /\ e.kind = "monitor"
        /\ IF e.address \in monitors
           THEN pc' = "callback" /\ calling' = e
           ELSE UNCHANGED <<pc, calling>>
        /\ batch' = batch \ {e}
        /\ UNCHANGED <<ioVars, wakeupVars, monitorVars, calls, replies>>

CallbackReturns ==
    /\ pc = "callback"
    /\ pc' = "handle" /\ calling' = NoEvent
    /\ UNCHANGED <<ioVars, wakeupVars, monitorVars, batch, calls, replies>>

Handled ==
    /\ pc = "handle" /\ batch = {}
    /\ pc' = "clear"
    /\ UNCHANGED <<ioVars, wakeupVars, monitorVars, batch, calling, calls, replies>>

Clear ==
    /\ pc = "clear"
    /\ waitingToDie' = {}
    /\ pc' = "receive"
    /\ UNCHANGED <<ioVars, wakeupVars, monitors, generation, ready, batch, calling, calls,
                   replies>>

-----------------------------------------------------------------------------
(* What other threads do with the server. *)

(* A message is pushed; the arrival callback is called after the unlock.    *)
Push(c) ==
    /\ replies < MaxReplies
    /\ pc # "send"  \* sendMany holds the lock
    /\ outbox' = Append(outbox, c)
    /\ notifying' = notifying + 1
    /\ replies' = replies + 1
    /\ UNCHANGED <<pc, canRead, canWrite, rx, edge, inflight, gone, eventfd, armed, monitorVars,
                   batch, calling, calls>>

Wakeup ==
    /\ notifying > 0
    /\ notifying' = notifying - 1
    /\ eventfd' = TRUE
    /\ UNCHANGED <<pc, ioVars, armed, monitorVars, batch, calling, calls, replies>>

(* A new monitor may be anywhere where there is none: not where one is      *)
(* listed, is waiting to die or is being called back.                       *)
AddMonitor(a) ==
    /\ a \notin monitors \cup waitingToDie
    /\ calling # NoEvent => calling.address # a
    /\ generation[a] < MaxMonitors  \* bound
    /\ generation' = [generation EXCEPT ![a] = @ + 1]
    /\ monitors' = monitors \cup {a}
    /\ UNCHANGED <<pc, ioVars, wakeupVars, waitingToDie, ready, batch, calling, calls, replies>>

(* removeMonitor, from the monitor's own callback or from another thread;   *)
(* the write to the eventfd comes after the unlock.                         *)
RemoveMonitorAtOnce(a) ==  \* mutant: the monitor is freed straight away
    /\ a \in monitors
    /\ monitors' = monitors \ {a}
    /\ ready' = ready \ {a}
    /\ notifying' = notifying + 1
    /\ UNCHANGED <<pc, ioVars, eventfd, armed, waitingToDie, generation, batch, calling, calls,
                   replies>>

RemoveMonitor(a) ==
    /\ a \in monitors
    /\ waitingToDie' = waitingToDie \cup {a}
    /\ monitors' = monitors \ {a}
    /\ ready' = ready \ {a}
    /\ notifying' = notifying + 1
    /\ UNCHANGED <<pc, ioVars, eventfd, armed, generation, batch, calling, calls, replies>>

(* The host and the clients. *)
CallArrives ==
    /\ calls < MaxCalls
    /\ calls' = calls + 1
    /\ rx' = rx + 1 /\ edge' = TRUE
    /\ UNCHANGED <<pc, canRead, canWrite, outbox, inflight, gone, wakeupVars, monitorVars, batch,
                   calling, replies>>

(* A datagram that is received gives its room back, which is an edge.       *)
ClientReceives(c) ==
    /\ inflight[c] > 0
    /\ inflight' = [inflight EXCEPT ![c] = @ - 1]
    /\ edge' = TRUE
    /\ UNCHANGED <<pc, canRead, canWrite, rx, outbox, gone, wakeupVars, monitorVars, batch,
                   calling, calls, replies>>

ClientCloses(c) ==
    /\ c \notin gone
    /\ gone' = gone \cup {c}
    /\ inflight' = [inflight EXCEPT ![c] = 0]
    /\ edge' = (edge \/ inflight[c] > 0)
    /\ UNCHANGED <<pc, canRead, canWrite, rx, outbox, wakeupVars, monitorVars, batch,
                   calling, calls, replies>>

MonitorReady(a) ==
    /\ a \in monitors \ ready
    /\ ready' = ready \cup {a}
    /\ UNCHANGED <<pc, ioVars, wakeupVars, monitors, waitingToDie, generation, batch, calling,
                   calls, replies>>

Loop ==
    \/ Receive \/ ResetWakeup \/ SendOne \/ SendStops \/ Rearm \/ Wait
    \/ HandleSocket \/ HandleWakeup \/ HandleMonitor \/ CallbackReturns \/ Handled \/ Clear

Next ==
    \/ Loop \/ WaitTimesOut \/ Wakeup \/ CallArrives
    \/ \E c \in Client : Push(c) \/ ClientReceives(c) \/ ClientCloses(c)
    \/ \E a \in Address : AddMonitor(a) \/ RemoveMonitor(a) \/ MonitorReady(a)

Spec == Init /\ [][Next]_vars

(* The loop runs, callbacks return, a thread that has pushed gets to its    *)
(* write, and clients receive what is sent to them.  The five seconds may   *)
(* never be up: nothing relies on the timeout.                              *)
Fairness ==
    /\ WF_vars(Loop) /\ WF_vars(Wakeup)
    /\ \A c \in Client : WF_vars(ClientReceives(c))
FairSpec == Spec /\ Fairness

-----------------------------------------------------------------------------
MonitorEvents == [kind : {"monitor"}, address : Address, generation : Nat]
Event == {WakeupEvent} \cup [kind : {"socket"}, in : BOOLEAN] \cup MonitorEvents

(* The types of the loop's state, and that a monitor is never both listed   *)
(* and waiting to die (server.cpp:759).                                     *)
TypeOK ==
    /\ pc \in {"receive", "reset", "send", "rearm", "wait", "handle", "callback", "clear"}
    /\ canRead \in BOOLEAN /\ canWrite \in BOOLEAN
    /\ edge \in BOOLEAN /\ eventfd \in BOOLEAN /\ armed \in BOOLEAN
    /\ rx \in Nat /\ notifying \in Nat /\ calls \in Nat /\ replies \in Nat
    /\ outbox \in Seq(Client) /\ inflight \in [Client -> Nat] /\ gone \subseteq Client
    /\ monitors \subseteq Address /\ waitingToDie \subseteq Address /\ ready \subseteq monitors
    /\ monitors \cap waitingToDie = {}
    /\ generation \in [Address -> Nat]
    /\ batch \subseteq Event /\ calling \in MonitorEvents \cup {NoEvent}

(* The loop sleeps only when it has nothing to do: with no event to report, *)
(* no call waits in the socket, and if messages wait in the outbox, a       *)
(* thread is about to wake the loop or there is no room for the first of    *)
(* them (server.cpp:553-585: edges, the eventfd's reset before the send and *)
(* its one-shot arming after it).                                           *)
SleepsOnlyWhenIdle ==
    pc = "wait" /\ ReadyEvents = {} =>
        /\ rx = 0
        /\ outbox # <<>> => notifying > 0 \/ Blocked(Head(outbox))

(* An event reaches the monitor it was for, or none: not one that was made  *)
(* at the same address after the event (server.cpp:661-674).                *)
RightMonitor == calling # NoEvent => generation[calling.address] = calling.generation

(* What is pushed to the outbox is sent, or dropped because its addressee   *)
(* has gone, however pushes fall into the loop's turn (message.cpp:475-561).*)
EveryMessageIsSent == outbox # <<>> ~> outbox = <<>>

(* A call that arrives is received (message.cpp:563, EPOLLET).              *)
EveryCallIsDispatched == rx > 0 ~> rx = 0
=============================================================================
