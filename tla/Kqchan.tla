------------------------------- MODULE Kqchan -------------------------------
(***************************************************************************)
(* A kqueue channel of osxieserver (kqchan.cpp): a socket pair over which  *)
(* the server tells a client that a Mach port or a process has events, and *)
(* the client asks for them one at a time.                                 *)
(*                                                                         *)
(* The main loop handles the client's requests; reads are answered, and    *)
(* the queue is looked at again after each answer, by kernel microthreads; *)
(* events come from any thread.  One action is one critical section.       *)
(***************************************************************************)
EXTENDS Naturals, Sequences, FiniteSets

CONSTANTS MaxEvents,    \* bound on the events that occur
          MaxModifies,  \* bound on the modify requests of the client
          Closable      \* whether the client may close its socket

ASSUME BoundsAssumption == MaxEvents \in Nat /\ MaxModifies \in Nat
ASSUME ClosableAssumption == Closable \in BOOLEAN

VARIABLES
  ofProcess,             \* a Kqchan::Process, or else a Kqchan::MachPort
  \* members of Kqchan
  canSendNotification, deferNotification,
  deferredNotification,  \* whether there is one
  outbox,
  events,                \* what is queued behind the channel, oldest first
  \* threads at work on it
  posting,    \* an event's thread: between the check of the callback and its call
  handing,    \* notifications decided on and not yet pushed onto the outbox
  reads,      \* reads whose microthread has not looked for an event yet
  filled,     \* replies filled and not yet pushed onto the outbox
  finishing,  \* microthreads that pushed their reply: _sendDeferredNotification is next
  modifies,   \* modify requests whose reply is not yet pushed
  checks,     \* runs of _checkForEventsAsync to come
  \* from construction to destruction
  setup, registered, destroyed, usedAfterDeath,
  borrowed,   \* the thread that pushes a notification has no reference to the channel
  \* the client and the socket
  client, owed, toServer, toClient, closed,
  \* history
  occurred, delivered, modified

notificationVars == <<canSendNotification, deferNotification, deferredNotification, handing>>
taskVars == <<reads, filled, finishing, modifies, checks>>
lifeVars == <<setup, registered, destroyed, usedAfterDeath, borrowed>>
clientVars == <<client, owed, toServer, closed, delivered, modified>>
vars == <<ofProcess, notificationVars, outbox, events, posting, taskVars, lifeVars, clientVars,
          toClient, occurred>>

Notification == [kind |-> "notification", event |-> 0]
ModifyReply == [kind |-> "modify", event |-> 0]
ReadReply(e) == [kind |-> "read", event |-> e]   \* event 0: nothing to read, 0xdead
Reply == [kind : {"read"}, event : Nat]
Message == [kind : {"notification", "modify", "read"}, event : Nat]

Init ==
    /\ ofProcess \in BOOLEAN
    /\ canSendNotification = TRUE /\ deferNotification = FALSE
    /\ deferredNotification = FALSE /\ outbox = <<>> /\ events = <<>>
    /\ posting = FALSE /\ handing = 0 /\ reads = 0 /\ filled = <<>> /\ finishing = 0
    /\ modifies = 0 /\ checks = 0
    /\ setup = "new" /\ registered = TRUE /\ destroyed = FALSE /\ usedAfterDeath = FALSE
    /\ borrowed = FALSE
    /\ client = "idle" /\ owed = FALSE /\ toServer = <<>> /\ toClient = <<>>
    /\ closed = FALSE /\ occurred = 0 /\ delivered = <<>> /\ modified = 0

----------------------------------------------------------------------------
(* _sendNotification, under _notificationMutex. *)
SendNotificationAlways ==  \* mutant: no check of _canSendNotification
    /\ canSendNotification' = FALSE
    /\ IF deferNotification
       THEN deferredNotification' = TRUE /\ UNCHANGED handing
       ELSE handing' = handing + 1 /\ UNCHANGED deferredNotification
    /\ UNCHANGED deferNotification

SendNotification ==
    /\ IF ~canSendNotification
       THEN UNCHANGED <<canSendNotification, deferredNotification, handing>>
       ELSE /\ canSendNotification' = FALSE
            /\ IF deferNotification
               THEN deferredNotification' = TRUE /\ UNCHANGED handing
               ELSE handing' = handing + 1 /\ UNCHANGED deferredNotification
    /\ UNCHANGED deferNotification

(* setup: the socket exists and the outbox is sent to it. *)
OpenSocket ==
    /\ setup = "new"
    /\ setup' = "open"
    /\ UNCHANGED <<ofProcess, notificationVars, outbox, events, posting, taskVars, registered,
                   destroyed, usedAfterDeath, borrowed, clientVars, toClient, occurred>>

(* The end of setup: events that came before the socket are announced. *)
FinishSetup ==
    /\ setup = "open" /\ ~posting
    /\ setup' = "done"
    /\ IF events = <<>> THEN UNCHANGED notificationVars ELSE SendNotification
    /\ UNCHANGED <<ofProcess, outbox, events, posting, taskVars, registered, destroyed,
                   usedAfterDeath, borrowed, clientVars, toClient, occurred>>

(* An event occurs: it is queued and, under the lock of the queue, knote_post
   finds the callback, or Process::_notify a channel that is still alive. *)
Occur ==
    /\ ~posting
    /\ occurred < MaxEvents
    /\ occurred' = occurred + 1
    /\ events' = Append(events, occurred + 1)
    /\ posting' = ~destroyed
    /\ UNCHANGED <<ofProcess, notificationVars, outbox, taskVars, lifeVars, clientVars,
                   toClient>>

(* _notify.  A process's channel holds its events back until it has a socket. *)
Notify ==
    /\ posting
    /\ posting' = FALSE
    /\ usedAfterDeath' = (usedAfterDeath \/ destroyed)
    /\ IF destroyed \/ (ofProcess /\ setup = "new")
       THEN UNCHANGED notificationVars
       ELSE SendNotification
    /\ borrowed' = IF handing' > handing THEN ~ofProcess ELSE borrowed
    /\ UNCHANGED <<ofProcess, outbox, events, taskVars, setup, registered, destroyed,
                   clientVars, toClient, occurred>>

(* The push of a notification onto the outbox, after the mutex is released. *)
PushNotification ==
    /\ handing > 0
    /\ handing' = handing - 1
    /\ borrowed' = FALSE
    /\ usedAfterDeath' = (usedAfterDeath \/ destroyed)
    /\ outbox' = IF destroyed THEN outbox ELSE Append(outbox, Notification)
    /\ UNCHANGED <<ofProcess, canSendNotification, deferNotification, deferredNotification,
                   events, posting, taskVars, setup, registered, destroyed, clientVars,
                   toClient, occurred>>

(* sendMany: a message goes out, and the callback of a reply asks for a look at the
   queue.  What the client can no longer receive is dropped with its callback. *)
SendNoCheck ==  \* mutant: replies have no callback
    /\ setup # "new" /\ outbox # <<>>
    /\ outbox' = Tail(outbox)
    /\ toClient' = IF closed THEN toClient ELSE Append(toClient, Head(outbox))
    /\ UNCHANGED <<ofProcess, notificationVars, events, posting, taskVars, lifeVars,
                   clientVars, occurred>>

Send ==
    /\ setup # "new" /\ outbox # <<>>
    /\ outbox' = Tail(outbox)
    /\ toClient' = IF closed THEN toClient ELSE Append(toClient, Head(outbox))
    /\ checks' = IF closed \/ Head(outbox).kind = "notification" THEN checks ELSE checks + 1
    /\ UNCHANGED <<ofProcess, notificationVars, events, posting, reads, filled, finishing,
                   modifies, lifeVars, clientVars, occurred>>

(* _checkForEventsAsync: a microthread looks at the queue again. *)
CheckForEvents ==
    /\ checks > 0
    /\ checks' = checks - 1
    /\ IF destroyed \/ events = <<>> THEN UNCHANGED notificationVars ELSE SendNotification
    /\ UNCHANGED <<ofProcess, outbox, events, posting, reads, filled, finishing, modifies,
                   lifeVars, clientVars, toClient, occurred>>

----------------------------------------------------------------------------
(* The main loop: a read acknowledges the notification, and holds back further
   ones until its reply is in the outbox. *)
ReceiveReadUndeferred ==  \* mutant: notifications are not held back
    /\ toServer # <<>> /\ Head(toServer) = "read" /\ registered
    /\ toServer' = Tail(toServer)
    /\ canSendNotification' = TRUE
    /\ reads' = reads + 1
    /\ UNCHANGED <<ofProcess, deferNotification, deferredNotification, handing, outbox,
                   events, posting, filled, finishing, modifies, checks, lifeVars, client,
                   owed, closed, delivered, modified, toClient, occurred>>

ReceiveRead ==
    /\ toServer # <<>> /\ Head(toServer) = "read" /\ registered
    /\ toServer' = Tail(toServer)
    /\ canSendNotification' = TRUE
    /\ deferNotification' = TRUE
    /\ reads' = reads + 1
    /\ UNCHANGED <<ofProcess, deferredNotification, handing, outbox, events, posting, filled,
                   finishing, modifies, checks, lifeVars, client, owed, closed, delivered,
                   modified, toClient, occurred>>

ReceiveModify ==
    /\ toServer # <<>> /\ Head(toServer) = "modify" /\ registered
    /\ toServer' = Tail(toServer)
    /\ modifies' = modifies + 1
    /\ UNCHANGED <<ofProcess, notificationVars, outbox, events, posting, reads, filled,
                   finishing, checks, lifeVars, client, owed, closed, delivered, modified,
                   toClient, occurred>>

(* The rest of a read: the oldest event, if there is one.  Of a process's events,
   those the client's flags leave out are dropped. *)
Fill ==
    /\ reads > 0 /\ ~posting
    /\ reads' = reads - 1
    /\ \E n \in 0 .. IF ofProcess THEN Len(events) ELSE 0 :
          IF n = Len(events)
          THEN filled' = Append(filled, ReadReply(0)) /\ events' = <<>>
          ELSE /\ filled' = Append(filled, ReadReply(events[n + 1]))
               /\ events' = SubSeq(events, n + 2, Len(events))
    /\ UNCHANGED <<ofProcess, notificationVars, outbox, posting, finishing, modifies, checks,
                   lifeVars, clientVars, toClient, occurred>>

PushReply ==
    /\ filled # <<>>
    /\ outbox' = Append(outbox, Head(filled))
    /\ filled' = Tail(filled)
    /\ finishing' = finishing + 1
    /\ UNCHANGED <<ofProcess, notificationVars, events, posting, reads, modifies, checks,
                   lifeVars, clientVars, toClient, occurred>>

(* _sendDeferredNotification, under _notificationMutex. *)
SendDeferredNotification ==
    /\ finishing > 0
    /\ finishing' = finishing - 1
    /\ deferNotification' = FALSE
    /\ deferredNotification' = FALSE
    /\ handing' = IF deferredNotification THEN handing + 1 ELSE handing
    /\ UNCHANGED <<ofProcess, canSendNotification, outbox, events, posting, reads, filled,
                   modifies, checks, lifeVars, clientVars, toClient, occurred>>

(* The reply to a modify request. *)
PushModifyReply ==
    /\ modifies > 0
    /\ modifies' = modifies - 1
    /\ outbox' = Append(outbox, ModifyReply)
    /\ UNCHANGED <<ofProcess, notificationVars, events, posting, reads, filled, finishing,
                   checks, lifeVars, clientVars, toClient, occurred>>

----------------------------------------------------------------------------
(* The monitor sees the hangup of the client's socket: the channel is unregistered. *)
HangUpStaysRegistered ==  \* mutant: the process keeps the channel
    /\ closed /\ registered
    /\ UNCHANGED registered
    /\ UNCHANGED <<ofProcess, notificationVars, outbox, events, posting, taskVars, setup,
                   destroyed, usedAfterDeath, borrowed, clientVars, toClient, occurred>>

HangUp ==
    /\ closed /\ registered
    /\ registered' = FALSE
    /\ UNCHANGED <<ofProcess, notificationVars, outbox, events, posting, taskVars, setup,
                   destroyed, usedAfterDeath, borrowed, clientVars, toClient, occurred>>

(* The last reference goes.  A notifying thread holds one on a process's channel,
   and none on a Mach port's. *)
Destroy ==
    /\ ~registered /\ ~destroyed
    /\ reads = 0 /\ filled = <<>> /\ finishing = 0 /\ modifies = 0
    /\ handing = 0 \/ borrowed
    /\ ofProcess => ~posting
    /\ destroyed' = TRUE
    /\ outbox' = <<>>
    /\ UNCHANGED <<ofProcess, notificationVars, events, posting, taskVars, setup, registered,
                   usedAfterDeath, borrowed, clientVars, toClient, occurred>>

----------------------------------------------------------------------------
(* The client, libkqueue's filter: a notification is answered with one read, and
   anything but the reply in between aborts it,
   which closes its socket.  A notification that overtakes the
   reply to a modify request is answered after that. *)
ClientNotified ==
    /\ ~closed /\ client = "idle" /\ setup = "done"
    /\ owed \/ (toClient # <<>> /\ Head(toClient).kind = "notification")
    /\ toClient' = IF owed THEN toClient ELSE Tail(toClient)
    /\ owed' = FALSE
    /\ toServer' = Append(toServer, "read")
    /\ client' = "reading"
    /\ UNCHANGED <<ofProcess, notificationVars, outbox, events, posting, taskVars, lifeVars,
                   closed, delivered, modified, occurred>>

ClientReceivesRead ==
    /\ ~closed /\ client = "reading" /\ toClient # <<>>
    /\ toClient' = Tail(toClient)
    /\ client' = IF Head(toClient).kind = "read" THEN "idle" ELSE "aborted"
    /\ closed' = (Head(toClient).kind # "read")
    /\ delivered' = IF Head(toClient).event = 0 THEN delivered
                    ELSE Append(delivered, Head(toClient).event)
    /\ UNCHANGED <<ofProcess, notificationVars, outbox, events, posting, taskVars, lifeVars,
                   owed, toServer, modified, occurred>>

ClientModify ==
    /\ ~closed /\ client = "idle" /\ setup = "done"
    /\ modified < MaxModifies
    /\ modified' = modified + 1
    /\ toServer' = Append(toServer, "modify")
    /\ client' = "modifying"
    /\ UNCHANGED <<ofProcess, notificationVars, outbox, events, posting, taskVars, lifeVars,
                   owed, closed, delivered, toClient, occurred>>

ClientReceivesModify ==
    /\ ~closed /\ client = "modifying" /\ toClient # <<>>
    /\ toClient' = Tail(toClient)
    /\ owed' = (owed \/ Head(toClient).kind = "notification")
    /\ client' = IF Head(toClient).kind = "modify" THEN "idle" ELSE "modifying"
    /\ UNCHANGED <<ofProcess, notificationVars, outbox, events, posting, taskVars, lifeVars,
                   toServer, closed, delivered, modified, occurred>>

ClientClose ==
    /\ Closable /\ ~closed /\ setup = "done"
    /\ closed' = TRUE
    /\ UNCHANGED <<ofProcess, notificationVars, outbox, events, posting, taskVars, lifeVars,
                   client, owed, toServer, delivered, modified, toClient, occurred>>

----------------------------------------------------------------------------
ServerStep ==
    \/ OpenSocket \/ FinishSetup \/ Notify \/ PushNotification \/ Send \/ CheckForEvents
    \/ ReceiveRead \/ ReceiveModify \/ Fill \/ PushReply \/ SendDeferredNotification
    \/ PushModifyReply \/ HangUp \/ Destroy

ClientStep == ClientNotified \/ ClientReceivesRead \/ ClientReceivesModify

Next == ServerStep \/ ClientStep \/ Occur \/ ClientModify \/ ClientClose

Spec == Init /\ [][Next]_vars

(* Every thread goes on; events, modify requests and the closing are up to others. *)
FairSpec ==
    /\ Spec
    /\ WF_vars(OpenSocket) /\ WF_vars(FinishSetup) /\ WF_vars(Notify)
    /\ WF_vars(PushNotification) /\ WF_vars(Send) /\ WF_vars(CheckForEvents)
    /\ WF_vars(ReceiveRead) /\ WF_vars(ReceiveModify) /\ WF_vars(Fill) /\ WF_vars(PushReply)
    /\ WF_vars(SendDeferredNotification) /\ WF_vars(PushModifyReply)
    /\ WF_vars(HangUp) /\ WF_vars(Destroy) /\ WF_vars(ClientStep)

----------------------------------------------------------------------------
(* Every variable has its type; the channel's own counters never go negative. *)
TypeOK ==
    /\ canSendNotification \in BOOLEAN /\ deferNotification \in BOOLEAN
    /\ deferredNotification \in BOOLEAN /\ posting \in BOOLEAN
    /\ outbox \in Seq(Message) /\ toClient \in Seq(Message)
    /\ filled \in Seq(Reply)
    /\ events \in Seq(Nat) /\ delivered \in Seq(Nat)
    /\ handing \in Nat /\ reads \in Nat /\ finishing \in Nat /\ modifies \in Nat
    /\ checks \in Nat /\ occurred \in Nat /\ modified \in Nat
    /\ setup \in {"new", "open", "done"}
    /\ registered \in BOOLEAN /\ destroyed \in BOOLEAN /\ usedAfterDeath \in BOOLEAN
    /\ borrowed \in BOOLEAN
    /\ client \in {"idle", "reading", "modifying", "aborted"} /\ owed \in BOOLEAN
    /\ toServer \in Seq({"read", "modify"}) /\ closed \in BOOLEAN

(* The messages of the channel are kept in order: the client never gets a
   notification where it waits for the reply to a read (kqchan.cpp, _read). *)
InOrder == client # "aborted"

(* The places a notification can be between _sendNotification and the read that
   acknowledges it. *)
HasNotification(s) == \E i \in 1 .. Len(s) : s[i].kind = "notification"
HasReply(s) == \E i \in 1 .. Len(s) : s[i].kind # "notification"
HasRead(s) == \E i \in 1 .. Len(s) : s[i] = "read"

NotificationUnderWay ==
    \/ deferredNotification \/ handing > 0 \/ owed
    \/ HasNotification(outbox) \/ HasNotification(toClient) \/ HasRead(toServer)

LookUnderWay ==
    posting \/ reads > 0 \/ filled # <<>> \/ HasReply(outbox) \/ checks > 0

(* No event is missed: while one is queued and the client still listens, a
   notification is on its way to the client, or the server will look at the queue
   again, whatever order the reads, notifications and looks came in. *)
NoMissedEvent ==
    (events # <<>> /\ ~closed /\ setup = "done") => (NotificationUnderWay \/ LookUnderWay)

(* A notification that is held back is let go: the read that holds it back is still
   at work. *)
DeferredIsReleased ==
    deferredNotification => (reads > 0 \/ filled # <<>> \/ finishing > 0)

(* The socket is not clogged up: the client never has more than one notification
   to acknowledge, and none when _canSendNotification says so. *)
Notifications(s) == Cardinality({i \in 1 .. Len(s) : s[i].kind = "notification"})
Reads(s) == Cardinality({i \in 1 .. Len(s) : s[i] = "read"})
OneNotification ==
    ~closed => (IF deferredNotification THEN 1 ELSE 0) + handing + (IF owed THEN 1 ELSE 0)
               + Notifications(outbox) + Notifications(toClient) + Reads(toServer)
               = (IF canSendNotification THEN 0 ELSE 1)

(* Every event is taken from the queue, by reads that the client was told to do,
   unless the client closes the channel. *)
EveryEventIsTaken ==
    \A e \in 1 .. MaxEvents :
        (occurred >= e) ~> (closed \/ \A i \in 1 .. Len(events) : events[i] # e)

(* A channel whose client has closed its socket is destroyed. *)
ClosedIsDestroyed == closed ~> destroyed

(* "The duct-taped kqchan will never notify us after we die" (kqchan.cpp:253-255).
   This holds of a process's channel, to which the notifying process holds a reference,
   and not of a Mach port's: the callback is checked under the lock of the port and
   called after it, with no reference (duct-tape/src/kqchan.c:153). *)
NeverNotifiedAfterDeath == ~usedAfterDeath

=============================================================================
