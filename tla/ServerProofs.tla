---------------------------- MODULE ServerProofs ----------------------------
(***************************************************************************)
(* Proofs about the server's main loop and about its registries.           *)
(*                                                                         *)
(* The main loop never sleeps on work and never calls the wrong monitor,   *)
(* for any number of clients, calls, messages and monitors.                *)
(*                                                                         *)
(* Why the loop does not sleep on work: a call in the socket is known to   *)
(* canRead or has an edge, or an event, to report it (ReadsWillCome); when *)
(* the socket was found full, the first message is still blocked or there  *)
(* is an edge, or an event, to say that it is not (WritesWillCome); when   *)
(* it was not, a message pushed after the send has left the eventfd set,   *)
(* or will (PushesAreHeard), and the eventfd is watched (WatchedWhenWritable). *)
(*                                                                         *)
(* In a registry an entry that lives is found and only those linger whose  *)
(* IDs were overtaken, for any entries and any IDs.                        *)
(***************************************************************************)
EXTENDS MainLoop, Registry, TLAPS

SocketReported(in) == \E e \in batch : e.kind = "socket" /\ (in => e.in)

Phases ==
    /\ batch # {} => pc \in {"handle", "callback"}
    /\ pc \in {"reset", "send", "rearm", "wait"} => ~ canRead
    /\ pc = "send" => canWrite
WatchedWhenWritable == pc = "wait" => armed = canWrite
ReadsWillCome == rx > 0 => canRead \/ edge \/ SocketReported(TRUE)
WritesWillCome ==
    ~ canWrite =>
        /\ outbox # <<>>
        /\ edge \/ SocketReported(FALSE) \/ Blocked(Head(outbox))
PushesAreHeard ==
    outbox # <<>> /\ canWrite /\ pc \in {"rearm", "wait"} => eventfd \/ notifying > 0
EventsAreCurrent ==
    /\ \A e \in batch : e.kind = "monitor" =>
          /\ generation[e.address] = e.generation
          /\ e.address \in monitors \cup waitingToDie
    /\ RightMonitor

Inv ==
    /\ TypeOK /\ Phases /\ WatchedWhenWritable /\ ReadsWillCome /\ WritesWillCome
    /\ PushesAreHeard /\ EventsAreCurrent

LEMMA EventKinds ==
    ASSUME NEW e \in Event
    PROVE  /\ e.kind = "monitor" => e \in MonitorEvents
           /\ e.kind = "socket" => e.in \in BOOLEAN
           /\ e = WakeupEvent => e.kind = "wakeup"
  BY DEF Event, MonitorEvents, WakeupEvent

LEMMA CallingIsMonitor ==
    ASSUME TypeOK, calling # NoEvent
    PROVE  calling.address \in Address /\ calling.kind = "monitor"
  BY DEF TypeOK, MonitorEvents

(* What is in the array that epoll_wait fills. *)
LEMMA WaitFacts ==
    ASSUME TypeOK, Wait
    PROVE  /\ batch' \subseteq Event
           /\ \A e \in batch' : e.kind = "monitor" =>
                  e.address \in monitors /\ e.generation = generation[e.address]
           /\ edge => edge' \/ \E e \in batch' : e.kind = "socket" /\ (rx > 0 => e.in)
  <1>1. batch' \subseteq ReadyEvents
    BY DEF Wait
  <1>2. SocketEvent(rx > 0) \in Event /\ SocketEvent(rx > 0).kind = "socket"
        /\ (rx > 0 => SocketEvent(rx > 0).in)
    <2>1. ASSUME NEW in \in BOOLEAN
          PROVE  SocketEvent(in) \in Event /\ SocketEvent(in).kind = "socket" /\ SocketEvent(in).in = in
      BY DEF SocketEvent, Event
    <2>2. (rx > 0) \in BOOLEAN
      BY DEF TypeOK
    <2> QED BY <2>1, <2>2
  <1>3. WakeupEvent \in Event /\ WakeupEvent.kind = "wakeup"
    BY DEF WakeupEvent, Event
  <1>4. ASSUME NEW a \in monitors
        PROVE  /\ MonitorEvent(a, generation[a]) \in Event
               /\ MonitorEvent(a, generation[a]).kind = "monitor"
               /\ MonitorEvent(a, generation[a]).address = a
               /\ MonitorEvent(a, generation[a]).generation = generation[a]
    BY DEF MonitorEvent, Event, MonitorEvents, TypeOK
  <1>5. ASSUME NEW e \in ReadyEvents
        PROVE  \/ e = SocketEvent(rx > 0)
               \/ e = WakeupEvent
               \/ \E a \in monitors : e = MonitorEvent(a, generation[a])
    BY DEF ReadyEvents
  <1>6. batch' \subseteq Event
    BY <1>1, <1>2, <1>3, <1>4, <1>5
  <1>7. ASSUME NEW e \in batch', e.kind = "monitor"
        PROVE  e.address \in monitors /\ e.generation = generation[e.address]
    BY <1>1, <1>2, <1>3, <1>4, <1>5, <1>7
  <1>8. ASSUME edge, ~ edge'
        PROVE  \E e \in batch' : e.kind = "socket" /\ (rx > 0 => e.in)
    <2>1. PICK e \in batch' : e.kind = "socket"
      BY <1>8 DEF Wait
    <2>2. e = SocketEvent(rx > 0)
      BY <2>1, <1>1, <1>3, <1>4, <1>5
    <2> QED BY <2>1, <2>2, <1>2
  <1> QED BY <1>6, <1>7, <1>8

LEMMA InitInv == Init => Inv
  <1> SUFFICES ASSUME Init PROVE Inv
    OBVIOUS
  <1>1. TypeOK
    <2>1. outbox \in Seq(Client) /\ inflight \in [Client -> Nat] /\ generation \in [Address -> Nat]
      BY DEF Init
    <2>2. batch \subseteq Event /\ calling \in MonitorEvents \cup {NoEvent}
      BY DEF Init
    <2> QED BY <2>1, <2>2 DEF Init, TypeOK
  <1>2. Phases /\ WatchedWhenWritable /\ ReadsWillCome /\ WritesWillCome /\ PushesAreHeard
    BY DEF Init, Phases, WatchedWhenWritable, ReadsWillCome, WritesWillCome, PushesAreHeard
  <1>3. EventsAreCurrent
    BY DEF Init, EventsAreCurrent, RightMonitor
  <1> QED BY <1>1, <1>2, <1>3 DEF Inv

(* Types. *)
LEMMA TypeStep ==
    ASSUME TypeOK, Phases, [Next]_vars
    PROVE  TypeOK'
  <1> USE DEF TypeOK
  <1>1. CASE Receive
    BY <1>1 DEF Receive, vars, ioVars, wakeupVars, monitorVars
  <1>2. CASE ResetWakeup
    BY <1>2 DEF ResetWakeup, vars, ioVars, wakeupVars, monitorVars
  <1>3. CASE SendOne
    BY <1>3 DEF SendOne, vars, ioVars, wakeupVars, monitorVars
  <1>4. CASE SendStops
    BY <1>4 DEF SendStops, vars, ioVars, wakeupVars, monitorVars
  <1>5. CASE Rearm
    BY <1>5 DEF Rearm, vars, ioVars, wakeupVars, monitorVars
  <1>6. CASE Wait
    BY <1>6, WaitFacts DEF Wait, vars, ioVars, wakeupVars, monitorVars
  <1>7. CASE HandleSocket
    BY <1>7 DEF HandleSocket, vars, ioVars, wakeupVars, monitorVars
  <1>8. CASE HandleWakeup
    BY <1>8 DEF HandleWakeup, vars, ioVars, wakeupVars, monitorVars
  <1>9. CASE HandleMonitor
    BY <1>9, EventKinds DEF HandleMonitor, vars, ioVars, wakeupVars, monitorVars
  <1>10. CASE CallbackReturns
    BY <1>10 DEF CallbackReturns, vars, ioVars, wakeupVars, monitorVars
  <1>11. CASE Handled
    BY <1>11 DEF Handled, vars, ioVars, wakeupVars, monitorVars
  <1>12. CASE Clear
    BY <1>12 DEF Clear, vars, ioVars, wakeupVars, monitorVars
  <1>13. CASE WaitTimesOut
    BY <1>13 DEF WaitTimesOut, vars, ioVars, wakeupVars, monitorVars
  <1>14. CASE Wakeup
    BY <1>14 DEF Wakeup, vars, ioVars, wakeupVars, monitorVars
  <1>15. CASE CallArrives
    BY <1>15 DEF CallArrives, vars, ioVars, wakeupVars, monitorVars
  <1>16. ASSUME NEW c \in Client, Push(c) PROVE TypeOK'
    BY <1>16 DEF Push, vars, ioVars, wakeupVars, monitorVars
  <1>17. ASSUME NEW c \in Client, ClientReceives(c) PROVE TypeOK'
    BY <1>17 DEF ClientReceives, vars, ioVars, wakeupVars, monitorVars
  <1>18. ASSUME NEW c \in Client, ClientCloses(c) PROVE TypeOK'
    BY <1>18 DEF ClientCloses, vars, ioVars, wakeupVars, monitorVars
  <1>19. ASSUME NEW a \in Address, AddMonitor(a) PROVE TypeOK'
    BY <1>19 DEF AddMonitor, vars, ioVars, wakeupVars, monitorVars
  <1>20. ASSUME NEW a \in Address, RemoveMonitor(a) PROVE TypeOK'
    BY <1>20 DEF RemoveMonitor, vars, ioVars, wakeupVars, monitorVars
  <1>21. ASSUME NEW a \in Address, MonitorReady(a) PROVE TypeOK'
    BY <1>21 DEF MonitorReady, vars, ioVars, wakeupVars, monitorVars
  <1>22. CASE UNCHANGED vars
    BY <1>22 DEF vars, ioVars, wakeupVars, monitorVars
  <1> QED
    BY <1>1, <1>2, <1>3, <1>4, <1>5, <1>6, <1>7, <1>8, <1>9, <1>10, <1>11, <1>12,
       <1>13, <1>14, <1>15, <1>16, <1>17, <1>18, <1>19, <1>20, <1>21, <1>22
    DEF Next, Loop

(* The program counter and what goes with it. *)
LEMMA PhasesStep ==
    ASSUME TypeOK, Phases, WatchedWhenWritable, [Next]_vars
    PROVE  (Phases /\ WatchedWhenWritable)'
  <1> USE DEF TypeOK, Phases, WatchedWhenWritable
  <1>1. CASE Receive
    BY <1>1 DEF Receive, vars, ioVars, wakeupVars, monitorVars
  <1>2. CASE ResetWakeup
    BY <1>2 DEF ResetWakeup, vars, ioVars, wakeupVars, monitorVars
  <1>3. CASE SendOne
    BY <1>3 DEF SendOne, vars, ioVars, wakeupVars, monitorVars
  <1>4. CASE SendStops
    BY <1>4 DEF SendStops, vars, ioVars, wakeupVars, monitorVars
  <1>5. CASE Rearm
    BY <1>5 DEF Rearm, vars, ioVars, wakeupVars, monitorVars
  <1>6. CASE Wait
    BY <1>6 DEF Wait, vars, ioVars, wakeupVars, monitorVars
  <1>7. CASE HandleSocket
    BY <1>7 DEF HandleSocket, vars, ioVars, wakeupVars, monitorVars
  <1>8. CASE HandleWakeup
    BY <1>8 DEF HandleWakeup, vars, ioVars, wakeupVars, monitorVars
  <1>9. CASE HandleMonitor
    BY <1>9 DEF HandleMonitor, vars, ioVars, wakeupVars, monitorVars
  <1>10. CASE CallbackReturns
    BY <1>10 DEF CallbackReturns, vars, ioVars, wakeupVars, monitorVars
  <1>11. CASE Handled
    BY <1>11 DEF Handled, vars, ioVars, wakeupVars, monitorVars
  <1>12. CASE Clear
    BY <1>12 DEF Clear, vars, ioVars, wakeupVars, monitorVars
  <1>13. CASE WaitTimesOut
    BY <1>13 DEF WaitTimesOut, vars, ioVars, wakeupVars, monitorVars
  <1>14. CASE Wakeup
    BY <1>14 DEF Wakeup, vars, ioVars, wakeupVars, monitorVars
  <1>15. CASE CallArrives
    BY <1>15 DEF CallArrives, vars, ioVars, wakeupVars, monitorVars
  <1>16. ASSUME NEW c \in Client, Push(c) PROVE (Phases /\ WatchedWhenWritable)'
    BY <1>16 DEF Push, vars, ioVars, wakeupVars, monitorVars
  <1>17. ASSUME NEW c \in Client, ClientReceives(c) PROVE (Phases /\ WatchedWhenWritable)'
    BY <1>17 DEF ClientReceives, vars, ioVars, wakeupVars, monitorVars
  <1>18. ASSUME NEW c \in Client, ClientCloses(c) PROVE (Phases /\ WatchedWhenWritable)'
    BY <1>18 DEF ClientCloses, vars, ioVars, wakeupVars, monitorVars
  <1>19. ASSUME NEW a \in Address, AddMonitor(a) PROVE (Phases /\ WatchedWhenWritable)'
    BY <1>19 DEF AddMonitor, vars, ioVars, wakeupVars, monitorVars
  <1>20. ASSUME NEW a \in Address, RemoveMonitor(a) PROVE (Phases /\ WatchedWhenWritable)'
    BY <1>20 DEF RemoveMonitor, vars, ioVars, wakeupVars, monitorVars
  <1>21. ASSUME NEW a \in Address, MonitorReady(a) PROVE (Phases /\ WatchedWhenWritable)'
    BY <1>21 DEF MonitorReady, vars, ioVars, wakeupVars, monitorVars
  <1>22. CASE UNCHANGED vars
    BY <1>22 DEF vars, ioVars, wakeupVars, monitorVars
  <1> QED
    BY <1>1, <1>2, <1>3, <1>4, <1>5, <1>6, <1>7, <1>8, <1>9, <1>10, <1>11, <1>12,
       <1>13, <1>14, <1>15, <1>16, <1>17, <1>18, <1>19, <1>20, <1>21, <1>22
    DEF Next, Loop

(* No call waits unheard of. *)
LEMMA ReadsStep ==
    ASSUME TypeOK, Phases, ReadsWillCome, [Next]_vars
    PROVE  ReadsWillCome'
  <1> USE DEF TypeOK, Phases, ReadsWillCome, SocketReported
  <1>1. CASE Receive
    BY <1>1 DEF Receive, vars, ioVars, wakeupVars, monitorVars
  <1>2. CASE ResetWakeup
    BY <1>2 DEF ResetWakeup, vars, ioVars, wakeupVars, monitorVars
  <1>3. CASE SendOne
    BY <1>3 DEF SendOne, vars, ioVars, wakeupVars, monitorVars
  <1>4. CASE SendStops
    BY <1>4 DEF SendStops, vars, ioVars, wakeupVars, monitorVars
  <1>5. CASE Rearm
    BY <1>5 DEF Rearm, vars, ioVars, wakeupVars, monitorVars
  <1>6. CASE Wait
    BY <1>6, WaitFacts DEF Wait, vars, ioVars, wakeupVars, monitorVars
  <1>7. CASE HandleSocket
    BY <1>7, EventKinds DEF HandleSocket, vars, ioVars, wakeupVars, monitorVars
  <1>8. CASE HandleWakeup
    BY <1>8 DEF HandleWakeup, vars, ioVars, wakeupVars, monitorVars, WakeupEvent
  <1>9. CASE HandleMonitor
    BY <1>9 DEF HandleMonitor, vars, ioVars, wakeupVars, monitorVars
  <1>10. CASE CallbackReturns
    BY <1>10 DEF CallbackReturns, vars, ioVars, wakeupVars, monitorVars
  <1>11. CASE Handled
    BY <1>11 DEF Handled, vars, ioVars, wakeupVars, monitorVars
  <1>12. CASE Clear
    BY <1>12 DEF Clear, vars, ioVars, wakeupVars, monitorVars
  <1>13. CASE WaitTimesOut
    BY <1>13 DEF WaitTimesOut, vars, ioVars, wakeupVars, monitorVars
  <1>14. CASE Wakeup
    BY <1>14 DEF Wakeup, vars, ioVars, wakeupVars, monitorVars
  <1>15. CASE CallArrives
    BY <1>15 DEF CallArrives, vars, ioVars, wakeupVars, monitorVars
  <1>16. ASSUME NEW c \in Client, Push(c) PROVE ReadsWillCome'
    BY <1>16 DEF Push, vars, ioVars, wakeupVars, monitorVars
  <1>17. ASSUME NEW c \in Client, ClientReceives(c) PROVE ReadsWillCome'
    BY <1>17 DEF ClientReceives, vars, ioVars, wakeupVars, monitorVars
  <1>18. ASSUME NEW c \in Client, ClientCloses(c) PROVE ReadsWillCome'
    BY <1>18 DEF ClientCloses, vars, ioVars, wakeupVars, monitorVars
  <1>19. ASSUME NEW a \in Address, AddMonitor(a) PROVE ReadsWillCome'
    BY <1>19 DEF AddMonitor, vars, ioVars, wakeupVars, monitorVars
  <1>20. ASSUME NEW a \in Address, RemoveMonitor(a) PROVE ReadsWillCome'
    BY <1>20 DEF RemoveMonitor, vars, ioVars, wakeupVars, monitorVars
  <1>21. ASSUME NEW a \in Address, MonitorReady(a) PROVE ReadsWillCome'
    BY <1>21 DEF MonitorReady, vars, ioVars, wakeupVars, monitorVars
  <1>22. CASE UNCHANGED vars
    BY <1>22 DEF vars, ioVars, wakeupVars, monitorVars
  <1> QED
    BY <1>1, <1>2, <1>3, <1>4, <1>5, <1>6, <1>7, <1>8, <1>9, <1>10, <1>11, <1>12,
       <1>13, <1>14, <1>15, <1>16, <1>17, <1>18, <1>19, <1>20, <1>21, <1>22
    DEF Next, Loop

(* No message waits for room that is there. *)
LEMMA WritesStep ==
    ASSUME TypeOK, Phases, WritesWillCome, [Next]_vars
    PROVE  WritesWillCome'
  <1> USE DEF TypeOK, Phases, WritesWillCome, SocketReported, Blocked
  <1>1. CASE Receive
    BY <1>1 DEF Receive, vars, ioVars, wakeupVars, monitorVars
  <1>2. CASE ResetWakeup
    BY <1>2 DEF ResetWakeup, vars, ioVars, wakeupVars, monitorVars
  <1>3. CASE SendOne
    BY <1>3 DEF SendOne, vars, ioVars, wakeupVars, monitorVars
  <1>4. CASE SendStops
    BY <1>4 DEF SendStops, vars, ioVars, wakeupVars, monitorVars
  <1>5. CASE Rearm
    BY <1>5 DEF Rearm, vars, ioVars, wakeupVars, monitorVars
  <1>6. CASE Wait
    BY <1>6, WaitFacts DEF Wait, vars, ioVars, wakeupVars, monitorVars
  <1>7. CASE HandleSocket
    BY <1>7 DEF HandleSocket, vars, ioVars, wakeupVars, monitorVars
  <1>8. CASE HandleWakeup
    BY <1>8 DEF HandleWakeup, vars, ioVars, wakeupVars, monitorVars, WakeupEvent
  <1>9. CASE HandleMonitor
    BY <1>9 DEF HandleMonitor, vars, ioVars, wakeupVars, monitorVars
  <1>10. CASE CallbackReturns
    BY <1>10 DEF CallbackReturns, vars, ioVars, wakeupVars, monitorVars
  <1>11. CASE Handled
    BY <1>11 DEF Handled, vars, ioVars, wakeupVars, monitorVars
  <1>12. CASE Clear
    BY <1>12 DEF Clear, vars, ioVars, wakeupVars, monitorVars
  <1>13. CASE WaitTimesOut
    BY <1>13 DEF WaitTimesOut, vars, ioVars, wakeupVars, monitorVars
  <1>14. CASE Wakeup
    BY <1>14 DEF Wakeup, vars, ioVars, wakeupVars, monitorVars
  <1>15. CASE CallArrives
    BY <1>15 DEF CallArrives, vars, ioVars, wakeupVars, monitorVars
  <1>16. ASSUME NEW c \in Client, Push(c) PROVE WritesWillCome'
    <2>1. outbox # <<>> => outbox' # <<>> /\ Head(outbox') = Head(outbox)
      BY <1>16 DEF Push
    <2> QED BY <1>16, <2>1 DEF Push
  <1>17. ASSUME NEW c \in Client, ClientReceives(c) PROVE WritesWillCome'
    BY <1>17 DEF ClientReceives, vars, ioVars, wakeupVars, monitorVars
  <1>18. ASSUME NEW c \in Client, ClientCloses(c) PROVE WritesWillCome'
    <2>1. CASE edge \/ SocketReported(FALSE) \/ canWrite
      BY <1>18, <2>1 DEF ClientCloses
    <2>2. CASE ~ canWrite /\ Blocked(Head(outbox))
      <3>1. Head(outbox) \in Client /\ inflight[Head(outbox)] >= QueueLimit
        BY <2>2
      <3>2. CASE c = Head(outbox)
        <4>1. inflight[c] > 0
          BY <3>1, <3>2, LimitAssumption
        <4>2. edge' /\ outbox' = outbox
          BY <1>18, <4>1 DEF ClientCloses
        <4> QED BY <2>2, <4>2
      <3>3. CASE c # Head(outbox)
        BY <1>18, <2>2, <3>1, <3>3 DEF ClientCloses
      <3> QED BY <3>2, <3>3
    <2> QED BY <2>1, <2>2
  <1>19. ASSUME NEW a \in Address, AddMonitor(a) PROVE WritesWillCome'
    BY <1>19 DEF AddMonitor, vars, ioVars, wakeupVars, monitorVars
  <1>20. ASSUME NEW a \in Address, RemoveMonitor(a) PROVE WritesWillCome'
    BY <1>20 DEF RemoveMonitor, vars, ioVars, wakeupVars, monitorVars
  <1>21. ASSUME NEW a \in Address, MonitorReady(a) PROVE WritesWillCome'
    BY <1>21 DEF MonitorReady, vars, ioVars, wakeupVars, monitorVars
  <1>22. CASE UNCHANGED vars
    BY <1>22 DEF vars, ioVars, wakeupVars, monitorVars
  <1> QED
    BY <1>1, <1>2, <1>3, <1>4, <1>5, <1>6, <1>7, <1>8, <1>9, <1>10, <1>11, <1>12,
       <1>13, <1>14, <1>15, <1>16, <1>17, <1>18, <1>19, <1>20, <1>21, <1>22
    DEF Next, Loop

(* No push is slept over. *)
LEMMA PushesStep ==
    ASSUME TypeOK, Phases, PushesAreHeard, [Next]_vars
    PROVE  PushesAreHeard'
  <1> USE DEF TypeOK, Phases, PushesAreHeard
  <1>1. CASE Receive
    BY <1>1 DEF Receive, vars, ioVars, wakeupVars, monitorVars
  <1>2. CASE ResetWakeup
    BY <1>2 DEF ResetWakeup, vars, ioVars, wakeupVars, monitorVars
  <1>3. CASE SendOne
    BY <1>3 DEF SendOne, vars, ioVars, wakeupVars, monitorVars
  <1>4. CASE SendStops
    BY <1>4 DEF SendStops, vars, ioVars, wakeupVars, monitorVars
  <1>5. CASE Rearm
    BY <1>5 DEF Rearm, vars, ioVars, wakeupVars, monitorVars
  <1>6. CASE Wait
    BY <1>6 DEF Wait, vars, ioVars, wakeupVars, monitorVars
  <1>7. CASE HandleSocket
    BY <1>7 DEF HandleSocket, vars, ioVars, wakeupVars, monitorVars
  <1>8. CASE HandleWakeup
    BY <1>8 DEF HandleWakeup, vars, ioVars, wakeupVars, monitorVars
  <1>9. CASE HandleMonitor
    BY <1>9 DEF HandleMonitor, vars, ioVars, wakeupVars, monitorVars
  <1>10. CASE CallbackReturns
    BY <1>10 DEF CallbackReturns, vars, ioVars, wakeupVars, monitorVars
  <1>11. CASE Handled
    BY <1>11 DEF Handled, vars, ioVars, wakeupVars, monitorVars
  <1>12. CASE Clear
    BY <1>12 DEF Clear, vars, ioVars, wakeupVars, monitorVars
  <1>13. CASE WaitTimesOut
    BY <1>13 DEF WaitTimesOut, vars, ioVars, wakeupVars, monitorVars
  <1>14. CASE Wakeup
    BY <1>14 DEF Wakeup, vars, ioVars, wakeupVars, monitorVars
  <1>15. CASE CallArrives
    BY <1>15 DEF CallArrives, vars, ioVars, wakeupVars, monitorVars
  <1>16. ASSUME NEW c \in Client, Push(c) PROVE PushesAreHeard'
    BY <1>16 DEF Push, vars, ioVars, wakeupVars, monitorVars
  <1>17. ASSUME NEW c \in Client, ClientReceives(c) PROVE PushesAreHeard'
    BY <1>17 DEF ClientReceives, vars, ioVars, wakeupVars, monitorVars
  <1>18. ASSUME NEW c \in Client, ClientCloses(c) PROVE PushesAreHeard'
    BY <1>18 DEF ClientCloses, vars, ioVars, wakeupVars, monitorVars
  <1>19. ASSUME NEW a \in Address, AddMonitor(a) PROVE PushesAreHeard'
    BY <1>19 DEF AddMonitor, vars, ioVars, wakeupVars, monitorVars
  <1>20. ASSUME NEW a \in Address, RemoveMonitor(a) PROVE PushesAreHeard'
    BY <1>20 DEF RemoveMonitor, vars, ioVars, wakeupVars, monitorVars
  <1>21. ASSUME NEW a \in Address, MonitorReady(a) PROVE PushesAreHeard'
    BY <1>21 DEF MonitorReady, vars, ioVars, wakeupVars, monitorVars
  <1>22. CASE UNCHANGED vars
    BY <1>22 DEF vars, ioVars, wakeupVars, monitorVars
  <1> QED
    BY <1>1, <1>2, <1>3, <1>4, <1>5, <1>6, <1>7, <1>8, <1>9, <1>10, <1>11, <1>12,
       <1>13, <1>14, <1>15, <1>16, <1>17, <1>18, <1>19, <1>20, <1>21, <1>22
    DEF Next, Loop

(* No event outlives its monitor. *)
LEMMA EventsStep ==
    ASSUME TypeOK, Phases, EventsAreCurrent, [Next]_vars
    PROVE  EventsAreCurrent'
  <1> USE DEF TypeOK, Phases, EventsAreCurrent, RightMonitor
  <1>1. CASE Receive
    BY <1>1 DEF Receive, vars, ioVars, wakeupVars, monitorVars
  <1>2. CASE ResetWakeup
    BY <1>2 DEF ResetWakeup, vars, ioVars, wakeupVars, monitorVars
  <1>3. CASE SendOne
    BY <1>3 DEF SendOne, vars, ioVars, wakeupVars, monitorVars
  <1>4. CASE SendStops
    BY <1>4 DEF SendStops, vars, ioVars, wakeupVars, monitorVars
  <1>5. CASE Rearm
    BY <1>5 DEF Rearm, vars, ioVars, wakeupVars, monitorVars
  <1>6. CASE Wait
    BY <1>6, WaitFacts, CallingIsMonitor DEF Wait, vars, ioVars, wakeupVars, monitorVars
  <1>7. CASE HandleSocket
    BY <1>7 DEF HandleSocket, vars, ioVars, wakeupVars, monitorVars
  <1>8. CASE HandleWakeup
    BY <1>8, CallingIsMonitor DEF HandleWakeup, vars, ioVars, wakeupVars, monitorVars
  <1>9. CASE HandleMonitor
    BY <1>9, EventKinds, CallingIsMonitor DEF HandleMonitor, vars, ioVars, wakeupVars, monitorVars
  <1>10. CASE CallbackReturns
    BY <1>10 DEF CallbackReturns, vars, ioVars, wakeupVars, monitorVars
  <1>11. CASE Handled
    BY <1>11 DEF Handled, vars, ioVars, wakeupVars, monitorVars
  <1>12. CASE Clear
    BY <1>12 DEF Clear, vars, ioVars, wakeupVars, monitorVars
  <1>13. CASE WaitTimesOut
    BY <1>13 DEF WaitTimesOut, vars, ioVars, wakeupVars, monitorVars
  <1>14. CASE Wakeup
    BY <1>14 DEF Wakeup, vars, ioVars, wakeupVars, monitorVars
  <1>15. CASE CallArrives
    BY <1>15 DEF CallArrives, vars, ioVars, wakeupVars, monitorVars
  <1>16. ASSUME NEW c \in Client, Push(c) PROVE EventsAreCurrent'
    BY <1>16 DEF Push, vars, ioVars, wakeupVars, monitorVars
  <1>17. ASSUME NEW c \in Client, ClientReceives(c) PROVE EventsAreCurrent'
    BY <1>17 DEF ClientReceives, vars, ioVars, wakeupVars, monitorVars
  <1>18. ASSUME NEW c \in Client, ClientCloses(c) PROVE EventsAreCurrent'
    BY <1>18 DEF ClientCloses, vars, ioVars, wakeupVars, monitorVars
  <1>19. ASSUME NEW a \in Address, AddMonitor(a) PROVE EventsAreCurrent'
    BY <1>19, EventKinds, CallingIsMonitor DEF AddMonitor, vars, ioVars, wakeupVars, monitorVars
  <1>20. ASSUME NEW a \in Address, RemoveMonitor(a) PROVE EventsAreCurrent'
    BY <1>20 DEF RemoveMonitor, vars, ioVars, wakeupVars, monitorVars
  <1>21. ASSUME NEW a \in Address, MonitorReady(a) PROVE EventsAreCurrent'
    BY <1>21 DEF MonitorReady, vars, ioVars, wakeupVars, monitorVars
  <1>22. CASE UNCHANGED vars
    BY <1>22 DEF vars, ioVars, wakeupVars, monitorVars
  <1> QED
    BY <1>1, <1>2, <1>3, <1>4, <1>5, <1>6, <1>7, <1>8, <1>9, <1>10, <1>11, <1>12,
       <1>13, <1>14, <1>15, <1>16, <1>17, <1>18, <1>19, <1>20, <1>21, <1>22
    DEF Next, Loop

LEMMA InvStep ==
    ASSUME Inv, [Next]_vars
    PROVE  Inv'
  BY TypeStep, PhasesStep, ReadsStep, WritesStep, PushesStep, EventsStep DEF Inv

LEMMA InvImplies == Inv => TypeOK /\ SleepsOnlyWhenIdle /\ RightMonitor
  <1> SUFFICES ASSUME Inv, pc = "wait", ReadyEvents = {}
               PROVE  rx = 0 /\ (outbox # <<>> => notifying > 0 \/ Blocked(Head(outbox)))
    BY DEF Inv, EventsAreCurrent, SleepsOnlyWhenIdle
  <1>1. ~ edge /\ ~ (armed /\ eventfd)
    BY DEF ReadyEvents
  <1>2. batch = {} /\ ~ canRead
    BY DEF Inv, Phases
  <1>3. rx = 0
    BY <1>1, <1>2 DEF Inv, TypeOK, ReadsWillCome, SocketReported
  <1>4. ASSUME outbox # <<>> PROVE notifying > 0 \/ Blocked(Head(outbox))
    <2>1. CASE canWrite
      BY <1>1, <1>4, <2>1 DEF Inv, TypeOK, WatchedWhenWritable, PushesAreHeard
    <2>2. CASE ~ canWrite
      BY <1>1, <1>2, <1>4, <2>2 DEF Inv, WritesWillCome, SocketReported
    <2> QED BY <2>1, <2>2
  <1> QED BY <1>3, <1>4

LEMMA LoopInvariance == Spec => []Inv
  <1>1. Inv /\ [Next]_vars => Inv'
    BY InvStep
  <1> QED BY InitInv, <1>1, PTL DEF Spec

(* The main loop goes to sleep in epoll_wait with nothing left to do that   *)
(* it will not be woken for, for any number of clients, threads, messages   *)
(* and monitors and any size of the array of events.                        *)
THEOREM LoopIsSound == Spec => [](TypeOK /\ SleepsOnlyWhenIdle)
  BY LoopInvariance, InvImplies, PTL

(* An event never reaches a monitor that was allocated where the event's    *)
(* own was: removeMonitor keeps what it removes to the end of the turn.     *)
THEOREM EventsReachTheirMonitor == Spec => []RightMonitor
  BY LoopInvariance, InvImplies, PTL

-----------------------------------------------------------------------------
(* Each map has an entry only under the entry's own ID, and eternal IDs are below
   the counter: what a new registration relies on. *)
OwnIds ==
    /\ \A i \in DOMAIN map : IdOf[map[i]] = i
    /\ \A n \in DOMAIN nsmap : NsidOf[nsmap[n]] = n
    /\ \A x \in DOMAIN emap : eternalID[emap[x]] = x
    /\ \A e \in born : eternalID[e] < eternalCounter

RegistryInv == RegistryTypeOK /\ OwnIds /\ LiveIsFound /\ OnlyTheOvertakenLinger

LEMMA RegistryTypes ==
    ASSUME RegistryInv
    PROVE  /\ map \in [DOMAIN map -> born] /\ nsmap \in [DOMAIN nsmap -> born]
           /\ emap \in [DOMAIN emap -> born] /\ eternalID \in [born -> Nat]
           /\ eternalCounter \in Nat /\ born \subseteq Entry /\ dead \subseteq born
BY DEF RegistryInv, RegistryTypeOK

(* A new entry takes a place under each of its IDs; whoever had one there is overtaken. *)
LEMMA Addition ==
    ASSUME RegistryInv, NEW e \in Entry, e \notin born,
           e \in KernelEntry \/ NsidOf[e] \notin DOMAIN nsmap,
           Add(e), born' = born \cup {e}, dead' = dead
    PROVE  RegistryInv'
<1>1. /\ map \in [DOMAIN map -> born] /\ nsmap \in [DOMAIN nsmap -> born]
      /\ emap \in [DOMAIN emap -> born] /\ eternalID \in [born -> Nat]
      /\ eternalCounter \in Nat /\ born \subseteq Entry /\ dead \subseteq born
  BY RegistryTypes
<1>2. \A f \in born : eternalID[f] < eternalCounter /\ eternalID[f] \in Nat
  BY <1>1 DEF RegistryInv, OwnIds
<1>3. /\ map' = [y \in DOMAIN map \cup {IdOf[e]} |-> IF y = IdOf[e] THEN e ELSE map[y]]
      /\ nsmap' = [y \in DOMAIN nsmap \cup {NsidOf[e]} |->
                     IF y = NsidOf[e] THEN e ELSE nsmap[y]]
      /\ emap' = [y \in DOMAIN emap \cup {eternalCounter} |->
                     IF y = eternalCounter THEN e ELSE emap[y]]
      /\ eternalID' = [y \in born \cup {e} |-> IF y = e THEN eternalCounter ELSE eternalID[y]]
      /\ eternalCounter' = eternalCounter + 1
  BY <1>1 DEF Add, Extended
<1>4. eternalID'[e] = eternalCounter /\ \A f \in born : eternalID'[f] = eternalID[f] /\ f # e
  BY <1>3
<1>5. RegistryTypeOK' BY <1>1, <1>3, IdAssumption DEF RegistryInv, RegistryTypeOK
<1>6. eternalCounter \notin DOMAIN emap BY <1>1, <1>2 DEF RegistryInv, OwnIds
<1>7. OwnIds' BY <1>1, <1>2, <1>3, <1>6 DEF RegistryInv, OwnIds
<1>8. \A f, g \in born : eternalID[g] > eternalID[f] => eternalID'[g] > eternalID'[f]
  BY <1>4
<1>9. e \in born' /\ born \subseteq born' /\ \A f \in born : eternalID'[e] > eternalID'[f]
  BY <1>2, <1>4
<1>10. LiveIsFound'
  <2>1. SUFFICES ASSUME NEW f \in (born \ dead)'
        PROVE  /\ IsEntry(emap', eternalID'[f], f)
               /\ \/ IsEntry(nsmap', NsidOf[f], f)
                  \/ \E k \in born' \cap KernelEntry : eternalID'[k] > eternalID'[f] /\ NsidOf[k] = NsidOf[f]
               /\ \/ IsEntry(map', IdOf[f], f)
                  \/ \E g \in born' : eternalID'[g] > eternalID'[f] /\ IdOf[g] = IdOf[f]
    BY DEF LiveIsFound, Overtakes
  <2>2. CASE f = e BY <1>3, <1>4, <2>2 DEF IsEntry
  <2>3. CASE f \in born \ dead
    <3>1. /\ IsEntry(emap, eternalID[f], f)
          /\ \/ IsEntry(nsmap, NsidOf[f], f)
             \/ \E k \in born \cap KernelEntry : eternalID[k] > eternalID[f] /\ NsidOf[k] = NsidOf[f]
          /\ \/ IsEntry(map, IdOf[f], f)
             \/ \E g \in born : eternalID[g] > eternalID[f] /\ IdOf[g] = IdOf[f]
      BY <2>3 DEF RegistryInv, LiveIsFound, Overtakes
    <3>2. IsEntry(emap', eternalID'[f], f) BY <1>2, <1>3, <1>4, <2>3, <3>1 DEF IsEntry
    <3>3. ASSUME IsEntry(map, IdOf[f], f), IdOf[f] # IdOf[e] PROVE IsEntry(map', IdOf[f], f)
      BY <1>3, <3>3 DEF IsEntry
    <3>4. \/ IsEntry(map', IdOf[f], f)
          \/ \E g \in born' : eternalID'[g] > eternalID'[f] /\ IdOf[g] = IdOf[f]
      BY <1>8, <1>9, <2>3, <3>1, <3>3
    <3>5. ASSUME IsEntry(nsmap, NsidOf[f], f), NsidOf[f] # NsidOf[e]
          PROVE  IsEntry(nsmap', NsidOf[f], f)
      BY <1>3, <3>5 DEF IsEntry
    <3>6. ASSUME IsEntry(nsmap, NsidOf[f], f), NsidOf[f] = NsidOf[e] PROVE e \in KernelEntry
      BY <3>6 DEF IsEntry
    <3>7. \/ IsEntry(nsmap', NsidOf[f], f)
          \/ \E k \in born' \cap KernelEntry : eternalID'[k] > eternalID'[f] /\ NsidOf[k] = NsidOf[f]
      BY <1>8, <1>9, <2>3, <3>1, <3>5, <3>6
    <3>8. QED BY <3>2, <3>4, <3>7
  <2>4. QED BY <2>1, <2>2, <2>3
<1>11. OnlyTheOvertakenLinger'
  <2>1. SUFFICES ASSUME NEW f \in dead
        PROVE  /\ IsEntry(map', IdOf[f], f) =>
                    \E g \in born' : eternalID'[g] > eternalID'[f] /\ NsidOf[g] = NsidOf[f]
               /\ IsEntry(nsmap', NsidOf[f], f) =>
                    \E g \in born' : eternalID'[g] > eternalID'[f] /\ IdOf[g] = IdOf[f]
               /\ IsEntry(emap', eternalID'[f], f) =>
                    \E g \in born' : \/ eternalID'[g] > eternalID'[f] /\ NsidOf[g] = NsidOf[f]
                                     \/ eternalID'[g] > eternalID'[f] /\ IdOf[g] = IdOf[f]
    BY DEF OnlyTheOvertakenLinger, Overtakes
  <2>2. f \in born /\ f # e BY <1>1
  <2>3. /\ IsEntry(map', IdOf[f], f) => IsEntry(map, IdOf[f], f)
        /\ IsEntry(nsmap', NsidOf[f], f) => IsEntry(nsmap, NsidOf[f], f)
        /\ IsEntry(emap', eternalID'[f], f) => IsEntry(emap, eternalID[f], f)
    BY <1>3, <1>4, <2>2 DEF IsEntry
  <2>4. /\ IsEntry(map, IdOf[f], f) =>
             \E g \in born : eternalID[g] > eternalID[f] /\ NsidOf[g] = NsidOf[f]
        /\ IsEntry(nsmap, NsidOf[f], f) =>
             \E g \in born : eternalID[g] > eternalID[f] /\ IdOf[g] = IdOf[f]
        /\ IsEntry(emap, eternalID[f], f) =>
             \E g \in born : \/ eternalID[g] > eternalID[f] /\ NsidOf[g] = NsidOf[f]
                             \/ eternalID[g] > eternalID[f] /\ IdOf[g] = IdOf[f]
    BY DEF RegistryInv, OnlyTheOvertakenLinger, Overtakes
  <2>5. QED BY <1>4, <2>2, <2>3, <2>4
<1>12. QED BY <1>5, <1>7, <1>10, <1>11 DEF RegistryInv

(* An entry that dies takes its own places, if it has all three, or leaves all as it is. *)
LEMMA Death ==
    ASSUME RegistryInv, NEW e \in Entry, UnregisterEntry(e)
    PROVE  RegistryInv'
<1>1. /\ map \in [DOMAIN map -> born] /\ nsmap \in [DOMAIN nsmap -> born]
      /\ emap \in [DOMAIN emap -> born] /\ eternalID \in [born -> Nat]
      /\ eternalCounter \in Nat /\ born \subseteq Entry /\ dead \subseteq born
  BY RegistryTypes
<1>2. /\ e \in born /\ e \notin dead /\ dead' = dead \cup {e}
      /\ UNCHANGED <<eternalCounter, eternalID, born>>
  BY DEF UnregisterEntry
<1>4. CASE /\ IsEntry(map, IdOf[e], e) /\ IsEntry(nsmap, NsidOf[e], e)
           /\ IsEntry(emap, eternalID[e], e)
  <2>1. /\ map' = [y \in DOMAIN map \ {IdOf[e]} |-> map[y]]
        /\ nsmap' = [y \in DOMAIN nsmap \ {NsidOf[e]} |-> nsmap[y]]
        /\ emap' = [y \in DOMAIN emap \ {eternalID[e]} |-> emap[y]]
    BY <1>4 DEF UnregisterEntry, Erased
  <2>2. RegistryTypeOK' BY <1>1, <1>2, <2>1 DEF RegistryInv, RegistryTypeOK
  <2>3. OwnIds' BY <1>1, <1>2, <2>1 DEF RegistryInv, OwnIds
  <2>4. \A f : f # e => /\ IsEntry(map, IdOf[f], f) <=> IsEntry(map', IdOf[f], f)
                        /\ IsEntry(nsmap, NsidOf[f], f) <=> IsEntry(nsmap', NsidOf[f], f)
                        /\ IsEntry(emap, eternalID[f], f) <=> IsEntry(emap', eternalID[f], f)
    BY <1>4, <2>1 DEF IsEntry
  <2>5. /\ ~IsEntry(map', IdOf[e], e) /\ ~IsEntry(nsmap', NsidOf[e], e)
        /\ ~IsEntry(emap', eternalID[e], e)
    BY <2>1 DEF IsEntry
  <2>6. LiveIsFound' BY <1>2, <2>4 DEF RegistryInv, LiveIsFound, Overtakes
  <2>7. OnlyTheOvertakenLinger'
    BY <1>2, <2>4, <2>5 DEF RegistryInv, OnlyTheOvertakenLinger, Overtakes
  <2>8. QED BY <2>2, <2>3, <2>6, <2>7 DEF RegistryInv
<1>5. CASE ~(/\ IsEntry(map, IdOf[e], e) /\ IsEntry(nsmap, NsidOf[e], e)
             /\ IsEntry(emap, eternalID[e], e))
  <2>1. UNCHANGED <<map, nsmap, emap>> BY <1>5 DEF UnregisterEntry
  <2>2. RegistryTypeOK' /\ OwnIds' BY <1>1, <1>2, <2>1 DEF RegistryInv, RegistryTypeOK, OwnIds
  <2>3. LiveIsFound' BY <1>2, <2>1 DEF RegistryInv, LiveIsFound, Overtakes, IsEntry
  <2>4. /\ IsEntry(emap, eternalID[e], e)
        /\ \/ IsEntry(nsmap, NsidOf[e], e)
           \/ \E k \in born : Overtakes(k, e, NsidOf)
        /\ IsEntry(map, IdOf[e], e) \/ \E f \in born : Overtakes(f, e, IdOf)
    BY <1>2 DEF RegistryInv, LiveIsFound
  <2>5. OnlyTheOvertakenLinger'
    BY <1>2, <1>5, <2>1, <2>4 DEF RegistryInv, OnlyTheOvertakenLinger, Overtakes, IsEntry
  <2>6. QED BY <2>2, <2>3, <2>5 DEF RegistryInv
<1>6. QED BY <1>4, <1>5

LEMMA RegistryInitially == RegistryInit => RegistryInv
BY DEF RegistryInit, Empty, RegistryInv, RegistryTypeOK, OwnIds, LiveIsFound,
       OnlyTheOvertakenLinger

LEMMA RegistryStep == RegistryInv /\ [RegistryNext]_registryVars => RegistryInv'
<1> SUFFICES ASSUME RegistryInv, [RegistryNext]_registryVars PROVE RegistryInv'
  OBVIOUS
<1>1. ASSUME NEW e \in Entry, RegisterIfAbsent(e) PROVE RegistryInv'
  BY <1>1, Addition DEF RegisterIfAbsent
<1>2. ASSUME NEW e \in Entry, RegisterEntry(e) PROVE RegistryInv'
  BY <1>2, Addition DEF RegisterEntry
<1>3. CASE UNCHANGED registryVars
  BY <1>3 DEF registryVars, RegistryInv, RegistryTypeOK, OwnIds, LiveIsFound,
              OnlyTheOvertakenLinger, Overtakes, IsEntry
<1>4. QED BY <1>1, <1>2, <1>3, Death DEF RegistryNext

LEMMA RegistryInvariance == RegistrySpec => []RegistryInv
BY RegistryInitially, RegistryStep, PTL DEF RegistrySpec

(* An entry that lives is found under every ID that no later entry took from it, whatever
   is registered and dies and however the host uses IDs again, for any entries and IDs
   (registerIfAbsent, registerEntry, unregisterEntry). *)
THEOREM TheLivingAreFound == RegistrySpec => [](RegistryTypeOK /\ LiveIsFound)
<1>1. RegistryInv => RegistryTypeOK /\ LiveIsFound BY DEF RegistryInv
<1>2. QED BY <1>1, RegistryInvariance, PTL

(* A dead entry that can still be found had an ID overtaken while it lived, which made
   unregisterEntry refuse it, and is found under the others only, for any entries and IDs. *)
THEOREM OnlyRefusalsLinger == RegistrySpec => []OnlyTheOvertakenLinger
<1>1. RegistryInv => OnlyTheOvertakenLinger BY DEF RegistryInv
<1>2. QED BY <1>1, RegistryInvariance, PTL
=============================================================================
