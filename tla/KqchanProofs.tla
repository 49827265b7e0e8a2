---------------------------- MODULE KqchanProofs ----------------------------
(***************************************************************************)
(* Proofs about Kqchan, for either kind of channel and any number of       *)
(* events and modify requests: its types, that a notification that is held *)
(* back is let go, that no event is missed, that there is never more than  *)
(* one notification under way, and that none gets in between a read and    *)
(* its reply.                                                              *)
(***************************************************************************)
EXTENDS Kqchan, SequenceTheorems, FiniteSetTheorems, FunctionTheorems, TLAPS

(* While _canSendNotification is clear and the client listens, the notification
   it stands for is somewhere between the server and the client's read. *)
Told == (~canSendNotification /\ ~closed) => NotificationUnderWay

(* While an event is queued, the client has been told, or a look is to come. *)
Looked ==
    (events # <<>> /\ ~closed /\ setup = "done") => (~canSendNotification \/ LookUnderWay)

(* Notifications are held back only while a read is at work. *)
Deferral ==
    (deferNotification \/ deferredNotification) => (reads > 0 \/ filled # <<>> \/ finishing > 0)

(* A channel goes only after its client. *)
GoneAfterClient == (destroyed => ~registered) /\ (~registered => closed)

Inv == TypeOK /\ Told /\ Looked /\ Deferral /\ GoneAfterClient

----------------------------------------------------------------------------
(* A message put into a queue is in it, with those that were there. *)
LEMMA Pushed ==
    ASSUME NEW s \in Seq(Message), NEW x \in Message
    PROVE  /\ Append(s, x) \in Seq(Message)
           /\ (HasNotification(s) \/ x.kind = "notification") => HasNotification(Append(s, x))
           /\ (HasReply(s) \/ x.kind # "notification") => HasReply(Append(s, x))
<1>1. /\ Append(s, x) \in Seq(Message) /\ Len(Append(s, x)) = Len(s) + 1
      /\ Append(s, x)[Len(s) + 1] = x
      /\ \A i \in 1 .. Len(s) : Append(s, x)[i] = s[i]
  OBVIOUS
<1>2. Len(s) \in Nat OBVIOUS
<1>3. /\ \A i \in 1 .. Len(s) : i \in 1 .. Len(Append(s, x))
      /\ Len(s) + 1 \in 1 .. Len(Append(s, x))
  BY <1>1, <1>2
<1>4. QED BY <1>1, <1>3 DEF HasNotification, HasReply

(* A message that leaves a queue is its head; the others stay. *)
LEMMA Popped ==
    ASSUME NEW s \in Seq(Message), s # <<>>
    PROVE  /\ Head(s) \in Message /\ Tail(s) \in Seq(Message)
           /\ HasNotification(s) => HasNotification(Tail(s)) \/ Head(s).kind = "notification"
           /\ HasReply(s) => HasReply(Tail(s)) \/ Head(s).kind # "notification"
<1>1. /\ Head(s) \in Message /\ Tail(s) \in Seq(Message) /\ Head(s) = s[1]
      /\ \A i \in 1 .. Len(s) : i # 1 => i - 1 \in 1 .. Len(Tail(s)) /\ s[i] = Tail(s)[i - 1]
  OBVIOUS
<1>2. QED BY <1>1 DEF HasNotification, HasReply

(* The same for the client's requests. *)
LEMMA Requested ==
    ASSUME NEW s \in Seq({"read", "modify"}), NEW x \in {"read", "modify"}
    PROVE  /\ Append(s, x) \in Seq({"read", "modify"})
           /\ (HasRead(s) \/ x = "read") => HasRead(Append(s, x))
<1>1. /\ Append(s, x) \in Seq({"read", "modify"}) /\ Len(Append(s, x)) = Len(s) + 1
      /\ Append(s, x)[Len(s) + 1] = x
      /\ \A i \in 1 .. Len(s) : Append(s, x)[i] = s[i]
  OBVIOUS
<1>2. Len(s) \in Nat OBVIOUS
<1>3. /\ \A i \in 1 .. Len(s) : i \in 1 .. Len(Append(s, x))
      /\ Len(s) + 1 \in 1 .. Len(Append(s, x))
  BY <1>1, <1>2
<1>4. QED BY <1>1, <1>3 DEF HasRead

LEMMA Handled ==
    ASSUME NEW s \in Seq({"read", "modify"}), s # <<>>
    PROVE  /\ Tail(s) \in Seq({"read", "modify"})
           /\ HasRead(s) => HasRead(Tail(s)) \/ Head(s) = "read"
<1>1. /\ Tail(s) \in Seq({"read", "modify"}) /\ Head(s) = s[1]
      /\ \A i \in 1 .. Len(s) : i # 1 => i - 1 \in 1 .. Len(Tail(s)) /\ s[i] = Tail(s)[i - 1]
  OBVIOUS
<1>2. QED BY <1>1 DEF HasRead

(* Every message the server makes is one. *)
LEMMA Messages ==
    /\ Notification \in Message /\ Notification.kind = "notification"
    /\ ModifyReply \in Message /\ ModifyReply.kind # "notification"
    /\ \A e \in Nat : ReadReply(e) \in Message /\ ReadReply(e).kind # "notification"
BY DEF Notification, ModifyReply, ReadReply, Message

(* What SendNotification does to the notification's variables. *)
LEMMA Sent ==
    ASSUME TypeOK, SendNotification
    PROVE  /\ ~canSendNotification' /\ canSendNotification' \in BOOLEAN
           /\ deferNotification' = deferNotification
           /\ deferredNotification' \in BOOLEAN /\ handing' \in Nat
           /\ canSendNotification => (deferredNotification' \/ handing' > 0)
           /\ deferredNotification => deferredNotification'
           /\ handing' >= handing
           /\ deferredNotification' => (deferredNotification \/ deferNotification)
<1>1. /\ canSendNotification \in BOOLEAN /\ deferNotification \in BOOLEAN
      /\ deferredNotification \in BOOLEAN
  BY DEF TypeOK
<1>2. /\ ~canSendNotification' /\ canSendNotification' \in BOOLEAN
      /\ deferNotification' = deferNotification /\ deferredNotification' \in BOOLEAN
      /\ deferredNotification => deferredNotification'
      /\ deferredNotification' => (deferredNotification \/ deferNotification)
  BY <1>1, Zenon DEF SendNotification
<1>3. handing' \in Nat /\ handing' >= handing BY DEF TypeOK, SendNotification
<1>4. canSendNotification => (deferredNotification' \/ handing' > 0)
  <2>1. canSendNotification => (deferredNotification' \/ handing' = handing + 1)
    BY Zenon DEF SendNotification
  <2>2. QED BY <2>1 DEF TypeOK
<1>5. QED BY <1>2, <1>3, <1>4

(* So a step that only calls it keeps the promise to the client. *)
LEMMA SentIsTold ==
    ASSUME TypeOK, Told, SendNotification, UNCHANGED <<owed, outbox, toClient, toServer, closed>>
    PROVE  Told'
BY Sent DEF TypeOK, Told, NotificationUnderWay

----------------------------------------------------------------------------
LEMMA Initially == Init => Inv
<1> SUFFICES ASSUME Init PROVE Inv
  OBVIOUS
<1>1. TypeOK
  <2>1. /\ canSendNotification \in BOOLEAN /\ deferNotification \in BOOLEAN
        /\ deferredNotification \in BOOLEAN /\ posting \in BOOLEAN
        /\ registered \in BOOLEAN /\ destroyed \in BOOLEAN /\ usedAfterDeath \in BOOLEAN
        /\ borrowed \in BOOLEAN /\ owed \in BOOLEAN /\ closed \in BOOLEAN
    BY Zenon DEF Init
  <2>2. QED BY <2>1 DEF Init, TypeOK
<1>2. Told /\ Looked BY DEF Init, Told, Looked
<1>3. Deferral /\ GoneAfterClient BY DEF Init, Deferral, GoneAfterClient
<1>4. QED BY <1>1, <1>2, <1>3 DEF Inv

(* Every step keeps the invariant. *)
LEMMA Step == Inv /\ [Next]_vars => Inv'
<1> SUFFICES ASSUME Inv, [Next]_vars PROVE Inv'
  OBVIOUS
<1> USE DEF vars, notificationVars, taskVars, lifeVars, clientVars
<1>1. CASE OpenSocket
  <2>1. TypeOK' BY <1>1 DEF Inv, TypeOK, OpenSocket
  <2>2. Told' BY <1>1 DEF Inv, TypeOK, Told, NotificationUnderWay, OpenSocket
  <2>3. Looked' BY <1>1 DEF Inv, TypeOK, Looked, LookUnderWay, OpenSocket
  <2>4. Deferral' /\ GoneAfterClient'
    BY <1>1 DEF Inv, TypeOK, Deferral, GoneAfterClient, OpenSocket
  <2>5. QED BY <2>1, <2>2, <2>3, <2>4 DEF Inv
<1>2. CASE FinishSetup
  <2>1. TypeOK' BY <1>2, Sent DEF Inv, TypeOK, FinishSetup
  <2>2. Told' BY <1>2, SentIsTold DEF Inv, TypeOK, Told, NotificationUnderWay, FinishSetup
  <2>3. Looked' BY <1>2, Sent DEF Inv, TypeOK, Looked, LookUnderWay, FinishSetup
  <2>4. Deferral' /\ GoneAfterClient'
    BY <1>2, Sent DEF Inv, TypeOK, Deferral, GoneAfterClient, FinishSetup
  <2>5. QED BY <2>1, <2>2, <2>3, <2>4 DEF Inv
<1>3. CASE Occur
  <2>1. TypeOK' BY <1>3 DEF Inv, TypeOK, Occur
  <2>2. Told' BY <1>3 DEF Inv, TypeOK, Told, NotificationUnderWay, GoneAfterClient, Occur
  <2>3. Looked' BY <1>3 DEF Inv, TypeOK, Looked, LookUnderWay, GoneAfterClient, Occur
  <2>4. Deferral' /\ GoneAfterClient'
    BY <1>3 DEF Inv, TypeOK, Deferral, GoneAfterClient, Occur
  <2>5. QED BY <2>1, <2>2, <2>3, <2>4 DEF Inv
<1>4. CASE Notify
  <2>1. TypeOK' BY <1>4, Sent DEF Inv, TypeOK, Notify
  <2>2. Told'
    BY <1>4, SentIsTold DEF Inv, TypeOK, Told, NotificationUnderWay, GoneAfterClient, Notify
  <2>3. Looked' BY <1>4, Sent DEF Inv, TypeOK, Looked, LookUnderWay, GoneAfterClient, Notify
  <2>4. Deferral' /\ GoneAfterClient'
    BY <1>4, Sent DEF Inv, TypeOK, Deferral, GoneAfterClient, Notify
  <2>5. QED BY <2>1, <2>2, <2>3, <2>4 DEF Inv
<1>5. CASE PushNotification
  <2>1. TypeOK'
    <3>1. usedAfterDeath' \in BOOLEAN /\ borrowed' \in BOOLEAN BY <1>5 DEF PushNotification
    <3>2. outbox' \in Seq(Message) BY <1>5, Messages, Pushed DEF Inv, TypeOK, PushNotification
    <3>3. handing' \in Nat BY <1>5 DEF Inv, TypeOK, PushNotification
    <3>4. QED BY <1>5, <3>1, <3>2, <3>3 DEF Inv, TypeOK, PushNotification
  <2>2. Told'
    BY <1>5, Messages, Pushed DEF Inv, TypeOK, Told, NotificationUnderWay, GoneAfterClient, PushNotification
  <2>3. Looked'
    BY <1>5, Messages, Pushed DEF Inv, TypeOK, Looked, LookUnderWay, GoneAfterClient, PushNotification
  <2>4. Deferral' /\ GoneAfterClient'
    BY <1>5 DEF Inv, TypeOK, Deferral, GoneAfterClient, PushNotification
  <2>5. QED BY <2>1, <2>2, <2>3, <2>4 DEF Inv
<1>6. CASE Send
  <2>1. TypeOK' BY <1>6, Popped, Pushed DEF Inv, TypeOK, Send
  <2>2. Told' BY <1>6, Popped, Pushed DEF Inv, TypeOK, Told, NotificationUnderWay, Send
  <2>3. Looked' BY <1>6, Popped, Pushed DEF Inv, TypeOK, Looked, LookUnderWay, Send
  <2>4. Deferral' /\ GoneAfterClient'
    BY <1>6 DEF Inv, TypeOK, Deferral, GoneAfterClient, Send
  <2>5. QED BY <2>1, <2>2, <2>3, <2>4 DEF Inv
<1>7. CASE CheckForEvents
  <2>1. TypeOK' BY <1>7, Sent DEF Inv, TypeOK, CheckForEvents
  <2>2. Told'
    BY <1>7, SentIsTold DEF Inv, TypeOK, Told, NotificationUnderWay, GoneAfterClient, CheckForEvents
  <2>3. Looked'
    BY <1>7, Sent DEF Inv, TypeOK, Looked, LookUnderWay, GoneAfterClient, CheckForEvents
  <2>4. Deferral' /\ GoneAfterClient'
    BY <1>7, Sent DEF Inv, TypeOK, Deferral, GoneAfterClient, CheckForEvents
  <2>5. QED BY <2>1, <2>2, <2>3, <2>4 DEF Inv
<1>8. CASE ReceiveRead
  <2>1. TypeOK' BY <1>8, Handled DEF Inv, TypeOK, ReceiveRead
  <2>2. Told' BY <1>8, Handled DEF Inv, TypeOK, Told, NotificationUnderWay, ReceiveRead
  <2>3. Looked' BY <1>8 DEF Inv, TypeOK, Looked, LookUnderWay, ReceiveRead
  <2>4. Deferral' /\ GoneAfterClient'
    BY <1>8 DEF Inv, TypeOK, Deferral, GoneAfterClient, ReceiveRead
  <2>5. QED BY <2>1, <2>2, <2>3, <2>4 DEF Inv
<1>9. CASE ReceiveModify
  <2>1. TypeOK' BY <1>9, Handled DEF Inv, TypeOK, ReceiveModify
  <2>2. Told' BY <1>9, Handled DEF Inv, TypeOK, Told, NotificationUnderWay, ReceiveModify
  <2>3. Looked' BY <1>9 DEF Inv, TypeOK, Looked, LookUnderWay, ReceiveModify
  <2>4. Deferral' /\ GoneAfterClient'
    BY <1>9 DEF Inv, TypeOK, Deferral, GoneAfterClient, ReceiveModify
  <2>5. QED BY <2>1, <2>2, <2>3, <2>4 DEF Inv
<1>10. CASE Fill
  <2>1. TypeOK'
    <3> DEFINE Take(n) == IF n = Len(events)
                          THEN filled' = Append(filled, ReadReply(0)) /\ events' = <<>>
                          ELSE /\ filled' = Append(filled, ReadReply(events[n + 1]))
                               /\ events' = SubSeq(events, n + 2, Len(events))
    <3>1. events \in Seq(Nat) /\ filled \in Seq(Reply) /\ Len(events) \in Nat
      BY DEF Inv, TypeOK
    <3>2. PICK n \in 0 .. Len(events) : Take(n)
      <4>1. \E n \in 0 .. IF ofProcess THEN Len(events) ELSE 0 : Take(n)
        BY <1>10 DEF Fill
      <4>2. (0 .. IF ofProcess THEN Len(events) ELSE 0) \subseteq 0 .. Len(events) BY <3>1
      <4> HIDE DEF Take
      <4>3. QED BY <4>1, <4>2
    <3>3. \A e \in Nat : Append(filled, ReadReply(e)) \in Seq(Reply)
      <4>1. \A e \in Nat : ReadReply(e) \in Reply BY DEF ReadReply, Reply
      <4>2. QED BY <3>1, <4>1
    <3>4. events' \in Seq(Nat) /\ filled' \in Seq(Reply)
      <4>1. CASE n = Len(events)
        <5>1. filled' = Append(filled, ReadReply(0)) /\ events' = <<>> BY <3>2, <4>1
        <5>2. QED BY <3>3, <5>1
      <4>2. CASE n # Len(events)
        <5>1. /\ filled' = Append(filled, ReadReply(events[n + 1]))
              /\ events' = SubSeq(events, n + 2, Len(events))
          BY <3>2, <4>2
        <5>2. n + 1 \in 1 .. Len(events) BY <3>1, <4>2
        <5>3. events[n + 1] \in Nat BY <3>1, <5>2
        <5>4. \A i \in n + 2 .. Len(events) : events[i] \in Nat BY <3>1, <5>2
        <5>5. SubSeq(events, n + 2, Len(events)) \in Seq(Nat)
          BY <3>1, <5>2, <5>4, SubSeqProperties
        <5>6. QED BY <3>3, <5>1, <5>3, <5>5
      <4>3. QED BY <4>1, <4>2
    <3>5. reads' \in Nat BY <1>10 DEF Inv, TypeOK, Fill
    <3>6. UNCHANGED <<notificationVars, outbox, posting, finishing, modifies, checks, lifeVars,
                      clientVars, toClient, occurred>>
      BY <1>10 DEF Fill
    <3>7. QED BY <3>4, <3>5, <3>6 DEF Inv, TypeOK
  <2>2. Told' BY <1>10 DEF Inv, TypeOK, Told, NotificationUnderWay, Fill
  <2>3. Looked' BY <1>10, Messages, Pushed DEF Inv, TypeOK, Looked, LookUnderWay, Fill
  <2>4. Deferral' /\ GoneAfterClient'
    BY <1>10, Messages, Pushed DEF Inv, TypeOK, Deferral, GoneAfterClient, Fill
  <2>5. QED BY <2>1, <2>2, <2>3, <2>4 DEF Inv
<1>11. CASE PushReply
  <2>1. TypeOK' /\ HasReply(outbox')
    <3>1. /\ filled \in Seq(Reply) /\ filled # <<>>
          /\ outbox \in Seq(Message)
      BY <1>11 DEF Inv, TypeOK, PushReply
    <3>2. /\ Head(filled) \in Reply
          /\ Tail(filled) \in Seq(Reply)
      BY <3>1
    <3>3. Head(filled) \in Message /\ Head(filled).kind # "notification" BY <3>2 DEF Message, Reply
    <3>4. outbox' \in Seq(Message) /\ HasReply(outbox')
      BY <1>11, <3>1, <3>3, Pushed DEF PushReply
    <3>5. QED BY <1>11, <3>2, <3>4 DEF Inv, TypeOK, PushReply
  <2>2. Told'
    <3>1. HasNotification(outbox) => HasNotification(outbox')
      <4>1. Head(filled) \in Reply BY <1>11 DEF Inv, TypeOK, PushReply
      <4>2. Head(filled) \in Message BY <4>1 DEF Reply, Message
      <4>3. QED BY <1>11, <4>2, Pushed DEF Inv, TypeOK, PushReply
    <3>2. QED BY <1>11, <3>1 DEF Inv, TypeOK, Told, NotificationUnderWay, PushReply
  <2>3. Looked' BY <1>11, <2>1 DEF Looked, LookUnderWay
  <2>4. Deferral' /\ GoneAfterClient'
    BY <1>11 DEF Inv, TypeOK, Deferral, GoneAfterClient, PushReply
  <2>5. QED BY <2>1, <2>2, <2>3, <2>4 DEF Inv
<1>12. CASE SendDeferredNotification
  <2>1. TypeOK'
    <3>1. handing' \in Nat /\ finishing' \in Nat
      BY <1>12 DEF Inv, TypeOK, SendDeferredNotification
    <3>2. QED BY <1>12, <3>1 DEF Inv, TypeOK, SendDeferredNotification
  <2>2. Told' BY <1>12 DEF Inv, TypeOK, Told, NotificationUnderWay, SendDeferredNotification
  <2>3. Looked' BY <1>12 DEF Inv, TypeOK, Looked, LookUnderWay, SendDeferredNotification
  <2>4. Deferral' /\ GoneAfterClient'
    BY <1>12 DEF Inv, TypeOK, Deferral, GoneAfterClient, SendDeferredNotification
  <2>5. QED BY <2>1, <2>2, <2>3, <2>4 DEF Inv
<1>13. CASE PushModifyReply
  <2>1. TypeOK' BY <1>13, Messages, Pushed DEF Inv, TypeOK, PushModifyReply
  <2>2. Told'
    BY <1>13, Messages, Pushed DEF Inv, TypeOK, Told, NotificationUnderWay, PushModifyReply
  <2>3. Looked'
    BY <1>13, Messages, Pushed DEF Inv, TypeOK, Looked, LookUnderWay, PushModifyReply
  <2>4. Deferral' /\ GoneAfterClient'
    BY <1>13 DEF Inv, TypeOK, Deferral, GoneAfterClient, PushModifyReply
  <2>5. QED BY <2>1, <2>2, <2>3, <2>4 DEF Inv
<1>14. CASE HangUp
  <2>1. TypeOK' BY <1>14 DEF Inv, TypeOK, HangUp
  <2>2. Told' BY <1>14 DEF Inv, TypeOK, Told, NotificationUnderWay, HangUp
  <2>3. Looked' BY <1>14 DEF Inv, TypeOK, Looked, LookUnderWay, HangUp
  <2>4. Deferral' /\ GoneAfterClient'
    BY <1>14 DEF Inv, TypeOK, Deferral, GoneAfterClient, HangUp
  <2>5. QED BY <2>1, <2>2, <2>3, <2>4 DEF Inv
<1>15. CASE Destroy
  <2>1. TypeOK' BY <1>15 DEF Inv, TypeOK, Destroy
  <2>2. Told' BY <1>15 DEF Inv, TypeOK, Told, NotificationUnderWay, GoneAfterClient, Destroy
  <2>3. Looked' BY <1>15 DEF Inv, TypeOK, Looked, LookUnderWay, GoneAfterClient, Destroy
  <2>4. Deferral' /\ GoneAfterClient'
    BY <1>15 DEF Inv, TypeOK, Deferral, GoneAfterClient, Destroy
  <2>5. QED BY <2>1, <2>2, <2>3, <2>4 DEF Inv
<1>16. CASE ClientNotified
  <2>1. TypeOK' BY <1>16, Popped, Requested DEF Inv, TypeOK, ClientNotified
  <2>2. Told'
    BY <1>16, Popped, Requested DEF Inv, TypeOK, Told, NotificationUnderWay, ClientNotified
  <2>3. Looked' BY <1>16 DEF Inv, TypeOK, Looked, LookUnderWay, ClientNotified
  <2>4. Deferral' /\ GoneAfterClient'
    BY <1>16 DEF Inv, TypeOK, Deferral, GoneAfterClient, ClientNotified
  <2>5. QED BY <2>1, <2>2, <2>3, <2>4 DEF Inv
<1>17. CASE ClientReceivesRead
  <2>1. TypeOK'
    <3>1. Head(toClient) \in Message /\ Tail(toClient) \in Seq(Message)
      BY <1>17, Popped DEF Inv, TypeOK, ClientReceivesRead
    <3>2. delivered' \in Seq(Nat)
      BY <1>17, <3>1 DEF Inv, TypeOK, ClientReceivesRead, Message
    <3>3. closed' \in BOOLEAN BY <1>17 DEF ClientReceivesRead
    <3>4. QED BY <1>17, <3>1, <3>2, <3>3 DEF Inv, TypeOK, ClientReceivesRead
  <2>2. Told'
    BY <1>17, Popped DEF Inv, TypeOK, Told, NotificationUnderWay, ClientReceivesRead
  <2>3. Looked' BY <1>17 DEF Inv, TypeOK, Looked, LookUnderWay, ClientReceivesRead
  <2>4. Deferral' /\ GoneAfterClient'
    BY <1>17 DEF Inv, TypeOK, Deferral, GoneAfterClient, ClientReceivesRead
  <2>5. QED BY <2>1, <2>2, <2>3, <2>4 DEF Inv
<1>18. CASE ClientModify
  <2>1. TypeOK' BY <1>18, Requested DEF Inv, TypeOK, ClientModify
  <2>2. Told' BY <1>18, Requested DEF Inv, TypeOK, Told, NotificationUnderWay, ClientModify
  <2>3. Looked' BY <1>18 DEF Inv, TypeOK, Looked, LookUnderWay, ClientModify
  <2>4. Deferral' /\ GoneAfterClient'
    BY <1>18 DEF Inv, TypeOK, Deferral, GoneAfterClient, ClientModify
  <2>5. QED BY <2>1, <2>2, <2>3, <2>4 DEF Inv
<1>19. CASE ClientReceivesModify
  <2>1. TypeOK' BY <1>19, Popped DEF Inv, TypeOK, ClientReceivesModify
  <2>2. Told'
    BY <1>19, Popped DEF Inv, TypeOK, Told, NotificationUnderWay, ClientReceivesModify
  <2>3. Looked' BY <1>19 DEF Inv, TypeOK, Looked, LookUnderWay, ClientReceivesModify
  <2>4. Deferral' /\ GoneAfterClient'
    BY <1>19 DEF Inv, TypeOK, Deferral, GoneAfterClient, ClientReceivesModify
  <2>5. QED BY <2>1, <2>2, <2>3, <2>4 DEF Inv
<1>20. CASE ClientClose
  <2>1. TypeOK' BY <1>20 DEF Inv, TypeOK, ClientClose
  <2>2. Told' BY <1>20 DEF Inv, TypeOK, Told, NotificationUnderWay, ClientClose
  <2>3. Looked' BY <1>20 DEF Inv, TypeOK, Looked, LookUnderWay, ClientClose
  <2>4. Deferral' /\ GoneAfterClient'
    BY <1>20 DEF Inv, TypeOK, Deferral, GoneAfterClient, ClientClose
  <2>5. QED BY <2>1, <2>2, <2>3, <2>4 DEF Inv
<1>21. CASE UNCHANGED vars
  BY <1>21 DEF Inv, TypeOK, Told, Looked, Deferral, GoneAfterClient,
                NotificationUnderWay, LookUnderWay
<1>22. QED
  BY <1>1, <1>2, <1>3, <1>4, <1>5, <1>6, <1>7, <1>8, <1>9, <1>10, <1>11,
     <1>12, <1>13, <1>14, <1>15, <1>16, <1>17, <1>18, <1>19, <1>20, <1>21
  DEF Next, ServerStep, ClientStep

LEMMA Invariance == Spec => []Inv
<1>1. QED BY Initially, Step, PTL DEF Spec

(* The types of the channel, its queues and its counters. *)
THEOREM TypeCorrect == Spec => []TypeOK
<1>1. Inv => TypeOK BY DEF Inv
<1>2. QED BY <1>1, Invariance, PTL

(* A notification deferred by a read is let go: the read is still at work
   (_sendDeferredNotification). *)
THEOREM DeferralEnds == Spec => []DeferredIsReleased
<1>1. Inv => DeferredIsReleased BY DEF Inv, Deferral, DeferredIsReleased
<1>2. QED BY <1>1, Invariance, PTL

(* While an event is queued for a client that listens, a notification or a look at
   the queue is to come (the comment in MachPort::_read). *)
THEOREM NothingMissed == Spec => []NoMissedEvent
<1>1. Inv => NoMissedEvent BY DEF Inv, Told, Looked, NoMissedEvent
<1>2. QED BY <1>1, Invariance, PTL

----------------------------------------------------------------------------
(* The order of the messages.  OneNotification is inductive by itself; that the
   client never finds a notification where it waits for a reply needs, besides,
   how many reads are at work while notifications are held back, that each request
   of the client is in one place, and how the messages stand in line. *)
Count(s, K) == Cardinality({i \in 1 .. Len(s) : s[i] \in K})
Kind(k) == {m \in Message : m.kind = k}
ReadReplies(s) == Count(s, Kind("read"))
ModifyReplies(s) == Count(s, Kind("modify"))
Modifies(s) == Count(s, {"modify"})

(* The replies that are filled and not yet pushed. *)
Replies == Len(filled)

(* Notifications are held back from a read to the push of its reply, one at a time. *)
AtWork == ~closed =>
    reads + Replies + finishing = IF deferNotification THEN 1 ELSE 0

(* While they are, the one there may be has not left. *)
HeldBack == ~closed /\ deferNotification => canSendNotification \/ deferredNotification

(* A request that the client waits for is in one place, and there is no other. *)
Asked == ~closed =>
    /\ Reads(toServer) + reads + Replies + ReadReplies(outbox) + ReadReplies(toClient)
         = IF client = "reading" THEN 1 ELSE 0
    /\ Modifies(toServer) + modifies + ModifyReplies(outbox) + ModifyReplies(toClient)
         = IF client = "modifying" THEN 1 ELSE 0

(* No notification stands before the reply to a read. *)
NoneBeforeRead(s) ==
    \A i, j \in 1 .. Len(s) : i < j /\ s[j].kind = "read" => s[i].kind # "notification"
InLine == ~closed =>
    /\ NoneBeforeRead(outbox) /\ NoneBeforeRead(toClient)
    /\ ReadReplies(outbox) > 0 => Notifications(toClient) = 0

OrderInv == OneNotification /\ AtWork /\ HeldBack /\ Asked /\ InLine /\ InOrder

----------------------------------------------------------------------------
(* Counting the members of a queue, as one joins at its end or its head leaves. *)
LEMMA Counting ==
    ASSUME NEW T, NEW s \in Seq(T), NEW K
    PROVE  /\ IsFiniteSet({i \in 1 .. Len(s) : s[i] \in K})
           /\ Count(s, K) \in Nat
           /\ Count(s, K) = 0 => \A i \in 1 .. Len(s) : s[i] \notin K
<1> DEFINE I == {i \in 1 .. Len(s) : s[i] \in K}
<1>1. Len(s) \in Nat OBVIOUS
<1>2. IsFiniteSet(1 .. Len(s)) BY <1>1, FS_Interval
<1>3. IsFiniteSet(I) BY <1>2, FS_Subset
<1>4. Cardinality(I) \in Nat BY <1>3, FS_CardinalityType
<1>5. Cardinality(I) = 0 => I = {} BY <1>3, FS_EmptySet
<1>6. QED BY <1>3, <1>4, <1>5 DEF Count

LEMMA CountEmpty == \A K : Count(<<>>, K) = 0
<1> SUFFICES ASSUME NEW K PROVE Count(<<>>, K) = 0
  OBVIOUS
<1>1. {i \in 1 .. Len(<<>>) : <<>>[i] \in K} = {} OBVIOUS
<1>2. QED BY <1>1, FS_EmptySet DEF Count

LEMMA CountAppend ==
    ASSUME NEW T, NEW s \in Seq(T), NEW x \in T, NEW K
    PROVE  Count(Append(s, x), K) = Count(s, K) + (IF x \in K THEN 1 ELSE 0)
<1> DEFINE I == {i \in 1 .. Len(s) : s[i] \in K}
           J == {i \in 1 .. Len(Append(s, x)) : Append(s, x)[i] \in K}
           n == Len(s) + 1
<1>1. /\ Len(s) \in Nat /\ Len(Append(s, x)) = n /\ Append(s, x)[n] = x
      /\ \A i \in 1 .. Len(s) : Append(s, x)[i] = s[i]
  OBVIOUS
<1>2. 1 .. n = (1 .. Len(s)) \cup {n} /\ n \notin 1 .. Len(s) BY <1>1
<1>3. J = IF x \in K THEN I \cup {n} ELSE I BY <1>1, <1>2
<1>4. n \notin I BY <1>2
<1>5. IsFiniteSet(I) /\ Cardinality(I) \in Nat BY Counting DEF Count
<1>6. Cardinality(I \cup {n}) = Cardinality(I) + 1 BY <1>4, <1>5, FS_AddElement
<1>7. Cardinality(J) = Cardinality(I) + (IF x \in K THEN 1 ELSE 0)
  <2> HIDE DEF I, J, n
  <2>1. QED BY <1>3, <1>5, <1>6
<1>8. QED BY <1>7 DEF Count

LEMMA CountTail ==
    ASSUME NEW T, NEW s \in Seq(T), s # <<>>, NEW K
    PROVE  Count(s, K) = Count(Tail(s), K) + (IF Head(s) \in K THEN 1 ELSE 0)
<1> DEFINE I == {i \in 1 .. Len(s) : s[i] \in K}
           J == {i \in 1 .. Len(Tail(s)) : Tail(s)[i] \in K}
           f == [i \in J |-> i + 1]
<1>1. /\ Tail(s) \in Seq(T) /\ Len(s) \in Nat /\ Len(s) >= 1 /\ Head(s) = s[1]
      /\ Len(Tail(s)) = Len(s) - 1 /\ \A i \in 1 .. Len(Tail(s)) : Tail(s)[i] = s[i + 1]
  OBVIOUS
<1>2. /\ \A i \in J : i \in Nat /\ i + 1 \in I \ {1}
      /\ \A i \in I \ {1} : i - 1 \in J /\ (i - 1) + 1 = i
  BY <1>1
<1>3. f \in Bijection(J, I \ {1})
  <2>1. f \in [J -> I \ {1}] BY <1>2
  <2>2. \A a, b \in J : f[a] = f[b] => a = b BY <1>2
  <2>3. \A t \in I \ {1} : \E a \in J : f[a] = t BY <1>2
  <2> HIDE DEF f, I, J
  <2>4. QED BY <2>1, <2>2, <2>3, Fun_IsBij
<1>4. IsFiniteSet(J) /\ Cardinality(J) \in Nat BY <1>1, Counting DEF Count
<1>5. Cardinality(I \ {1}) = Cardinality(J) BY <1>3, <1>4, FS_Bijection, Fun_ExistsBij
<1>6. IsFiniteSet(I) /\ Cardinality(I) \in Nat BY Counting DEF Count
<1>7. Cardinality(I \ {1}) = IF 1 \in I THEN Cardinality(I) - 1 ELSE Cardinality(I)
  BY <1>6, FS_RemoveElement
<1>8. 1 \in I <=> Head(s) \in K BY <1>1
<1>9. Cardinality(I) = Cardinality(J) + (IF Head(s) \in K THEN 1 ELSE 0)
  <2> HIDE DEF I, J
  <2>1. QED BY <1>4, <1>5, <1>6, <1>7, <1>8
<1>10. QED BY <1>9 DEF Count

(* The numbers the invariant is about, for the queues of messages ... *)
LEMMA NotificationsCounted ==
    ASSUME NEW s \in Seq(Message)
    PROVE  Notifications(s) = Count(s, Kind("notification"))
<1>1. \A i \in 1 .. Len(s) : s[i] \in Message OBVIOUS
<1>2. {i \in 1 .. Len(s) : s[i].kind = "notification"}
        = {i \in 1 .. Len(s) : s[i] \in Kind("notification")}
  BY <1>1 DEF Kind
<1>3. QED BY <1>2 DEF Notifications, Count

LEMMA MessageCounts ==
    ASSUME NEW s \in Seq(Message)
    PROVE  Notifications(s) \in Nat /\ ReadReplies(s) \in Nat /\ ModifyReplies(s) \in Nat
BY Counting, NotificationsCounted DEF ReadReplies, ModifyReplies

LEMMA PushCounts ==
    ASSUME NEW s \in Seq(Message), NEW x \in Message
    PROVE  /\ Append(s, x) \in Seq(Message)
           /\ Notifications(Append(s, x))
                = Notifications(s) + (IF x.kind = "notification" THEN 1 ELSE 0)
           /\ ReadReplies(Append(s, x)) = ReadReplies(s) + (IF x.kind = "read" THEN 1 ELSE 0)
           /\ ModifyReplies(Append(s, x))
                = ModifyReplies(s) + (IF x.kind = "modify" THEN 1 ELSE 0)
<1>1. Append(s, x) \in Seq(Message) OBVIOUS
<1>2. \A k : x \in Kind(k) <=> x.kind = k BY DEF Kind
<1>3. \A k : Count(Append(s, x), Kind(k)) = Count(s, Kind(k)) + (IF x.kind = k THEN 1 ELSE 0)
  BY <1>2, CountAppend
<1>4. QED BY <1>1, <1>3, NotificationsCounted DEF ReadReplies, ModifyReplies

LEMMA PopCounts ==
    ASSUME NEW s \in Seq(Message), s # <<>>
    PROVE  /\ Head(s) \in Message /\ Tail(s) \in Seq(Message)
           /\ Notifications(s)
                = Notifications(Tail(s)) + (IF Head(s).kind = "notification" THEN 1 ELSE 0)
           /\ ReadReplies(s) = ReadReplies(Tail(s)) + (IF Head(s).kind = "read" THEN 1 ELSE 0)
           /\ ModifyReplies(s)
                = ModifyReplies(Tail(s)) + (IF Head(s).kind = "modify" THEN 1 ELSE 0)
<1>1. Head(s) \in Message /\ Tail(s) \in Seq(Message) OBVIOUS
<1>2. \A k : Head(s) \in Kind(k) <=> Head(s).kind = k BY <1>1 DEF Kind
<1>3. \A k : Count(s, Kind(k)) = Count(Tail(s), Kind(k)) + (IF Head(s).kind = k THEN 1 ELSE 0)
  BY <1>2, CountTail
<1>4. QED BY <1>1, <1>3, NotificationsCounted DEF ReadReplies, ModifyReplies

(* What a message that joins or leaves a queue does to them. *)
LEMMA Joins ==
    ASSUME NEW s \in Seq(Message), NEW x \in Message
    PROVE  /\ x.kind = "notification" =>
                /\ Notifications(Append(s, x)) = Notifications(s) + 1
                /\ ReadReplies(Append(s, x)) = ReadReplies(s)
                /\ ModifyReplies(Append(s, x)) = ModifyReplies(s)
           /\ x.kind = "read" =>
                /\ Notifications(Append(s, x)) = Notifications(s)
                /\ ReadReplies(Append(s, x)) = ReadReplies(s) + 1
                /\ ModifyReplies(Append(s, x)) = ModifyReplies(s)
           /\ x.kind = "modify" =>
                /\ Notifications(Append(s, x)) = Notifications(s)
                /\ ReadReplies(Append(s, x)) = ReadReplies(s)
                /\ ModifyReplies(Append(s, x)) = ModifyReplies(s) + 1
<1>1. Notifications(s) \in Nat /\ ReadReplies(s) \in Nat /\ ModifyReplies(s) \in Nat
  BY MessageCounts
<1>2. CASE x.kind = "notification" BY <1>1, <1>2, PushCounts
<1>3. CASE x.kind = "read" BY <1>1, <1>3, PushCounts
<1>4. CASE x.kind = "modify" BY <1>1, <1>4, PushCounts
<1>5. QED BY <1>2, <1>3, <1>4

LEMMA Leaves ==
    ASSUME NEW s \in Seq(Message), s # <<>>
    PROVE  /\ Head(s) \in Message /\ Head(s).kind \in {"notification", "modify", "read"}
           /\ Tail(s) \in Seq(Message)
           /\ Notifications(Tail(s)) \in Nat /\ ReadReplies(Tail(s)) \in Nat
           /\ ModifyReplies(Tail(s)) \in Nat
           /\ Head(s).kind = "notification" =>
                /\ Notifications(s) = Notifications(Tail(s)) + 1
                /\ ReadReplies(s) = ReadReplies(Tail(s))
                /\ ModifyReplies(s) = ModifyReplies(Tail(s))
           /\ Head(s).kind = "read" =>
                /\ Notifications(s) = Notifications(Tail(s))
                /\ ReadReplies(s) = ReadReplies(Tail(s)) + 1
                /\ ModifyReplies(s) = ModifyReplies(Tail(s))
           /\ Head(s).kind = "modify" =>
                /\ Notifications(s) = Notifications(Tail(s))
                /\ ReadReplies(s) = ReadReplies(Tail(s))
                /\ ModifyReplies(s) = ModifyReplies(Tail(s)) + 1
<1>1. /\ Head(s) \in Message /\ Tail(s) \in Seq(Message)
  BY PopCounts
<1>2. Head(s).kind \in {"notification", "modify", "read"} BY <1>1 DEF Message
<1>3. /\ Notifications(Tail(s)) \in Nat /\ ReadReplies(Tail(s)) \in Nat
      /\ ModifyReplies(Tail(s)) \in Nat
  BY <1>1, MessageCounts
<1>4. CASE Head(s).kind = "notification" BY <1>1, <1>2, <1>3, <1>4, PopCounts
<1>5. CASE Head(s).kind = "read" BY <1>1, <1>2, <1>3, <1>5, PopCounts
<1>6. CASE Head(s).kind = "modify" BY <1>1, <1>2, <1>3, <1>6, PopCounts
<1>7. QED BY <1>2, <1>4, <1>5, <1>6

(* ... and for the queue of requests. *)
LEMMA ReadsCounted == \A s : Reads(s) = Count(s, {"read"})
<1>1. \A s : {i \in 1 .. Len(s) : s[i] = "read"} = {i \in 1 .. Len(s) : s[i] \in {"read"}}
  OBVIOUS
<1>2. QED BY <1>1 DEF Reads, Count

LEMMA RequestCounts ==
    ASSUME NEW s \in Seq({"read", "modify"})
    PROVE  Reads(s) \in Nat /\ Modifies(s) \in Nat
BY Counting, ReadsCounted DEF Modifies

LEMMA AskCounts ==
    ASSUME NEW s \in Seq({"read", "modify"}), NEW x \in {"read", "modify"}
    PROVE  /\ Append(s, x) \in Seq({"read", "modify"})
           /\ Reads(Append(s, x)) = Reads(s) + (IF x = "read" THEN 1 ELSE 0)
           /\ Modifies(Append(s, x)) = Modifies(s) + (IF x = "modify" THEN 1 ELSE 0)
<1>1. \A k : Count(Append(s, x), {k}) = Count(s, {k}) + (IF x = k THEN 1 ELSE 0)
  <2> SUFFICES ASSUME NEW k
               PROVE  Count(Append(s, x), {k}) = Count(s, {k}) + (IF x = k THEN 1 ELSE 0)
    OBVIOUS
  <2>1. Count(Append(s, x), {k}) = Count(s, {k}) + (IF x \in {k} THEN 1 ELSE 0) BY CountAppend
  <2>2. QED BY <2>1
<1>2. Append(s, x) \in Seq({"read", "modify"}) OBVIOUS
<1>3. QED BY <1>1, <1>2, ReadsCounted DEF Modifies

LEMMA TakeCounts ==
    ASSUME NEW s \in Seq({"read", "modify"}), s # <<>>
    PROVE  /\ Tail(s) \in Seq({"read", "modify"})
           /\ Reads(s) = Reads(Tail(s)) + (IF Head(s) = "read" THEN 1 ELSE 0)
           /\ Modifies(s) = Modifies(Tail(s)) + (IF Head(s) = "modify" THEN 1 ELSE 0)
<1>1. \A k : Count(s, {k}) = Count(Tail(s), {k}) + (IF Head(s) = k THEN 1 ELSE 0)
  <2> SUFFICES ASSUME NEW k
               PROVE  Count(s, {k}) = Count(Tail(s), {k}) + (IF Head(s) = k THEN 1 ELSE 0)
    OBVIOUS
  <2>1. Count(s, {k}) = Count(Tail(s), {k}) + (IF Head(s) \in {k} THEN 1 ELSE 0) BY CountTail
  <2>2. QED BY <2>1
<1>2. Tail(s) \in Seq({"read", "modify"}) OBVIOUS
<1>3. QED BY <1>1, <1>2, ReadsCounted DEF Modifies

(* A line with no notification before a read stays one. *)
LEMMA JoinLine ==
    ASSUME NEW s \in Seq(Message), NEW x \in Message, NoneBeforeRead(s),
           x.kind = "read" => Notifications(s) = 0
    PROVE  NoneBeforeRead(Append(s, x))
<1>1. x.kind = "read" => \A i \in 1 .. Len(s) : s[i].kind # "notification"
  <2>1. \A i \in 1 .. Len(s) : s[i] \in Message OBVIOUS
  <2>2. Notifications(s) = 0 => \A i \in 1 .. Len(s) : s[i] \notin Kind("notification")
    BY Counting, NotificationsCounted
  <2>3. QED BY <2>1, <2>2 DEF Kind
<1>2. /\ Len(s) \in Nat /\ Len(Append(s, x)) = Len(s) + 1 /\ Append(s, x)[Len(s) + 1] = x
      /\ \A i \in 1 .. Len(s) : Append(s, x)[i] = s[i]
  OBVIOUS
<1>3. ASSUME NEW i \in 1 .. Len(Append(s, x)), NEW j \in 1 .. Len(Append(s, x)),
             i < j, Append(s, x)[j].kind = "read"
      PROVE  Append(s, x)[i].kind # "notification"
  <2>1. i \in 1 .. Len(s) BY <1>2, <1>3
  <2>2. CASE j = Len(s) + 1 BY <1>1, <1>2, <1>3, <2>1, <2>2
  <2>3. CASE j \in 1 .. Len(s) BY <1>2, <1>3, <2>1, <2>3 DEF NoneBeforeRead
  <2>4. QED BY <1>2, <2>2, <2>3
<1>4. QED BY <1>3 DEF NoneBeforeRead

LEMMA LeaveLine ==
    ASSUME NEW s \in Seq(Message), s # <<>>, NoneBeforeRead(s)
    PROVE  /\ NoneBeforeRead(Tail(s))
           /\ ReadReplies(Tail(s)) > 0 => Head(s).kind # "notification"
<1>1. /\ Tail(s) \in Seq(Message) /\ Len(s) \in Nat /\ Len(s) >= 1 /\ Head(s) = s[1]
      /\ Len(Tail(s)) = Len(s) - 1 /\ \A i \in 1 .. Len(Tail(s)) : Tail(s)[i] = s[i + 1]
  OBVIOUS
<1>2. \A i \in 1 .. Len(Tail(s)) : i + 1 \in 1 .. Len(s) /\ 1 < i + 1 BY <1>1
<1>3. NoneBeforeRead(Tail(s))
  <2>1. \A i, j \in 1 .. Len(Tail(s)) : i < j => i + 1 < j + 1 BY <1>1
  <2>2. QED BY <1>1, <1>2, <2>1 DEF NoneBeforeRead
<1>4. ASSUME ReadReplies(Tail(s)) > 0 PROVE Head(s).kind # "notification"
  <2>1. PICK i \in 1 .. Len(Tail(s)) : Tail(s)[i] \in Kind("read")
    <3> DEFINE I == {i \in 1 .. Len(Tail(s)) : Tail(s)[i] \in Kind("read")}
    <3>1. ReadReplies(Tail(s)) # 0 BY <1>4
    <3>2. Cardinality(I) # 0 BY <3>1, Zenon DEF ReadReplies, Count
    <3>3. I # {}
      <4> HIDE DEF I
      <4>1. QED BY <3>2, FS_EmptySet, Zenon
    <3>4. QED BY <3>3
  <2>2. s[i + 1].kind = "read" BY <1>1, <2>1 DEF Kind
  <2>3. 1 \in 1 .. Len(s) BY <1>1
  <2>4. QED BY <1>1, <1>2, <2>2, <2>3 DEF NoneBeforeRead
<1>5. QED BY <1>3, <1>4

----------------------------------------------------------------------------
Numeric ==
    /\ Notifications(outbox) \in Nat /\ Notifications(toClient) \in Nat
    /\ ReadReplies(outbox) \in Nat /\ ReadReplies(toClient) \in Nat
    /\ ModifyReplies(outbox) \in Nat /\ ModifyReplies(toClient) \in Nat
    /\ Reads(toServer) \in Nat /\ Modifies(toServer) \in Nat /\ Replies \in Nat
    /\ handing \in Nat /\ reads \in Nat /\ finishing \in Nat /\ modifies \in Nat

LEMMA Numbers == ASSUME Inv PROVE Numeric
BY MessageCounts, RequestCounts DEF Inv, TypeOK, Numeric, Replies

LEMMA OrderInitially == Init => OrderInv
<1> SUFFICES ASSUME Init PROVE OrderInv
  OBVIOUS
<1>1. /\ outbox = <<>> /\ toClient = <<>> /\ toServer = <<>> /\ filled = <<>>
      /\ handing = 0 /\ reads = 0 /\ finishing = 0 /\ modifies = 0
      /\ canSendNotification = TRUE /\ deferNotification = FALSE /\ deferredNotification = FALSE
      /\ owed = FALSE /\ client = "idle"
  BY DEF Init
<1>2. <<>> \in Seq(Message) OBVIOUS
<1>3. /\ Notifications(<<>>) = 0 /\ Reads(<<>>) = 0 /\ ReadReplies(<<>>) = 0
      /\ ModifyReplies(<<>>) = 0 /\ Modifies(<<>>) = 0 /\ Len(<<>>) = 0
  BY <1>2, CountEmpty, NotificationsCounted, ReadsCounted DEF ReadReplies, ModifyReplies, Modifies
<1>4. OneNotification BY <1>1, <1>3 DEF OneNotification
<1>5. AtWork /\ HeldBack BY <1>1, <1>3 DEF AtWork, HeldBack, Replies
<1>6. Asked BY <1>1, <1>3 DEF Asked, Replies
<1>7. InLine /\ InOrder BY <1>1, <1>3 DEF InLine, NoneBeforeRead, InOrder
<1>8. QED BY <1>4, <1>5, <1>6, <1>7 DEF OrderInv

(* What the one notification leaves out. *)
LEMMA Alone ==
    ASSUME Inv, OrderInv, ~closed
    PROVE  /\ canSendNotification =>
                /\ ~deferredNotification /\ handing = 0 /\ ~owed
                /\ Notifications(outbox) = 0 /\ Notifications(toClient) = 0 /\ Reads(toServer) = 0
           /\ deferredNotification => Notifications(outbox) = 0 /\ Notifications(toClient) = 0
           /\ Reads(toServer) > 0 =>
                /\ ~canSendNotification /\ ~deferredNotification /\ handing = 0 /\ ~owed
                /\ Notifications(outbox) = 0 /\ Notifications(toClient) = 0 /\ Reads(toServer) = 1
           /\ Notifications(toClient) > 0 =>
                /\ ~canSendNotification /\ ~deferredNotification /\ ~owed /\ Reads(toServer) = 0
<1>1. Numeric BY Numbers, Zenon
<1>2. /\ canSendNotification \in BOOLEAN /\ deferredNotification \in BOOLEAN /\ owed \in BOOLEAN
  BY DEF Inv, TypeOK
<1>3. handing \in Nat BY <1>1 DEF Numeric
<1>4. PICK a \in Nat, b \in Nat, r \in Nat :
         a = Notifications(outbox) /\ b = Notifications(toClient) /\ r = Reads(toServer)
  BY <1>1 DEF Numeric
<1>5. (IF deferredNotification THEN 1 ELSE 0) + handing + (IF owed THEN 1 ELSE 0) + a + b + r
        = (IF canSendNotification THEN 0 ELSE 1)
  BY <1>4 DEF OrderInv, OneNotification
<1>6. canSendNotification =>
        ~deferredNotification /\ handing = 0 /\ ~owed /\ a = 0 /\ b = 0 /\ r = 0
  BY <1>2, <1>3, <1>5
<1>7. deferredNotification => a = 0 /\ b = 0
  BY <1>2, <1>3, <1>5
<1>8. r > 0 => /\ ~canSendNotification /\ ~deferredNotification /\ handing = 0 /\ ~owed
               /\ a = 0 /\ b = 0 /\ r = 1
  BY <1>2, <1>3, <1>5
<1>9. b > 0 => ~canSendNotification /\ ~deferredNotification /\ ~owed /\ r = 0
  BY <1>2, <1>3, <1>5
<1>10. QED BY <1>4, <1>6, <1>7, <1>8, <1>9

(* A read is at work exactly while notifications are held back. *)
LEMMA Busy ==
    ASSUME Inv, OrderInv, ~closed
    PROVE  /\ reads > 0 \/ Replies > 0 \/ finishing > 0 => deferNotification
           /\ ~deferNotification => reads = 0 /\ Replies = 0 /\ finishing = 0
           /\ deferNotification => reads + Replies + finishing = 1
<1>1. Numeric BY Numbers, Zenon
<1>2. deferNotification \in BOOLEAN BY DEF Inv, TypeOK
<1>3. PICK a \in Nat, b \in Nat, c \in Nat : a = reads /\ b = Replies /\ c = finishing
  BY <1>1 DEF Numeric
<1>4. a + b + c = IF deferNotification THEN 1 ELSE 0 BY <1>3 DEF OrderInv, AtWork
<1>5. /\ a > 0 \/ b > 0 \/ c > 0 => deferNotification
      /\ ~deferNotification => a = 0 /\ b = 0 /\ c = 0
      /\ deferNotification => a + b + c = 1
  BY <1>2, <1>4
<1>6. QED BY <1>3, <1>5

(* _sendNotification sets one of the two, or neither, and clears the flag with it. *)
LEMMA OrderNotification ==
    ASSUME Inv, OrderInv, ~closed, SendNotification,
           UNCHANGED <<outbox, toClient, toServer, filled, reads, finishing, modifies, client,
                       owed, closed>>
    PROVE  OrderInv'
<1>1. Numeric BY Numbers, Zenon
<1>2. /\ canSendNotification \in BOOLEAN /\ deferNotification \in BOOLEAN
      /\ deferredNotification \in BOOLEAN /\ owed \in BOOLEAN
  BY DEF Inv, TypeOK
<1>3. \/ ~canSendNotification /\ UNCHANGED <<canSendNotification, deferredNotification, handing>>
      \/ /\ canSendNotification /\ canSendNotification' = FALSE /\ deferNotification
         /\ deferredNotification' = TRUE /\ handing' = handing
      \/ /\ canSendNotification /\ canSendNotification' = FALSE /\ ~deferNotification
         /\ deferredNotification' = deferredNotification /\ handing' = handing + 1
  BY <1>2, Zenon DEF SendNotification
<1>4. deferNotification' = deferNotification BY DEF SendNotification
<1>5. OneNotification'
  <2>1. canSendNotification =>
          /\ ~deferredNotification /\ handing = 0 /\ ~owed
          /\ Notifications(outbox) = 0 /\ Notifications(toClient) = 0 /\ Reads(toServer) = 0
    BY Alone, Zenon
  <2>2. CASE ~canSendNotification BY <1>2, <1>3, <2>2 DEF OrderInv, OneNotification
  <2>3. CASE canSendNotification BY <1>2, <1>3, <2>1, <2>3 DEF OneNotification
  <2>4. QED BY <2>2, <2>3
<1>6. AtWork' BY <1>4 DEF OrderInv, AtWork, Replies
<1>7. HeldBack' BY <1>2, <1>3, <1>4 DEF OrderInv, HeldBack
<1>8. Asked' /\ InLine' /\ InOrder' BY DEF OrderInv, Asked, InLine, InOrder, Replies
<1>9. QED BY <1>5, <1>6, <1>7, <1>8 DEF OrderInv

LEMMA OrderPushNotification ==
    ASSUME Inv, OrderInv, ~closed, PushNotification
    PROVE  OrderInv'
<1>1. Numeric BY Numbers, Zenon
<1>2. Notification \in Message /\ Notification.kind = "notification" BY DEF Notification, Message
<1>3. ~destroyed BY DEF Inv, GoneAfterClient
<1>4. outbox \in Seq(Message) /\ outbox' = Append(outbox, Notification)
  BY <1>3 DEF PushNotification, Inv, TypeOK
<1>5. /\ handing > 0 /\ handing' = handing - 1
      /\ UNCHANGED <<canSendNotification, deferNotification, deferredNotification, toClient,
                     toServer, filled, reads, finishing, modifies, client, owed, closed>>
  BY DEF PushNotification, taskVars, clientVars
<1>6. /\ Notifications(outbox') = Notifications(outbox) + 1
      /\ UNCHANGED <<ReadReplies(outbox), ModifyReplies(outbox)>>
  BY <1>2, <1>4, Joins
<1>7. OneNotification' BY <1>1, <1>5, <1>6 DEF Numeric, OrderInv, OneNotification
<1>8. AtWork' /\ HeldBack' BY <1>5 DEF OrderInv, AtWork, HeldBack, Replies
<1>9. Asked' BY <1>5, <1>6 DEF OrderInv, Asked, Replies
<1>10. InLine'
  <2>1. NoneBeforeRead(outbox') BY <1>2, <1>4, JoinLine DEF OrderInv, InLine
  <2>2. QED BY <1>5, <1>6, <2>1 DEF OrderInv, InLine
<1>11. InOrder' BY <1>5 DEF OrderInv, InOrder
<1>12. QED BY <1>7, <1>8, <1>9, <1>10, <1>11 DEF OrderInv

(* A message that is sent changes queues. *)
LEMMA OrderSend ==
    ASSUME Inv, OrderInv, ~closed, Send
    PROVE  OrderInv'
<1> DEFINE m == Head(outbox)
<1>1. Numeric BY Numbers, Zenon
<1>2. /\ outbox \in Seq(Message) /\ outbox # <<>> /\ toClient \in Seq(Message)
      /\ outbox' = Tail(outbox) /\ toClient' = Append(toClient, m)
  BY DEF Send, Inv, TypeOK
<1>3. UNCHANGED <<canSendNotification, deferNotification, deferredNotification, handing,
                  toServer, filled, reads, finishing, modifies, client, owed, closed>>
  BY DEF Send, notificationVars, clientVars
<1>4. m \in Message /\ m.kind \in {"notification", "modify", "read"} BY <1>2, Leaves
<1>5. /\ Notifications(outbox') \in Nat /\ ReadReplies(outbox') \in Nat
      /\ ModifyReplies(outbox') \in Nat
  BY <1>2, Leaves
<1>6. m.kind = "notification" =>
        /\ Notifications(outbox) = Notifications(outbox') + 1
        /\ Notifications(toClient') = Notifications(toClient) + 1
        /\ UNCHANGED <<ReadReplies(outbox), ReadReplies(toClient)>>
        /\ UNCHANGED <<ModifyReplies(outbox), ModifyReplies(toClient)>>
  BY <1>2, <1>4, Leaves, Joins
<1>7. m.kind = "read" =>
        /\ ReadReplies(outbox) = ReadReplies(outbox') + 1
        /\ ReadReplies(toClient') = ReadReplies(toClient) + 1
        /\ UNCHANGED <<Notifications(outbox), Notifications(toClient)>>
        /\ UNCHANGED <<ModifyReplies(outbox), ModifyReplies(toClient)>>
  BY <1>2, <1>4, Leaves, Joins
<1>8. m.kind = "modify" =>
        /\ ModifyReplies(outbox) = ModifyReplies(outbox') + 1
        /\ ModifyReplies(toClient') = ModifyReplies(toClient) + 1
        /\ UNCHANGED <<Notifications(outbox), Notifications(toClient)>>
        /\ UNCHANGED <<ReadReplies(outbox), ReadReplies(toClient)>>
  BY <1>2, <1>4, Leaves, Joins
<1>9. InLine'
  <2>1. NoneBeforeRead(outbox) /\ NoneBeforeRead(toClient) BY DEF OrderInv, InLine
  <2>2. NoneBeforeRead(outbox') BY <1>2, <2>1, LeaveLine
  <2>3. ReadReplies(outbox') > 0 => m.kind # "notification" BY <1>2, <2>1, LeaveLine
  <2>4. ReadReplies(outbox) > 0 => Notifications(toClient) = 0 BY DEF OrderInv, InLine
  <2> HIDE DEF m
  <2>5. m.kind = "read" => Notifications(toClient) = 0 BY <1>5, <1>7, <2>4
  <2>6. NoneBeforeRead(toClient') BY <1>2, <1>4, <2>1, <2>5, JoinLine
  <2>7. ReadReplies(outbox') > 0 => Notifications(toClient') = 0
    <3>1. CASE m.kind = "read" BY <1>7, <2>5, <3>1
    <3>2. CASE m.kind = "modify" BY <1>8, <2>4, <3>2
    <3>3. QED BY <1>4, <2>3, <3>1, <3>2
  <2>8. QED BY <2>2, <2>6, <2>7 DEF InLine
<1> HIDE DEF m
<1>10. OneNotification'
  <2>1. CASE m.kind = "notification"
    BY <1>1, <1>3, <1>5, <1>6, <2>1 DEF Numeric, OrderInv, OneNotification
  <2>2. CASE m.kind # "notification"
    BY <1>3, <1>4, <1>7, <1>8, <2>2 DEF OrderInv, OneNotification
  <2>3. QED BY <2>1, <2>2
<1>11. AtWork' /\ HeldBack' BY <1>3 DEF OrderInv, AtWork, HeldBack, Replies
<1>12. Asked'
  <2>1. UNCHANGED Replies BY <1>3 DEF Replies
  <2>2. CASE m.kind = "notification" BY <1>3, <1>6, <2>1, <2>2 DEF OrderInv, Asked
  <2>3. CASE m.kind = "read"
    BY <1>1, <1>3, <1>5, <1>7, <2>1, <2>3 DEF Numeric, OrderInv, Asked
  <2>4. CASE m.kind = "modify"
    BY <1>1, <1>3, <1>5, <1>8, <2>1, <2>4 DEF Numeric, OrderInv, Asked
  <2>5. QED BY <1>4, <2>2, <2>3, <2>4
<1>13. InOrder' BY <1>3 DEF OrderInv, InOrder
<1>14. QED BY <1>9, <1>10, <1>11, <1>12, <1>13 DEF OrderInv

(* A read that arrives is what the one notification has become, so notifications
   are not held back yet and nothing else is at work. *)
LEMMA OrderReceiveRead ==
    ASSUME Inv, OrderInv, ~closed, ReceiveRead
    PROVE  OrderInv'
<1>1. Numeric BY Numbers, Zenon
<1>2. /\ toServer \in Seq({"read", "modify"}) /\ toServer # <<>> /\ Head(toServer) = "read"
      /\ toServer' = Tail(toServer)
  BY DEF ReceiveRead, Inv, TypeOK
<1>3. /\ canSendNotification' = TRUE /\ deferNotification' = TRUE /\ reads' = reads + 1
      /\ UNCHANGED <<deferredNotification, handing, outbox, toClient, filled, finishing, modifies,
                     client, owed, closed>>
  BY DEF ReceiveRead
<1>4. /\ Reads(toServer) = Reads(toServer') + 1 /\ Modifies(toServer) = Modifies(toServer')
      /\ Reads(toServer') \in Nat /\ Modifies(toServer') \in Nat
  <2>1. /\ toServer' \in Seq({"read", "modify"})
        /\ Reads(toServer) = Reads(toServer') + 1 /\ Modifies(toServer) = Modifies(toServer') + 0
    BY <1>2, TakeCounts
  <2>2. QED BY <2>1, RequestCounts
<1>5. /\ canSendNotification \in BOOLEAN /\ deferNotification \in BOOLEAN
      /\ deferredNotification \in BOOLEAN /\ owed \in BOOLEAN
  BY DEF Inv, TypeOK
<1>6. /\ ~canSendNotification /\ ~deferredNotification /\ ~owed /\ handing = 0
      /\ Notifications(outbox) = 0 /\ Notifications(toClient) = 0 /\ Reads(toServer') = 0
  <2>1. Reads(toServer) > 0 BY <1>4
  <2>2. /\ ~canSendNotification /\ ~deferredNotification /\ ~owed /\ handing = 0
        /\ Notifications(outbox) = 0 /\ Notifications(toClient) = 0 /\ Reads(toServer) = 1
    BY <2>1, Alone, Zenon
  <2>3. QED BY <1>4, <2>2
<1>7. ~deferNotification BY <1>5, <1>6 DEF OrderInv, HeldBack
<1>8. reads = 0 /\ Replies = 0 /\ finishing = 0 /\ UNCHANGED Replies
  <2>1. reads = 0 /\ Replies = 0 /\ finishing = 0 BY <1>7, Busy, Zenon
  <2>2. QED BY <1>3, <2>1 DEF Replies
<1>9. OneNotification' BY <1>3, <1>6 DEF OneNotification
<1>10. AtWork' /\ HeldBack' BY <1>3, <1>8 DEF AtWork, HeldBack
<1>11. Asked' BY <1>1, <1>3, <1>4, <1>8 DEF Numeric, OrderInv, Asked
<1>12. InLine' /\ InOrder' BY <1>3 DEF OrderInv, InLine, InOrder
<1>13. QED BY <1>9, <1>10, <1>11, <1>12 DEF OrderInv

LEMMA OrderReceiveModify ==
    ASSUME Inv, OrderInv, ~closed, ReceiveModify
    PROVE  OrderInv'
<1>1. Numeric BY Numbers, Zenon
<1>2. /\ toServer \in Seq({"read", "modify"}) /\ toServer # <<>> /\ Head(toServer) = "modify"
      /\ toServer' = Tail(toServer)
  BY DEF ReceiveModify, Inv, TypeOK
<1>3. /\ modifies' = modifies + 1
      /\ UNCHANGED <<canSendNotification, deferNotification, deferredNotification, handing,
                     outbox, toClient, reads, filled, finishing, client, owed, closed>>
  BY DEF ReceiveModify, notificationVars
<1>4. /\ Reads(toServer) = Reads(toServer') /\ Modifies(toServer) = Modifies(toServer') + 1
      /\ Reads(toServer') \in Nat /\ Modifies(toServer') \in Nat
  <2>1. /\ toServer' \in Seq({"read", "modify"})
        /\ Reads(toServer) = Reads(toServer') + 0 /\ Modifies(toServer) = Modifies(toServer') + 1
    BY <1>2, TakeCounts
  <2>2. QED BY <2>1, RequestCounts
<1>5. OneNotification' BY <1>3, <1>4 DEF OrderInv, OneNotification
<1>6. AtWork' /\ HeldBack' BY <1>3 DEF OrderInv, AtWork, HeldBack, Replies
<1>7. Asked'
  <2>1. UNCHANGED Replies BY <1>3 DEF Replies
  <2>2. QED BY <1>1, <1>3, <1>4, <2>1 DEF Numeric, OrderInv, Asked
<1>8. InLine' /\ InOrder' BY <1>3 DEF OrderInv, InLine, InOrder
<1>9. QED BY <1>5, <1>6, <1>7, <1>8 DEF OrderInv

LEMMA OrderFill ==
    ASSUME Inv, OrderInv, ~closed, Fill
    PROVE  OrderInv'
<1>1. Numeric BY Numbers, Zenon
<1>2. /\ reads > 0 /\ reads' = reads - 1
      /\ UNCHANGED <<canSendNotification, deferNotification, deferredNotification, handing, owed,
                     outbox, toClient, toServer, finishing, modifies, client, closed>>
  BY DEF Fill, notificationVars, clientVars
<1>3. Replies' = Replies + 1
  <2>1. \E r : filled' = Append(filled, r) BY DEF Fill
  <2>2. filled \in Seq(Reply) BY DEF Inv, TypeOK
  <2>3. QED BY <2>1, <2>2 DEF Replies
<1>4. OneNotification' /\ HeldBack' BY <1>2 DEF OrderInv, OneNotification, HeldBack
<1>5. AtWork' BY <1>1, <1>2, <1>3 DEF Numeric, OrderInv, AtWork
<1>6. Asked' BY <1>1, <1>2, <1>3 DEF Numeric, OrderInv, Asked
<1>7. InLine' /\ InOrder' BY <1>2 DEF OrderInv, InLine, InOrder
<1>8. QED BY <1>4, <1>5, <1>6, <1>7 DEF OrderInv

(* While a reply is to be pushed the one notification is held back: none is in the
   queues the reply joins. *)
LEMMA OrderPushReply ==
    ASSUME Inv, OrderInv, ~closed, PushReply
    PROVE  OrderInv'
<1>1. Numeric BY Numbers, Zenon
<1>2. /\ filled \in Seq(Reply) /\ filled # <<>> /\ outbox \in Seq(Message)
      /\ filled' = Tail(filled) /\ outbox' = Append(outbox, Head(filled))
  BY DEF PushReply, Inv, TypeOK
<1>3. /\ finishing' = finishing + 1
      /\ UNCHANGED <<canSendNotification, deferNotification, deferredNotification, handing, owed,
                     toClient, toServer, reads, modifies, client, closed>>
  BY DEF PushReply, notificationVars, clientVars
<1>4. Head(filled) \in Message /\ Head(filled).kind = "read"
  <2>1. Head(filled) \in Reply BY <1>2
  <2>2. QED BY <2>1 DEF Reply, Message
<1>5. PICK n \in Nat : Replies' = n /\ Replies = n + 1 BY <1>2 DEF Replies
<1>6. /\ ReadReplies(outbox') = ReadReplies(outbox) + 1
      /\ UNCHANGED <<Notifications(outbox), ModifyReplies(outbox)>>
  BY <1>2, <1>4, Joins
<1>7. /\ canSendNotification \in BOOLEAN /\ deferNotification \in BOOLEAN
      /\ deferredNotification \in BOOLEAN
  BY DEF Inv, TypeOK
<1>8. deferNotification
  <2>1. Replies > 0 BY <1>5
  <2>2. QED BY <2>1, Busy, Zenon
<1>9. canSendNotification \/ deferredNotification BY <1>8 DEF OrderInv, HeldBack
<1>10. Notifications(outbox) = 0 /\ Notifications(toClient) = 0 BY <1>9, Alone, Zenon
<1>11. OneNotification' /\ HeldBack' BY <1>3, <1>6 DEF OrderInv, OneNotification, HeldBack
<1>12. AtWork'
  <2>1. reads \in Nat /\ finishing \in Nat BY <1>1 DEF Numeric
  <2>2. reads + Replies + finishing = 1 BY <1>8, Busy, Zenon
  <2>3. reads + Replies' + (finishing + 1) = 1 BY <1>5, <2>1, <2>2
  <2>4. QED BY <1>3, <1>8, <2>3 DEF AtWork
<1>13. Asked' BY <1>1, <1>3, <1>5, <1>6 DEF Numeric, OrderInv, Asked
<1>14. InLine'
  <2>1. NoneBeforeRead(outbox') BY <1>2, <1>4, <1>10, JoinLine DEF OrderInv, InLine
  <2>2. QED BY <1>3, <1>10, <2>1 DEF OrderInv, InLine
<1>15. InOrder' BY <1>3 DEF OrderInv, InOrder
<1>16. QED BY <1>11, <1>12, <1>13, <1>14, <1>15 DEF OrderInv

LEMMA OrderSendDeferred ==
    ASSUME Inv, OrderInv, ~closed, SendDeferredNotification
    PROVE  OrderInv'
<1>1. Numeric BY Numbers, Zenon
<1>2. /\ finishing > 0 /\ finishing' = finishing - 1 /\ deferNotification' = FALSE
      /\ deferredNotification' = FALSE
      /\ handing' = IF deferredNotification THEN handing + 1 ELSE handing
      /\ UNCHANGED <<canSendNotification, outbox, toClient, toServer, filled, reads, modifies,
                     client, owed, closed>>
  BY DEF SendDeferredNotification, clientVars
<1>3. UNCHANGED Replies BY <1>2 DEF Replies
<1>4. deferNotification \in BOOLEAN /\ deferredNotification \in BOOLEAN BY DEF Inv, TypeOK
<1>5. OneNotification'
  <2>1. CASE deferredNotification
    BY <1>1, <1>2, <2>1 DEF Numeric, OrderInv, OneNotification
  <2>2. CASE ~deferredNotification BY <1>2, <1>4, <2>2 DEF OrderInv, OneNotification
  <2>3. QED BY <2>1, <2>2
<1>6. AtWork' BY <1>1, <1>2, <1>3, <1>4 DEF Numeric, OrderInv, AtWork
<1>7. HeldBack' BY <1>2 DEF HeldBack
<1>8. Asked' BY <1>2, <1>3 DEF OrderInv, Asked
<1>9. InLine' /\ InOrder' BY <1>2 DEF OrderInv, InLine, InOrder
<1>10. QED BY <1>5, <1>6, <1>7, <1>8, <1>9 DEF OrderInv

LEMMA OrderPushModifyReply ==
    ASSUME Inv, OrderInv, ~closed, PushModifyReply
    PROVE  OrderInv'
<1>1. Numeric BY Numbers, Zenon
<1>2. ModifyReply \in Message /\ ModifyReply.kind = "modify" BY DEF ModifyReply, Message
<1>3. outbox \in Seq(Message) /\ outbox' = Append(outbox, ModifyReply)
  BY DEF PushModifyReply, Inv, TypeOK
<1>4. /\ modifies > 0 /\ modifies' = modifies - 1
      /\ UNCHANGED <<canSendNotification, deferNotification, deferredNotification, handing,
                     toClient, toServer, reads, filled, finishing, client, owed, closed>>
  BY DEF PushModifyReply, notificationVars, clientVars
<1>5. /\ ModifyReplies(outbox') = ModifyReplies(outbox) + 1
      /\ UNCHANGED <<Notifications(outbox), ReadReplies(outbox)>>
  BY <1>2, <1>3, Joins
<1>6. OneNotification' BY <1>4, <1>5 DEF OrderInv, OneNotification
<1>7. AtWork' /\ HeldBack' BY <1>4 DEF OrderInv, AtWork, HeldBack, Replies
<1>8. Asked'
  <2>1. UNCHANGED Replies BY <1>4 DEF Replies
  <2>2. QED BY <1>1, <1>4, <1>5, <2>1 DEF Numeric, OrderInv, Asked
<1>9. InLine'
  <2>1. NoneBeforeRead(outbox') BY <1>2, <1>3, JoinLine DEF OrderInv, InLine
  <2>2. QED BY <1>4, <1>5, <2>1 DEF OrderInv, InLine
<1>10. InOrder' BY <1>4 DEF OrderInv, InOrder
<1>11. QED BY <1>6, <1>7, <1>8, <1>9, <1>10 DEF OrderInv

(* The client takes up the notification: it becomes a read. *)
LEMMA OrderClientNotified ==
    ASSUME Inv, OrderInv, ~closed, ClientNotified
    PROVE  OrderInv'
<1>1. Numeric BY Numbers, Zenon
<1>2. /\ toServer \in Seq({"read", "modify"}) /\ toServer' = Append(toServer, "read")
      /\ toClient \in Seq(Message)
  BY DEF ClientNotified, Inv, TypeOK
<1>3. /\ client = "idle" /\ client' = "reading" /\ owed' = FALSE
      /\ UNCHANGED <<canSendNotification, deferNotification, deferredNotification, handing,
                     outbox, reads, filled, finishing, modifies, closed>>
  BY DEF ClientNotified, notificationVars, taskVars
<1>4. Reads(toServer') = Reads(toServer) + 1 /\ UNCHANGED Modifies(toServer)
  <2>1. Reads(toServer') = Reads(toServer) + 1 /\ Modifies(toServer') = Modifies(toServer) + 0
    BY <1>2, AskCounts
  <2>2. QED BY <1>1, <2>1 DEF Numeric
<1>5. AtWork' /\ HeldBack' BY <1>3 DEF OrderInv, AtWork, HeldBack, Replies
<1>6. InOrder' BY <1>3 DEF InOrder
<1>7. UNCHANGED Replies BY <1>3 DEF Replies
<1>8. /\ (Reads(toServer) + 1) + reads + Replies + ReadReplies(outbox) + ReadReplies(toClient) = 1
      /\ Modifies(toServer) + modifies + ModifyReplies(outbox) + ModifyReplies(toClient) = 0
  <2>1. /\ Reads(toServer) + reads + Replies + ReadReplies(outbox) + ReadReplies(toClient) = 0
        /\ Modifies(toServer) + modifies + ModifyReplies(outbox) + ModifyReplies(toClient) = 0
    BY <1>3 DEF OrderInv, Asked
  <2>2. QED BY <1>1, <2>1 DEF Numeric
<1>9. CASE owed
  <2>1. UNCHANGED toClient BY <1>9 DEF ClientNotified
  <2>2. OneNotification' BY <1>1, <1>3, <1>4, <1>9, <2>1 DEF Numeric, OrderInv, OneNotification
  <2>3. Asked' BY <1>3, <1>4, <1>7, <1>8, <2>1 DEF Asked
  <2>4. InLine' BY <1>3, <2>1 DEF OrderInv, InLine
  <2>5. QED BY <1>5, <1>6, <2>2, <2>3, <2>4 DEF OrderInv
<1>10. CASE ~owed
  <2>1. /\ toClient # <<>> /\ Head(toClient).kind = "notification"
        /\ toClient' = Tail(toClient)
    BY <1>10 DEF ClientNotified
  <2>2. PICK n \in Nat : Notifications(toClient') = n /\ Notifications(toClient) = n + 1
    BY <1>2, <2>1, Leaves
  <2>3. UNCHANGED <<ReadReplies(toClient), ModifyReplies(toClient)>> BY <1>2, <2>1, Leaves
  <2>4. OneNotification' BY <1>1, <1>3, <1>4, <1>10, <2>2 DEF Numeric, OrderInv, OneNotification
  <2>5. Asked' BY <1>3, <1>4, <1>7, <1>8, <2>3 DEF Asked
  <2>6. InLine'
    <3>1. NoneBeforeRead(toClient') BY <1>2, <2>1, LeaveLine DEF OrderInv, InLine
    <3>2. ReadReplies(outbox) > 0 => Notifications(toClient) = 0 BY DEF OrderInv, InLine
    <3>3. ~(ReadReplies(outbox) > 0) BY <2>2, <3>2
    <3>4. QED BY <1>3, <3>1, <3>3 DEF OrderInv, InLine
  <2>7. QED BY <1>5, <1>6, <2>4, <2>5, <2>6 DEF OrderInv
<1>11. QED BY <1>9, <1>10

(* The client waits for the reply to its read, and that is what comes: a modify reply
   it has not asked for, and a notification before the reply would be the one that is
   held back or has become the read. *)
LEMMA OrderClientReceivesRead ==
    ASSUME Inv, OrderInv, ~closed, ClientReceivesRead
    PROVE  OrderInv'
<1> DEFINE m == Head(toClient)
<1>1. Numeric BY Numbers, Zenon
<1>2. toClient \in Seq(Message) /\ toClient # <<>> /\ toClient' = Tail(toClient)
  BY DEF ClientReceivesRead, Inv, TypeOK
<1>3. /\ client = "reading" /\ client' = IF m.kind = "read" THEN "idle" ELSE "aborted"
      /\ UNCHANGED <<canSendNotification, deferNotification, deferredNotification, handing, owed,
                     outbox, toServer, reads, filled, finishing, modifies>>
  BY DEF ClientReceivesRead, notificationVars, taskVars
<1>4. m.kind \in {"notification", "modify", "read"} BY <1>2, Leaves
<1>5. Reads(toServer) + reads + Replies + ReadReplies(outbox) + ReadReplies(toClient) = 1
  BY <1>3 DEF OrderInv, Asked
<1>6. Modifies(toServer) + modifies + ModifyReplies(outbox) + ModifyReplies(toClient) = 0
  BY <1>3 DEF OrderInv, Asked
<1>7. m.kind # "modify"
  <2> SUFFICES ASSUME m.kind = "modify" PROVE FALSE
    OBVIOUS
  <2>1. PICK n \in Nat : ModifyReplies(toClient) = n + 1 BY <1>2, Leaves
  <2> HIDE DEF m
  <2>2. QED BY <1>1, <1>6, <2>1 DEF Numeric
<1>8. m.kind # "notification"
  <2> SUFFICES ASSUME m.kind = "notification" PROVE FALSE
    OBVIOUS
  <2>1. Notifications(toClient) > 0
    <3>1. PICK n \in Nat : Notifications(toClient) = n + 1 BY <1>2, Leaves
    <3>2. QED BY <3>1
  <2>2. ~canSendNotification /\ ~deferredNotification /\ Reads(toServer) = 0
    BY <2>1, Alone, Zenon
  <2>3. ~deferNotification BY <2>2 DEF OrderInv, HeldBack
  <2>4. reads = 0 /\ Replies = 0 BY <2>3, Busy, Zenon
  <2>5. ReadReplies(outbox) = 0
    <3>1. ReadReplies(outbox) > 0 => Notifications(toClient) = 0 BY DEF OrderInv, InLine
    <3>2. QED BY <1>1, <2>1, <3>1 DEF Numeric
  <2>6. ReadReplies(toClient) = 0
    <3>1. ~(ReadReplies(Tail(toClient)) > 0) BY <1>2, LeaveLine DEF OrderInv, InLine
    <3>2. ReadReplies(Tail(toClient)) \in Nat /\ ReadReplies(toClient) = ReadReplies(Tail(toClient))
      BY <1>2, Leaves
    <3> HIDE DEF m
    <3>3. QED BY <3>1, <3>2
  <2> HIDE DEF m
  <2>7. QED BY <1>5, <2>2, <2>4, <2>5, <2>6
<1>9. m.kind = "read" BY <1>4, <1>7, <1>8
<1>10. client' = "idle" BY <1>3, <1>9
<1>11. closed' = FALSE BY <1>9 DEF ClientReceivesRead
<1>12. PICK n \in Nat : ReadReplies(toClient') = n /\ ReadReplies(toClient) = n + 1
  BY <1>2, <1>9, Leaves
<1>13. UNCHANGED <<Notifications(toClient), ModifyReplies(toClient)>> BY <1>2, <1>9, Leaves
<1> HIDE DEF m
<1>14. OneNotification' BY <1>3, <1>13 DEF OrderInv, OneNotification
<1>15. AtWork' /\ HeldBack' BY <1>3 DEF OrderInv, AtWork, HeldBack, Replies
<1>16. Asked'
  <2>1. UNCHANGED Replies BY <1>3 DEF Replies
  <2>2. Reads(toServer) + reads + Replies + ReadReplies(outbox) + n = 0
    BY <1>1, <1>5, <1>12 DEF Numeric
  <2>3. QED BY <1>3, <1>6, <1>10, <1>12, <1>13, <2>1, <2>2 DEF Asked
<1>17. InLine'
  <2>1. NoneBeforeRead(toClient') BY <1>2, LeaveLine DEF OrderInv, InLine
  <2>2. QED BY <1>3, <1>13, <2>1 DEF OrderInv, InLine
<1>18. InOrder' BY <1>10 DEF InOrder
<1>19. QED BY <1>14, <1>15, <1>16, <1>17, <1>18 DEF OrderInv

LEMMA OrderClientModify ==
    ASSUME Inv, OrderInv, ~closed, ClientModify
    PROVE  OrderInv'
<1>1. Numeric BY Numbers, Zenon
<1>2. toServer \in Seq({"read", "modify"}) /\ toServer' = Append(toServer, "modify")
  BY DEF ClientModify, Inv, TypeOK
<1>3. /\ client = "idle" /\ client' = "modifying"
      /\ UNCHANGED <<canSendNotification, deferNotification, deferredNotification, handing, owed,
                     outbox, toClient, reads, filled, finishing, modifies, closed>>
  BY DEF ClientModify, notificationVars, taskVars
<1>4. Modifies(toServer') = Modifies(toServer) + 1 /\ UNCHANGED Reads(toServer)
  <2>1. Modifies(toServer') = Modifies(toServer) + 1 /\ Reads(toServer') = Reads(toServer) + 0
    BY <1>2, AskCounts
  <2>2. QED BY <1>1, <2>1 DEF Numeric
<1>5. OneNotification' BY <1>3, <1>4 DEF OrderInv, OneNotification
<1>6. AtWork' /\ HeldBack' BY <1>3 DEF OrderInv, AtWork, HeldBack, Replies
<1>7. Asked'
  <2>1. UNCHANGED Replies BY <1>3 DEF Replies
  <2>2. /\ Reads(toServer) + reads + Replies + ReadReplies(outbox) + ReadReplies(toClient) = 0
        /\ Modifies(toServer) + modifies + ModifyReplies(outbox) + ModifyReplies(toClient) = 0
    BY <1>3 DEF OrderInv, Asked
  <2>3. (Modifies(toServer) + 1) + modifies + ModifyReplies(outbox) + ModifyReplies(toClient) = 1
    <3>1. PICK a \in Nat, b \in Nat, c \in Nat, d \in Nat :
             /\ Modifies(toServer) = a /\ modifies = b
             /\ ModifyReplies(outbox) = c /\ ModifyReplies(toClient) = d
      BY <1>1 DEF Numeric
    <3>2. a + b + c + d = 0 BY <2>2, <3>1
    <3>3. (a + 1) + b + c + d = 1 BY <3>2
    <3>4. QED BY <3>1, <3>3
  <2>4. QED BY <1>3, <1>4, <2>1, <2>2, <2>3 DEF Asked
<1>8. InLine' /\ InOrder' BY <1>3 DEF OrderInv, InLine, InOrder
<1>9. QED BY <1>5, <1>6, <1>7, <1>8 DEF OrderInv

(* A notification that overtakes the reply to a modify request is owed a read. *)
LEMMA OrderClientReceivesModify ==
    ASSUME Inv, OrderInv, ~closed, ClientReceivesModify
    PROVE  OrderInv'
<1> DEFINE m == Head(toClient)
<1>1. Numeric BY Numbers, Zenon
<1>2. toClient \in Seq(Message) /\ toClient # <<>> /\ toClient' = Tail(toClient)
  BY DEF ClientReceivesModify, Inv, TypeOK
<1>3. /\ client = "modifying" /\ client' = IF m.kind = "modify" THEN "idle" ELSE "modifying"
      /\ owed' = (owed \/ m.kind = "notification")
      /\ UNCHANGED <<canSendNotification, deferNotification, deferredNotification, handing,
                     outbox, toServer, reads, filled, finishing, modifies, closed>>
  BY DEF ClientReceivesModify, notificationVars, taskVars
<1>4. m.kind \in {"notification", "modify", "read"} BY <1>2, Leaves
<1>5. Reads(toServer) + reads + Replies + ReadReplies(outbox) + ReadReplies(toClient) = 0
  BY <1>3 DEF OrderInv, Asked
<1>6. Modifies(toServer) + modifies + ModifyReplies(outbox) + ModifyReplies(toClient) = 1
  BY <1>3 DEF OrderInv, Asked
<1>7. m.kind # "read"
  <2> SUFFICES ASSUME m.kind = "read" PROVE FALSE
    OBVIOUS
  <2>1. PICK n \in Nat : ReadReplies(toClient) = n + 1 BY <1>2, Leaves
  <2> HIDE DEF m
  <2>2. QED BY <1>1, <1>5, <2>1 DEF Numeric
<1>8. AtWork' /\ HeldBack' BY <1>3 DEF OrderInv, AtWork, HeldBack, Replies
<1>9. UNCHANGED Replies BY <1>3 DEF Replies
<1>10. InOrder' BY <1>3 DEF InOrder
<1>11. NoneBeforeRead(toClient') BY <1>2, LeaveLine DEF OrderInv, InLine
<1>12. CASE m.kind = "modify"
  <2>1. PICK n \in Nat : ModifyReplies(toClient') = n /\ ModifyReplies(toClient) = n + 1
    BY <1>2, <1>12, Leaves
  <2>2. UNCHANGED <<Notifications(toClient), ReadReplies(toClient)>> BY <1>2, <1>12, Leaves
  <2>3. client' = "idle" /\ owed' = owed
    <3>1. owed \in BOOLEAN BY DEF Inv, TypeOK
    <3>2. QED BY <1>3, <1>12, <3>1
  <2> HIDE DEF m
  <2>4. OneNotification' BY <1>3, <2>2, <2>3 DEF OrderInv, OneNotification
  <2>5. Asked'
    <3>1. Modifies(toServer) + modifies + ModifyReplies(outbox) + n = 0
      BY <1>1, <1>6, <2>1 DEF Numeric
    <3>2. QED BY <1>3, <1>5, <1>9, <2>1, <2>2, <2>3, <3>1 DEF Asked
  <2>6. InLine' BY <1>3, <1>11, <2>2 DEF OrderInv, InLine
  <2>7. QED BY <1>8, <1>10, <2>4, <2>5, <2>6 DEF OrderInv
<1>13. CASE m.kind = "notification"
  <2>1. PICK n \in Nat : Notifications(toClient') = n /\ Notifications(toClient) = n + 1
    BY <1>2, <1>13, Leaves
  <2>2. UNCHANGED <<ModifyReplies(toClient), ReadReplies(toClient)>> BY <1>2, <1>13, Leaves
  <2>3. client' = "modifying" /\ owed' = TRUE BY <1>3, <1>13
  <2> HIDE DEF m
  <2>4. ~owed
    <3>1. Notifications(toClient) > 0 BY <2>1
    <3>2. QED BY <3>1, Alone, Zenon
  <2>5. OneNotification'
    BY <1>1, <1>3, <2>1, <2>3, <2>4 DEF Numeric, OrderInv, OneNotification
  <2>6. Asked' BY <1>3, <1>5, <1>6, <1>9, <2>2, <2>3 DEF Asked
  <2>7. InLine'
    <3>1. ReadReplies(outbox) > 0 => Notifications(toClient) = 0 BY DEF OrderInv, InLine
    <3>2. ~(ReadReplies(outbox) > 0) BY <2>1, <3>1
    <3>3. QED BY <1>3, <1>11, <3>2 DEF OrderInv, InLine
  <2>8. QED BY <1>8, <1>10, <2>5, <2>6, <2>7 DEF OrderInv
<1>14. QED BY <1>4, <1>7, <1>12, <1>13

(* Every step keeps the order.  After the client has closed its socket only InOrder
   says something, and the client does nothing any more. *)
LEMMA OrderStep == Inv /\ OrderInv /\ [Next]_vars => OrderInv'
<1> SUFFICES ASSUME Inv, OrderInv, [Next]_vars PROVE OrderInv'
  OBVIOUS
<1> DEFINE still == <<canSendNotification, deferNotification, deferredNotification, handing,
                      outbox, toClient, toServer, filled, reads, finishing, modifies, client,
                      owed, closed>>
<1>1. CASE closed
  <2>1. UNCHANGED <<closed, client>>
    BY <1>1 DEF Next, ServerStep, ClientStep, vars, clientVars, OpenSocket, FinishSetup, Occur,
       Notify, PushNotification, Send, CheckForEvents, ReceiveRead, ReceiveModify, Fill,
       PushReply, SendDeferredNotification, PushModifyReply, HangUp, Destroy, ClientNotified,
       ClientReceivesRead, ClientModify, ClientReceivesModify, ClientClose
  <2>2. QED
    BY <1>1, <2>1 DEF OrderInv, OneNotification, AtWork, HeldBack, Asked, InLine, InOrder
<1>2. CASE ~closed /\ UNCHANGED still
  BY <1>2 DEF OrderInv, OneNotification, AtWork, HeldBack, Asked, InLine, InOrder, Replies
<1>3. CASE ~closed /\ ~UNCHANGED still
  <2>1. registered /\ ~destroyed BY <1>3 DEF Inv, GoneAfterClient
  <2>2. CASE OpenSocket \/ Occur \/ HangUp \/ Destroy \/ UNCHANGED vars
    BY <1>3, <2>1, <2>2
    DEF OpenSocket, Occur, HangUp, Destroy, vars, notificationVars, taskVars, clientVars
  <2>3. CASE FinishSetup \/ Notify \/ CheckForEvents
    <3>1. /\ SendNotification \/ UNCHANGED notificationVars
          /\ UNCHANGED <<outbox, toClient, toServer, filled, reads, finishing, modifies, client,
                         owed, closed>>
      BY <2>3 DEF FinishSetup, Notify, CheckForEvents, taskVars, clientVars
    <3>2. SendNotification BY <1>3, <3>1 DEF notificationVars
    <3>3. QED BY <1>3, <3>1, <3>2, OrderNotification, Zenon
  <2>4. CASE PushNotification BY <1>3, <2>4, OrderPushNotification, Zenon
  <2>5. CASE Send BY <1>3, <2>5, OrderSend, Zenon
  <2>6. CASE ReceiveRead BY <1>3, <2>6, OrderReceiveRead, Zenon
  <2>7. CASE ReceiveModify BY <1>3, <2>7, OrderReceiveModify, Zenon
  <2>8. CASE Fill BY <1>3, <2>8, OrderFill, Zenon
  <2>9. CASE PushReply BY <1>3, <2>9, OrderPushReply, Zenon
  <2>10. CASE SendDeferredNotification BY <1>3, <2>10, OrderSendDeferred, Zenon
  <2>11. CASE PushModifyReply BY <1>3, <2>11, OrderPushModifyReply, Zenon
  <2>12. CASE ClientNotified BY <1>3, <2>12, OrderClientNotified, Zenon
  <2>13. CASE ClientReceivesRead BY <1>3, <2>13, OrderClientReceivesRead, Zenon
  <2>14. CASE ClientModify BY <1>3, <2>14, OrderClientModify, Zenon
  <2>15. CASE ClientReceivesModify BY <1>3, <2>15, OrderClientReceivesModify, Zenon
  <2>16. CASE ClientClose
    <3>1. closed' = TRUE /\ client' = client BY <2>16 DEF ClientClose
    <3>2. QED
      BY <3>1 DEF OrderInv, OneNotification, AtWork, HeldBack, Asked, InLine, InOrder
  <2>17. QED
    BY <2>2, <2>3, <2>4, <2>5, <2>6, <2>7, <2>8, <2>9, <2>10, <2>11, <2>12, <2>13, <2>14,
       <2>15, <2>16
    DEF Next, ServerStep, ClientStep
<1>4. QED BY <1>1, <1>2, <1>3

LEMMA OrderInvariance == Spec => []OrderInv
<1>1. Init => OrderInv BY OrderInitially
<1>2. Inv /\ OrderInv /\ [Next]_vars => OrderInv' BY OrderStep
<1>3. QED BY <1>1, <1>2, Invariance, PTL DEF Spec

(* The socket is not clogged up: there is never more than one notification between
   _sendNotification and the read that acknowledges it, and none when
   _canSendNotification is set. *)
THEOREM OneAtATime == Spec => []OneNotification
<1>1. OrderInv => OneNotification BY DEF OrderInv
<1>2. QED BY <1>1, OrderInvariance, PTL

(* The client never gets a notification where it waits for the reply to a read, which
   is what deferring notifications in _read is for. *)
THEOREM RepliesInOrder == Spec => []InOrder
<1>1. OrderInv => InOrder BY DEF OrderInv
<1>2. QED BY <1>1, OrderInvariance, PTL
=============================================================================
