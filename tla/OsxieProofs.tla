---------------------------- MODULE OsxieProofs ----------------------------
(***************************************************************************)
(* Proofs about the osxie command: one session of a shell, and the         *)
(* launchers that find, start and kill the container.                      *)
(*                                                                         *)
(* The session.  Unless a string was cut, what is in the socket before GO  *)
(* is the unread rest of what the client has sent of its Script, with      *)
(* signals behind it only when that is all sent (Talk), so what was read   *)
(* decides program, argv and context.  A child that was forked stays to be *)
(* waited for until the session has done so (Children), and only a session *)
(* without a client kills it before its end (Endings).                     *)
(***************************************************************************)
EXTENDS Launcher, ShellSession, TLAPS

Message == {Cmd(c, p) : c \in {"SETENV", "ADDARG", "SETEXEC", "CHDIR", "SETUIDGID", "GO", "DATA"},
                        p \in {Unset, "-c", "command", "binary", "arg", "cut"}}
           \cup {Cmd("SIGNAL", n) : n \in Int}
IsSignal(m) == m.cmd = "SIGNAL" /\ m.param \in Int

SessionTypes ==
    /\ asked \in {"shell", "command", "binary"} /\ sent \in Nat
    /\ client \in {"setup", "loop", "killing", "exited"}
    /\ session \in {"none", "commands", "fork", "pipe", "watch", "loop", "kill", "reap",
                    "report", "err", "cleanup", "closed", "dead"}
    /\ shell \in {"none", "forked", "running", "zombie", "reaped", "gone"}
    /\ noCldWait \in BOOLEAN /\ forked \in BOOLEAN /\ cut \in BOOLEAN
    /\ execPipe \in {Unset, 0} \cup Errnos

Streams == toSession \in Seq(Message) /\ toClient \in Seq(Int) /\ delivered \subseteq Int

(* Whose child there is to be killed or waited for. *)
Children ==
    /\ session \in {"none", "commands", "fork"} => ~forked
    /\ session \in {"loop", "kill", "reap", "report"} => forked
    /\ session \in {"commands", "fork"} => ~noCldWait
    /\ forked <=> shell # "none"
    /\ forked => ~noCldWait
    /\ forked /\ session \in {"pipe", "watch", "loop", "kill", "err", "cleanup"} =>
          shell \in {"forked", "running", "zombie"}
    /\ session = "reap" => shell = "zombie"

(* The number r is how the program has ended by itself. *)
OwnStatus(r) ==
    shell = "reaped" /\ wstatus.by # "session" /\ r = ExitStatus(wstatus)

Endings ==
    /\ shell \in {"zombie", "reaped"} =>
          wstatus \in [by : {"exit", "signal", "session"}, n : Int]
    /\ session = "kill" /\ ShellAlive => client = "exited"
    /\ shell = "zombie" /\ wstatus.by = "session" => client = "exited" \/ session = "closed"

Reports ==
    /\ session = "err" => report \in Int /\ report < 0
    /\ session = "report" => report \in Int /\ (client # "exited" => OwnStatus(report))
    /\ \A i \in 1..Len(toClient) : toClient[i] >= 0 => OwnStatus(toClient[i])
    /\ heard # Unset => client = "exited" /\ heard \in Int
    /\ heard # Unset /\ heard >= 0 => OwnStatus(heard) /\ exit = heard

(* What the session runs, after the first k commands of the client's script. *)
Login == <<"/bin/bash", "--login">>
LoginC == <<"/bin/bash", "--login", "-c">>
LoginCommand == <<"/bin/bash", "--login", "-c", "command">>
Binary == <<"binary">>
BinaryArg == <<"binary", "arg">>
RequestAfter(k) ==
    /\ program = IF asked = "binary" /\ k >= 2 THEN "binary" ELSE "/bin/bash"
    /\ asked = "shell" \/ k < 2 => argv = Login
    /\ asked = "command" /\ k = 2 => argv = LoginC
    /\ asked = "command" /\ k > 2 => argv = LoginCommand
    /\ asked = "binary" /\ k = 2 => argv = <<>>
    /\ asked = "binary" /\ k = 3 => argv = Binary
    /\ asked = "binary" /\ k > 3 => argv = BinaryArg
    /\ k >= 1 => "SETENV" \in context

(* The first k commands are read, the rest of those that were sent are not. *)
UnreadAfter(k) ==
    /\ k <= sent /\ k < Len(Script) /\ sent <= Len(Script)
    /\ sent - k <= Len(toSession)
    /\ \A i \in 1..Len(toSession) :
          IF i <= sent - k THEN toSession[i] = Script[k + i]
                           ELSE sent = Len(Script) /\ IsSignal(toSession[i])

Sending ==
    /\ client = "setup" => sent < Len(Script)
    /\ client \in {"loop", "killing"} => sent = Len(Script)

Talk ==
    /\ session \in {"none", "commands"} => \E k \in Nat : UnreadAfter(k) /\ RequestAfter(k)
    /\ session = "fork" \/ shell # "none" => RequestAfter(Len(Script))

SessionInv == SessionTypes /\ Streams /\ Children /\ Endings /\ Reports
              /\ Sending /\ (~cut => Talk)

LEMMA Joined ==
    ASSUME NEW S, NEW s \in Seq(S), NEW t \in Seq(S)
    PROVE  /\ s \o t \in Seq(S) /\ Len(s \o t) = Len(s) + Len(t)
           /\ \A i \in 1..(Len(s) + Len(t)) :
                 (s \o t)[i] = IF i <= Len(s) THEN s[i] ELSE t[i - Len(s)]
  OBVIOUS

(* What spawnShell and spawnBinary send. *)
LEMMA Scripts ==
    ASSUME asked \in {"shell", "command", "binary"}
    PROVE  /\ Script \in Seq(Message)
           /\ asked = "shell" => /\ Len(Script) = 4
                                 /\ Script[1] = Cmd("SETENV", Unset)
                                 /\ Script[2] = Cmd("CHDIR", Unset)
                                 /\ Script[3] = Cmd("SETUIDGID", Unset)
                                 /\ Script[4] = Cmd("GO", Unset)
           /\ asked = "command" => /\ Len(Script) = 6
                                   /\ Script[1] = Cmd("SETENV", Unset)
                                   /\ Script[2] = Cmd("ADDARG", "-c")
                                   /\ Script[3] = Cmd("ADDARG", "command")
                                   /\ Script[4] = Cmd("CHDIR", Unset)
                                   /\ Script[5] = Cmd("SETUIDGID", Unset)
                                   /\ Script[6] = Cmd("GO", Unset)
           /\ asked = "binary" => /\ Len(Script) = 7
                                  /\ Script[1] = Cmd("SETENV", Unset)
                                  /\ Script[2] = Cmd("SETEXEC", "binary")
                                  /\ Script[3] = Cmd("ADDARG", "binary")
                                  /\ Script[4] = Cmd("ADDARG", "arg")
                                  /\ Script[5] = Cmd("CHDIR", Unset)
                                  /\ Script[6] = Cmd("SETUIDGID", Unset)
                                  /\ Script[7] = Cmd("GO", Unset)
<1>1. \A c \in {"SETENV", "ADDARG", "SETEXEC", "CHDIR", "SETUIDGID", "GO"},
         p \in {Unset, "-c", "command", "binary", "arg"} : Cmd(c, p) \in Message
  BY DEF Message
<1>2. /\ Finish \in Seq(Message) /\ Len(Finish) = 3
      /\ Finish[1] = Cmd("CHDIR", Unset) /\ Finish[2] = Cmd("SETUIDGID", Unset)
      /\ Finish[3] = Cmd("GO", Unset)
  BY <1>1 DEF Finish
<1>3. CASE asked = "shell"
  <2> DEFINE begin == <<Cmd("SETENV", Unset)>>
             middle == <<>>
             both == begin \o middle
  <2>1. Script = both \o Finish
    BY <1>3 DEF Script
  <2>2. /\ begin \in Seq(Message) /\ Len(begin) = 1 /\ begin[1] = Cmd("SETENV", Unset)
        /\ middle \in Seq(Message) /\ Len(middle) = 0
    BY <1>1
  <2> HIDE DEF begin, middle
  <2>3. /\ both \in Seq(Message) /\ Len(both) = 1 /\ both[1] = begin[1]
    <3>1. /\ both \in Seq(Message) /\ Len(both) = Len(begin) + Len(middle)
          /\ \A i \in 1..(Len(begin) + Len(middle)) :
                both[i] = IF i <= Len(begin) THEN begin[i] ELSE middle[i - Len(begin)]
      BY <2>2, Joined
    <3> HIDE DEF both
    <3>2. QED BY <2>2, <3>1
  <2> HIDE DEF both
  <2>4. /\ Script \in Seq(Message) /\ Len(Script) = 4
        /\ Script[1] = both[1]
        /\ Script[2] = Finish[1]
        /\ Script[3] = Finish[2]
        /\ Script[4] = Finish[3]
    <3>1. /\ Script \in Seq(Message) /\ Len(Script) = Len(both) + Len(Finish)
          /\ \A i \in 1..(Len(both) + Len(Finish)) :
                Script[i] = IF i <= Len(both) THEN both[i] ELSE Finish[i - Len(both)]
      BY <1>2, <2>1, <2>3, Joined
    <3>2. QED BY <1>2, <2>3, <3>1
  <2>5. QED BY <1>2, <1>3, <2>2, <2>3, <2>4
<1>4. CASE asked = "command"
  <2> DEFINE begin == <<Cmd("SETENV", Unset)>>
             middle == <<Cmd("ADDARG", "-c"), Cmd("ADDARG", "command")>>
             both == begin \o middle
  <2>1. Script = both \o Finish
    BY <1>4 DEF Script
  <2>2. /\ begin \in Seq(Message) /\ Len(begin) = 1 /\ begin[1] = Cmd("SETENV", Unset)
        /\ middle \in Seq(Message) /\ Len(middle) = 2
        /\ middle[1] = Cmd("ADDARG", "-c")
        /\ middle[2] = Cmd("ADDARG", "command")
    BY <1>1
  <2> HIDE DEF begin, middle
  <2>3. /\ both \in Seq(Message) /\ Len(both) = 3 /\ both[1] = begin[1]
        /\ both[2] = middle[1]
        /\ both[3] = middle[2]
    <3>1. /\ both \in Seq(Message) /\ Len(both) = Len(begin) + Len(middle)
          /\ \A i \in 1..(Len(begin) + Len(middle)) :
                both[i] = IF i <= Len(begin) THEN begin[i] ELSE middle[i - Len(begin)]
      BY <2>2, Joined
    <3> HIDE DEF both
    <3>2. QED BY <2>2, <3>1
  <2> HIDE DEF both
  <2>4. /\ Script \in Seq(Message) /\ Len(Script) = 6
        /\ Script[1] = both[1]
        /\ Script[2] = both[2]
        /\ Script[3] = both[3]
        /\ Script[4] = Finish[1]
        /\ Script[5] = Finish[2]
        /\ Script[6] = Finish[3]
    <3>1. /\ Script \in Seq(Message) /\ Len(Script) = Len(both) + Len(Finish)
          /\ \A i \in 1..(Len(both) + Len(Finish)) :
                Script[i] = IF i <= Len(both) THEN both[i] ELSE Finish[i - Len(both)]
      BY <1>2, <2>1, <2>3, Joined
    <3>2. QED BY <1>2, <2>3, <3>1
  <2>5. QED BY <1>2, <1>4, <2>2, <2>3, <2>4
<1>5. CASE asked = "binary"
  <2> DEFINE begin == <<Cmd("SETENV", Unset)>>
             middle == <<Cmd("SETEXEC", "binary"), Cmd("ADDARG", "binary"),
                         Cmd("ADDARG", "arg")>>
             both == begin \o middle
  <2>1. Script = both \o Finish
    BY <1>5 DEF Script
  <2>2. /\ begin \in Seq(Message) /\ Len(begin) = 1 /\ begin[1] = Cmd("SETENV", Unset)
        /\ middle \in Seq(Message) /\ Len(middle) = 3
        /\ middle[1] = Cmd("SETEXEC", "binary")
        /\ middle[2] = Cmd("ADDARG", "binary")
        /\ middle[3] = Cmd("ADDARG", "arg")
    BY <1>1
  <2> HIDE DEF begin, middle
  <2>3. /\ both \in Seq(Message) /\ Len(both) = 4 /\ both[1] = begin[1]
        /\ both[2] = middle[1]
        /\ both[3] = middle[2]
        /\ both[4] = middle[3]
    <3>1. /\ both \in Seq(Message) /\ Len(both) = Len(begin) + Len(middle)
          /\ \A i \in 1..(Len(begin) + Len(middle)) :
                both[i] = IF i <= Len(begin) THEN begin[i] ELSE middle[i - Len(begin)]
      BY <2>2, Joined
    <3> HIDE DEF both
    <3>2. QED BY <2>2, <3>1
  <2> HIDE DEF both
  <2>4. /\ Script \in Seq(Message) /\ Len(Script) = 7
        /\ Script[1] = both[1]
        /\ Script[2] = both[2]
        /\ Script[3] = both[3]
        /\ Script[4] = both[4]
        /\ Script[5] = Finish[1]
        /\ Script[6] = Finish[2]
        /\ Script[7] = Finish[3]
    <3>1. /\ Script \in Seq(Message) /\ Len(Script) = Len(both) + Len(Finish)
          /\ \A i \in 1..(Len(both) + Len(Finish)) :
                Script[i] = IF i <= Len(both) THEN both[i] ELSE Finish[i - Len(both)]
      BY <1>2, <2>1, <2>3, Joined
    <3>2. QED BY <1>2, <2>3, <3>1
  <2>5. QED BY <1>2, <1>5, <2>2, <2>3, <2>4
<1>6. QED BY <1>3, <1>4, <1>5

LEMMA NoDataInScripts ==
    ASSUME asked \in {"shell", "command", "binary"}, NEW k \in Nat, k < Len(Script)
    PROVE  Script[k + 1].cmd # "DATA"
<1> USE DEF Cmd
<1>1. CASE asked = "shell"
  <2>1. Len(Script) = 4
    BY <1>1, Scripts
  <2>2. k \in 0..3
    BY <2>1
  <2>3. QED BY <1>1, <2>2, Scripts
<1>2. CASE asked = "command"
  <2>1. Len(Script) = 6
    BY <1>2, Scripts
  <2>2. k \in 0..5
    BY <2>1
  <2>3. QED BY <1>2, <2>2, Scripts
<1>3. CASE asked = "binary"
  <2>1. Len(Script) = 7
    BY <1>3, Scripts
  <2>2. k \in 0..6
    BY <2>1
  <2>3. QED BY <1>3, <2>2, Scripts
<1>4. QED BY <1>1, <1>2, <1>3

LEMMA SignalNumbers ==
    /\ \A n \in Int : ToDarwin(n) \in Int
    /\ \A n \in Signals \cup {SIGTERM} : Cmd("SIGNAL", n) \in Message /\ IsSignal(Cmd("SIGNAL", n))
<1>1. \A n \in Int : ToDarwin(n) \in Int
  BY DEF ToDarwin
<1>2. Signals \cup {SIGTERM} \subseteq Int
  BY SessionAssumption DEF SIGTERM
<1>3. ASSUME NEW n \in Int PROVE Cmd("SIGNAL", n) \in Message
  BY DEF Message
<1>4. ASSUME NEW n \in Int PROVE IsSignal(Cmd("SIGNAL", n))
  BY DEF Cmd, IsSignal
<1>5. QED BY <1>1, <1>2, <1>3, <1>4

(* The message that a handled signal becomes. *)
LEMMA SignalSent ==
    ASSUME SignalHandler
    PROVE  \E m \in Message : /\ IsSignal(m)
                              /\ \/ Push(m, "killing") \/ Push(m, "loop")
  BY SignalNumbers DEF SignalHandler, SIGINT

(* What a push leaves of the client and in the socket. *)
LEMMA Pushed ==
    ASSUME NEW m, NEW next, Push(m, next)
    PROVE  /\ client' \in {next, "exited"} /\ (cut' = cut \/ cut' = TRUE)
           /\ \/ toSession' = toSession
              \/ toSession' = Append(toSession, m)
              \/ AnyLength(m) /\ toSession' = Append(Append(toSession, Cmd(m.cmd, "cut")), Data)
  BY DEF Push, ClientExit

LEMMA SessionTypesStep ==
    ASSUME SessionTypes, [SessionNext]_sessionVars
    PROVE  SessionTypes'
<1> USE DEF clientVars, shellVars, request, SessionTypes
<1>1. CASE SendCommand
  <2>1. PICK m, next : Push(m, next) /\ next \in {"loop", "setup"}
    BY <1>1 DEF SendCommand
  <2>2. client' \in {"loop", "setup", "exited"} /\ cut' \in BOOLEAN
    BY <2>1, Pushed
  <2>3. QED BY <1>1, <2>2 DEF SendCommand
<1>a. CASE SignalHandler
  <2>1. PICK m \in Message : Push(m, "killing") \/ Push(m, "loop")
    BY <1>a, SignalSent
  <2>2. client' \in {"loop", "killing", "exited"} /\ cut' \in BOOLEAN
    BY <2>1, Pushed
  <2>3. QED BY <1>a, <2>2 DEF SignalHandler
<1>2. CASE KillContainer \/ ContainerKilled
  BY <1>2 DEF KillContainer, ContainerKilled, Teardown
<1>3. CASE ReadStatus \/ ClientDies
  BY <1>3 DEF ReadStatus, ClientDies, ClientExit
<1>4. CASE Accept \/ ReadCommand \/ Fork \/ CheckExec
  BY <1>4 DEF Accept, ReadCommand, Obey, Misread, BadRead, Fork, CheckExec, Fail
<1>5. CASE Watch \/ ShellExitEvent \/ KeventFails \/ SocketEvent
  BY <1>5 DEF Watch, ShellExitEvent, KeventFails, SocketEvent, PassOn, Fail
<1>6. CASE Kill \/ Cleanup
  BY <1>6 DEF Kill, Cleanup, KillShell
<1>7. CASE Reap \/ Report \/ ReportError
  BY <1>7 DEF Reap, Report, ReportError
<1>8. CASE Exec \/ ShellEnds
  BY <1>8 DEF Exec, ShellEnds, Ends
<1>9. CASE UNCHANGED sessionVars
  BY <1>9 DEF sessionVars
<1>10. QED
  BY <1>1, <1>a, <1>2, <1>3, <1>4, <1>5, <1>6, <1>7, <1>8, <1>9
     DEF SessionNext, ClientStep, SessionStep, Over

(* What the session finds in the socket after it has read for commands. *)
LEMMA MessagesLeft ==
    ASSUME toSession \in Seq(Message), ReadCommand
    PROVE  toSession' \in Seq(Message)
<1>1. Data \in Message
  BY DEF Data, Message
<1>2. CASE Obey
  BY <1>2 DEF Obey
<1>3. CASE Misread
  <2>1. PICK n \in 1..Len(toSession) :
           \/ toSession' = SubSeq(toSession, n + 1, Len(toSession))
           \/ toSession' = <<Data>> \o SubSeq(toSession, n + 1, Len(toSession))
    BY <1>3 DEF Misread
  <2> DEFINE rest == SubSeq(toSession, n + 1, Len(toSession))
             begin == <<Data>>
  <2>2. rest \in Seq(Message)
    <3>1. \A i \in (n + 1)..Len(toSession) : toSession[i] \in Message
      OBVIOUS
    <3>2. QED BY <3>1
  <2>3. begin \in Seq(Message)
    BY <1>1
  <2>4. toSession' = rest \/ toSession' = begin \o rest
    BY <2>1
  <2> HIDE DEF rest, begin
  <2>5. begin \o rest \in Seq(Message)
    BY <2>2, <2>3, Joined
  <2>6. QED BY <2>2, <2>4, <2>5
<1>4. CASE BadRead
  BY <1>4 DEF BadRead
<1>5. QED BY <1>2, <1>3, <1>4 DEF ReadCommand

LEMMA StreamsStep ==
    ASSUME SessionInv, [SessionNext]_sessionVars
    PROVE  Streams'
<1> USE DEF clientVars, shellVars, request
<1>0. /\ toSession \in Seq(Message) /\ toClient \in Seq(Int) /\ delivered \subseteq Int
      /\ SessionTypes /\ Sending
  BY DEF SessionInv, Streams
<1>a. /\ <<>> \in Seq(Message)
      /\ toSession # <<>> => Tail(toSession) \in Seq(Message)
      /\ toClient # <<>> => Tail(toClient) \in Seq(Int)
      /\ \A r \in Int : Append(toClient, r) \in Seq(Int)
  BY <1>0
<1>1. CASE SendCommand
  <2>1. Script[sent + 1] \in Message
    BY <1>0, <1>1, Scripts DEF SendCommand, Sending, SessionTypes
  <2>2. AnyLength(Script[sent + 1]) => Cmd(Script[sent + 1].cmd, "cut") \in Message
    BY DEF AnyLength, Message
  <2>3. Data \in Message
    BY DEF Data, Message
  <2>4. toSession' \in Seq(Message)
    <3> DEFINE m == Script[sent + 1]
    <3>1. \/ toSession' = toSession
          \/ toSession' = Append(toSession, m)
          \/ AnyLength(m) /\ toSession' = Append(Append(toSession, Cmd(m.cmd, "cut")), Data)
      BY <1>1, Pushed DEF SendCommand
    <3> HIDE DEF m
    <3>2. m \in Message /\ (AnyLength(m) => Cmd(m.cmd, "cut") \in Message)
      BY <2>1, <2>2 DEF m
    <3>3. CASE AnyLength(m) /\ toSession' = Append(Append(toSession, Cmd(m.cmd, "cut")), Data)
      BY <1>0, <2>3, <3>2, <3>3
    <3>4. QED BY <1>0, <3>1, <3>2, <3>3
  <2>5. QED BY <1>0, <1>1, <2>4 DEF SendCommand, Streams
<1>2. CASE SignalHandler
  <2>1. PICK m \in Message : IsSignal(m) /\ (Push(m, "killing") \/ Push(m, "loop"))
    BY <1>2, SignalSent
  <2>2. ~AnyLength(m)
    BY <2>1 DEF AnyLength, IsSignal
  <2>3. toSession' \in {toSession, Append(toSession, m)}
    BY <2>1, <2>2, Pushed
  <2>4. QED BY <1>0, <1>2, <2>1, <2>3 DEF SignalHandler, Streams
<1>3. CASE KillContainer \/ ContainerKilled
  <2>1. toSession' = <<>> /\ UNCHANGED <<toClient, delivered>>
    BY <1>3 DEF KillContainer, ContainerKilled, Teardown
  <2>2. QED BY <1>0, <1>a, <2>1 DEF Streams
<1>4. CASE ReadStatus
  <2>1. /\ UNCHANGED <<toSession, delivered>>
        /\ toClient' = toClient \/ (toClient # <<>> /\ toClient' = Tail(toClient))
    BY <1>4 DEF ReadStatus
  <2>2. QED BY <1>0, <1>a, <2>1 DEF Streams
<1>5. CASE ReadCommand
  <2>1. UNCHANGED <<toClient, delivered>>
    BY <1>5 DEF ReadCommand
  <2>2. QED BY <1>0, <1>5, <2>1, MessagesLeft DEF Streams
<1>6. CASE SocketEvent
  <2>1. CASE PassOn
    <3>1. Head(toSession) \in Message /\ toSession' \in Seq(Message) /\ toClient' = toClient
      BY <1>0, <1>6, <2>1 DEF SocketEvent, PassOn
    <3>2. CASE Head(toSession).cmd = "SIGNAL"
      <4>1. Head(toSession).param \in Int
        BY <3>1, <3>2 DEF Message, Cmd
      <4>2. ToDarwin(Head(toSession).param) \in Int
        BY <4>1, SignalNumbers
      <4>3. QED BY <1>0, <2>1, <3>1, <3>2, <4>2 DEF PassOn, Streams
    <3>3. CASE Head(toSession).cmd # "SIGNAL"
      BY <1>0, <2>1, <3>1, <3>3 DEF PassOn, Streams
    <3>4. QED BY <3>2, <3>3
  <2>2. CASE ~PassOn
    BY <1>0, <1>6, <2>2 DEF SocketEvent, Streams
  <2>3. QED BY <2>1, <2>2
<1>7. CASE Report \/ ReportError
  <2>1. report \in Int
    BY <1>7 DEF Report, ReportError, SessionInv, Reports
  <2>2. /\ delivered' = delivered /\ toSession' \in {toSession, <<>>}
        /\ toClient' = toClient \/ toClient' = Append(toClient, report)
    BY <1>7 DEF Report, ReportError
  <2>3. QED BY <1>0, <1>a, <2>1, <2>2 DEF Streams
<1>b. CASE Accept \/ Cleanup
  <2>1. toSession' \in {toSession, <<>>} /\ UNCHANGED <<toClient, delivered>>
    BY <1>b DEF Accept, Cleanup
  <2>2. QED BY <1>0, <1>a, <2>1 DEF Streams
<1>8. CASE UNCHANGED <<toSession, toClient, delivered>>
  BY <1>0, <1>8 DEF Streams
<1>9. QED
  <2>1. CASE ClientDies \/ Fork \/ CheckExec \/ Watch \/ ShellExitEvent \/ KeventFails \/ Kill
             \/ Reap \/ Exec \/ ShellEnds \/ UNCHANGED sessionVars
    BY <1>8, <2>1 DEF ClientDies, Fork, CheckExec, Watch, ShellExitEvent, KeventFails, Kill, Reap,
       Exec, ShellEnds, sessionVars
  <2>2. QED
    BY <1>1, <1>2, <1>3, <1>4, <1>5, <1>6, <1>7, <1>b, <2>1
       DEF SessionNext, ClientStep, SessionStep, Over

LEMMA ChildrenStep ==
    ASSUME SessionInv, [SessionNext]_sessionVars
    PROVE  Children'
<1> USE DEF clientVars, shellVars, request, SessionTypes, Children
<1>0. SessionTypes /\ Children
  BY DEF SessionInv
<1>1. CASE SendCommand \/ SignalHandler \/ ReadStatus \/ ClientDies
  BY <1>0, <1>1 DEF SendCommand, SignalHandler, ReadStatus, ClientDies
<1>2. CASE KillContainer \/ ContainerKilled
  BY <1>0, <1>2 DEF KillContainer, ContainerKilled, Teardown, ShellAlive
<1>3. CASE Accept \/ ReadCommand \/ Fork \/ ShellExitEvent
  BY <1>0, <1>3 DEF Accept, ReadCommand, Obey, Misread, BadRead, Fork, ShellExitEvent, Fail
<1>4. CASE CheckExec \/ Watch \/ KeventFails \/ SocketEvent
  BY <1>0, <1>4 DEF CheckExec, Watch, KeventFails, SocketEvent, PassOn, Fail
<1>5. CASE Kill \/ Cleanup
  BY <1>0, <1>5 DEF Kill, Cleanup, KillShell, ShellAlive
<1>6. CASE Reap \/ Report \/ ReportError
  BY <1>0, <1>6 DEF Reap, Report, ReportError
<1>7. CASE Exec \/ ShellEnds
  BY <1>0, <1>7 DEF Exec, ShellEnds, Ends
<1>8. CASE UNCHANGED sessionVars
  BY <1>0, <1>8 DEF sessionVars
<1>9. QED
  BY <1>1, <1>2, <1>3, <1>4, <1>5, <1>6, <1>7, <1>8
     DEF SessionNext, ClientStep, SessionStep, Over

(* The session's SIGKILL goes to a child it has forked and not yet waited for, whatever
   of fork, exec and the watch has failed (spawnShell). *)
LEMMA KillFindsItsChild ==
    ASSUME SessionInv, Kill \/ (Cleanup /\ forked)
    PROVE  forked /\ shell \in {"forked", "running", "zombie"}
  BY DEF SessionInv, Children, Kill, Cleanup

LEMMA EndingsStep ==
    ASSUME SessionInv, [SessionNext]_sessionVars
    PROVE  Endings'
<1> USE DEF clientVars, shellVars, request, Endings, ShellAlive
<1>0. SessionTypes /\ Children /\ Endings /\ delivered \subseteq Int
  BY DEF SessionInv, Streams
<1>1. CASE SendCommand \/ SignalHandler \/ ReadStatus \/ ClientDies
  BY <1>0, <1>1 DEF SendCommand, SignalHandler, ReadStatus, ClientDies, Push, ClientExit
<1>2. CASE KillContainer \/ ContainerKilled
  BY <1>0, <1>2 DEF KillContainer, ContainerKilled, Teardown
<1>3. CASE Accept \/ ReadCommand \/ ShellExitEvent \/ CheckExec \/ Watch \/ KeventFails
  BY <1>0, <1>3 DEF Accept, ReadCommand, Obey, Misread, BadRead, ShellExitEvent, CheckExec, Watch,
     KeventFails, Fail, Children
<1>4. CASE Fork
  BY <1>0, <1>4 DEF Fork, Fail, Children
<1>5. CASE SocketEvent
  BY <1>0, <1>5 DEF SocketEvent, PassOn, Fail, ClientOpen
<1>6. CASE Kill \/ Cleanup
  BY <1>0, <1>6 DEF Kill, Cleanup, KillShell, SIGKILL
<1>7. CASE Reap
  BY <1>0, <1>7 DEF Reap, Children
<1>8. CASE Report \/ ReportError
  BY <1>0, <1>8 DEF Report, ReportError, Children
<1>9. CASE Exec
  BY <1>0, <1>9 DEF Exec, Ends, Children
<1>10. CASE ShellEnds
  <2>1. Codes \subseteq Int /\ delivered \cup {SIGSEGV} \subseteq Int
    BY <1>0, SessionAssumption DEF SIGSEGV
  <2>2. ASSUME NEW c \in Codes, Ends([by |-> "exit", n |-> c]) PROVE Endings'
    BY <1>0, <1>10, <2>1, <2>2 DEF ShellEnds, Ends, Children
  <2>3. ASSUME NEW n \in delivered \cup {SIGSEGV}, Ends([by |-> "signal", n |-> n]) PROVE Endings'
    BY <1>0, <1>10, <2>1, <2>3 DEF ShellEnds, Ends, Children
  <2>4. QED BY <1>10, <2>2, <2>3 DEF ShellEnds
<1>11. CASE UNCHANGED sessionVars
  BY <1>0, <1>11 DEF sessionVars
<1>12. QED
  BY <1>1, <1>2, <1>3, <1>4, <1>5, <1>6, <1>7, <1>8, <1>9, <1>10, <1>11
     DEF SessionNext, ClientStep, SessionStep, Over

(* What was waited for stays as it was. *)
LEMMA ReapedStays ==
    ASSUME SessionInv, [SessionNext]_sessionVars, shell = "reaped"
    PROVE  shell' = "reaped" /\ wstatus' = wstatus
<1> USE DEF clientVars, shellVars, request, ShellAlive
<1>0. Children
  BY DEF SessionInv
<1>1. CASE SendCommand \/ SignalHandler \/ ReadStatus \/ ClientDies \/ KillContainer
           \/ ContainerKilled
  BY <1>1 DEF SendCommand, SignalHandler, ReadStatus, ClientDies, KillContainer, ContainerKilled,
     Teardown
<1>2. CASE Accept \/ ReadCommand \/ ShellExitEvent \/ CheckExec \/ Watch \/ KeventFails
           \/ SocketEvent \/ Report \/ ReportError
  BY <1>2 DEF Accept, ReadCommand, ShellExitEvent, CheckExec, Watch, KeventFails, SocketEvent,
     Report, ReportError
<1>3. CASE Fork \/ Reap \/ Kill \/ Cleanup
  BY <1>0, <1>3 DEF Fork, Reap, Kill, Cleanup, KillShell, Children
<1>4. CASE Exec \/ ShellEnds \/ UNCHANGED sessionVars
  BY <1>4 DEF Exec, ShellEnds, sessionVars
<1>5. QED
  BY <1>1, <1>2, <1>3, <1>4 DEF SessionNext, ClientStep, SessionStep, Over

(* What may be in the socket for the client after a step. *)
LEMMA ReportsInTransit ==
    ASSUME SessionInv, [SessionNext]_sessionVars, NEW i \in 1..Len(toClient')
    PROVE  \/ \E j \in 1..Len(toClient) : toClient'[i] = toClient[j]
           \/ session \in {"report", "err"} /\ client # "exited" /\ toClient'[i] = report
<1> USE DEF clientVars, shellVars, request
<1>0. toClient \in Seq(Int)
  BY DEF SessionInv, Streams
<1>1. CASE toClient' = toClient
  BY <1>1
<1>2. CASE toClient # <<>> /\ toClient' = Tail(toClient)
  BY <1>0, <1>2
<1>3. CASE /\ toClient' = Append(toClient, report)
           /\ session \in {"report", "err"} /\ client # "exited"
  <2>1. report \in Int
    BY <1>3 DEF SessionInv, Reports
  <2>2. /\ Len(toClient') = Len(toClient) + 1 /\ toClient'[Len(toClient) + 1] = report
        /\ \A j \in 1..Len(toClient) : toClient'[j] = toClient[j]
    BY <1>0, <1>3, <2>1
  <2>3. QED BY <1>0, <1>3, <2>2
<1>4. CASE ReadStatus
  BY <1>1, <1>2, <1>4 DEF ReadStatus
<1>5. CASE Report \/ ReportError
  BY <1>1, <1>3, <1>5 DEF Report, ReportError, ClientOpen
<1>6. CASE SendCommand \/ SignalHandler \/ ClientDies \/ KillContainer \/ ContainerKilled \/ Accept
           \/ ReadCommand \/ ShellExitEvent \/ CheckExec \/ Watch \/ KeventFails \/ SocketEvent
           \/ Fork \/ Reap \/ Kill \/ Cleanup \/ Exec \/ ShellEnds \/ UNCHANGED sessionVars
  <2>1. toClient' = toClient
    BY <1>6 DEF SendCommand, SignalHandler, ClientDies, KillContainer, ContainerKilled, Teardown,
       Accept, ReadCommand, ShellExitEvent, CheckExec, Watch, KeventFails, SocketEvent, Fork, Reap,
       Kill, Cleanup, Exec, ShellEnds, sessionVars
  <2>2. QED BY <1>1, <2>1
<1>7. QED
  BY <1>4, <1>5, <1>6 DEF SessionNext, ClientStep, SessionStep, Over

LEMMA ReportsStep ==
    ASSUME SessionInv, [SessionNext]_sessionVars
    PROVE  Reports'
<1> USE DEF clientVars, shellVars, request
<1>0. /\ SessionTypes /\ Children /\ Endings /\ Reports /\ toClient \in Seq(Int)
  BY DEF SessionInv, Streams
<1> DEFINE StillOwn(r) == shell' = "reaped" /\ wstatus'.by # "session" /\ r = ExitStatus(wstatus')
<1>1. ASSUME NEW r \in Int, OwnStatus(r) PROVE StillOwn(r)
  BY <1>1, ReapedStays DEF OwnStatus
<1>2. \A i \in 1..Len(toClient') : toClient'[i] >= 0 => StillOwn(toClient'[i])
  <2>1. SUFFICES ASSUME NEW i \in 1..Len(toClient'), toClient'[i] >= 0
                 PROVE  StillOwn(toClient'[i])
    OBVIOUS
  <2>2. toClient'[i] \in Int /\ OwnStatus(toClient'[i])
    <3>1. CASE \E j \in 1..Len(toClient) : toClient'[i] = toClient[j]
      BY <1>0, <2>1, <3>1 DEF Reports
    <3>2. CASE session \in {"report", "err"} /\ client # "exited" /\ toClient'[i] = report
      BY <1>0, <2>1, <3>2 DEF Reports
    <3>3. QED BY <3>1, <3>2, ReportsInTransit
  <2>3. QED BY <1>1, <2>2
<1>3. session' = "err" => report' \in Int /\ report' < 0
  <2>1. CASE ReadCommand \/ Fork \/ CheckExec \/ Watch \/ KeventFails \/ SocketEvent
    <3>1. SUFFICES ASSUME session' = "err" PROVE report' \in Int /\ report' < 0
      OBVIOUS
    <3>2. \E e \in Errnos \cup {ESRCH} : report' = -e
      BY <1>0, <2>1, <3>1 DEF ReadCommand, Obey, Misread, BadRead, Fork, CheckExec, Watch,
         KeventFails, SocketEvent, PassOn, Fail, SessionTypes
    <3>3. QED BY <3>2, SessionAssumption DEF ESRCH
  <2>2. CASE Accept \/ ShellExitEvent \/ Kill \/ Reap \/ Report \/ ReportError \/ Cleanup
    BY <1>0, <2>2 DEF Accept, ShellExitEvent, Kill, Reap, Report, ReportError, Cleanup, Reports
  <2>3. CASE SendCommand \/ SignalHandler \/ ReadStatus \/ ClientDies \/ KillContainer
             \/ ContainerKilled \/ Exec \/ ShellEnds \/ UNCHANGED sessionVars
    BY <1>0, <2>3 DEF SendCommand, SignalHandler, ReadStatus, ClientDies, KillContainer,
       ContainerKilled, Teardown, Exec, ShellEnds, sessionVars, Reports
  <2>4. QED
    BY <2>1, <2>2, <2>3 DEF SessionNext, ClientStep, SessionStep, Over
<1>4. session' = "report" => report' \in Int /\ (client' # "exited" => StillOwn(report'))
  <2>1. CASE Reap
    <3>1. shell = "zombie" /\ wstatus \in [by : {"exit", "signal", "session"}, n : Int]
      BY <1>0, <2>1 DEF Reap, Children, Endings
    <3>2. /\ report' = ExitStatus(wstatus) /\ shell' = "reaped" /\ wstatus' = wstatus
          /\ client' = client /\ session = "reap"
      BY <2>1, <3>1 DEF Reap
    <3>3. report' \in Int
      BY <3>1, <3>2 DEF ExitStatus
    <3>4. client # "exited" => wstatus.by # "session"
      BY <1>0, <3>1, <3>2 DEF Endings
    <3>5. QED BY <3>2, <3>3, <3>4
  <2>2. CASE /\ session' = session /\ report' = report
             /\ client' # "exited" => client # "exited"
    BY <1>0, <1>1, <2>2 DEF Reports
  <2>3. CASE SendCommand \/ SignalHandler \/ ReadStatus \/ ClientDies
    BY <2>2, <2>3 DEF SendCommand, SignalHandler, ReadStatus, ClientDies, Push, ClientExit
  <2>4. CASE Exec \/ ShellEnds \/ UNCHANGED sessionVars
    BY <2>2, <2>4 DEF Exec, ShellEnds, sessionVars
  <2>5. CASE KillContainer \/ ContainerKilled \/ Accept \/ ReadCommand \/ Fork \/ CheckExec \/ Watch
    BY <2>5 DEF KillContainer, ContainerKilled, Teardown, Accept, ReadCommand, Obey, Misread,
       BadRead, Fork, CheckExec, Watch, Fail
  <2>6. CASE ShellExitEvent \/ KeventFails \/ SocketEvent \/ Kill \/ Report \/ ReportError
             \/ Cleanup
    BY <2>6 DEF ShellExitEvent, KeventFails, SocketEvent, PassOn, Fail, Kill, Report, ReportError,
       Cleanup
  <2>7. QED
    BY <2>1, <2>3, <2>4, <2>5, <2>6 DEF SessionNext, ClientStep, SessionStep, Over
<1>5. /\ heard' # Unset => client' = "exited" /\ heard' \in Int
      /\ heard' # Unset /\ heard' >= 0 => StillOwn(heard') /\ exit' = heard'
  <2>1. CASE ReadStatus
    <3>1. CASE toClient # <<>>
      <4>1. /\ 1 \in 1..Len(toClient) /\ Head(toClient) = toClient[1] /\ toClient[1] \in Int
        BY <1>0, <3>1
      <4>2. toClient[1] >= 0 => OwnStatus(toClient[1])
        BY <1>0, <4>1 DEF Reports
      <4>3. /\ heard' = toClient[1] /\ client' = "exited"
            /\ toClient[1] >= 0 => exit' = toClient[1]
        BY <2>1, <3>1, <4>1 DEF ReadStatus, ClientExit
      <4>4. QED BY <1>1, <4>1, <4>2, <4>3
    <3>2. CASE toClient = <<>>
      BY <1>0, <2>1, <3>2 DEF ReadStatus, Reports
    <3>3. QED BY <3>1, <3>2
  <2>2. CASE heard' = heard /\ (client = "exited" => client' = "exited" /\ exit' = exit)
    <3>1. heard # Unset => client' = "exited" /\ exit' = exit /\ heard \in Int
      BY <1>0, <2>2 DEF Reports
    <3>2. heard # Unset /\ heard >= 0 => OwnStatus(heard) /\ exit = heard
      BY <1>0 DEF Reports
    <3>3. QED BY <1>1, <2>2, <3>1, <3>2
  <2>3. CASE SendCommand \/ SignalHandler \/ ClientDies \/ KillContainer \/ ContainerKilled
    BY <2>2, <2>3 DEF SendCommand, SignalHandler, ClientDies, KillContainer, ContainerKilled,
       Teardown
  <2>4. CASE Accept \/ ReadCommand \/ Fork \/ CheckExec \/ Watch \/ ShellExitEvent \/ KeventFails
             \/ SocketEvent
    BY <2>2, <2>4 DEF Accept, ReadCommand, Fork, CheckExec, Watch, ShellExitEvent, KeventFails,
       SocketEvent
  <2>5. CASE Kill \/ Reap \/ Report \/ ReportError \/ Cleanup \/ Exec \/ ShellEnds
             \/ UNCHANGED sessionVars
    BY <2>2, <2>5 DEF Kill, Reap, Report, ReportError, Cleanup, Exec, ShellEnds, sessionVars
  <2>6. QED
    BY <2>1, <2>3, <2>4, <2>5 DEF SessionNext, ClientStep, SessionStep, Over
<1>6. QED BY <1>2, <1>3, <1>4, <1>5 DEF Reports, OwnStatus

LEMMA SameScript ==
    ASSUME asked' = asked
    PROVE  Script' = Script
  BY DEF Script

LEMMA SameRequest ==
    ASSUME UNCHANGED <<asked, request>>, NEW k \in Nat, RequestAfter(k)
    PROVE  RequestAfter(k)'
  BY SameScript DEF RequestAfter, request

LEMMA SameSeq ==
    ASSUME NEW S, NEW s \in Seq(S), NEW t \in Seq(S), Len(s) = Len(t),
           \A i \in 1..Len(s) : s[i] = t[i]
    PROVE  s = t
  OBVIOUS

LEMMA AppendedTo1 ==
    ASSUME NEW a, NEW b
    PROVE  Append(<<a>>, b) = <<a, b>>
<1>1. /\ <<a>> \in Seq({a, b}) /\ <<a, b>> \in Seq({a, b})
      /\ Append(<<a>>, b) \in Seq({a, b})
      /\ Len(Append(<<a>>, b)) = 2 /\ Len(<<a, b>>) = 2
  OBVIOUS
<1>2. \A i \in 1..2 : Append(<<a>>, b)[i] = <<a, b>>[i]
  OBVIOUS
<1>3. QED BY <1>1, <1>2, SameSeq

LEMMA AppendedTo2 ==
    ASSUME NEW a, NEW b, NEW c
    PROVE  Append(<<a, b>>, c) = <<a, b, c>>
<1>1. /\ <<a, b>> \in Seq({a, b, c}) /\ <<a, b, c>> \in Seq({a, b, c})
      /\ Append(<<a, b>>, c) \in Seq({a, b, c})
      /\ Len(Append(<<a, b>>, c)) = 3 /\ Len(<<a, b, c>>) = 3
  OBVIOUS
<1>2. \A i \in 1..3 : Append(<<a, b>>, c)[i] = <<a, b, c>>[i]
  OBVIOUS
<1>3. QED BY <1>1, <1>2, SameSeq

LEMMA AppendedTo3 ==
    ASSUME NEW a, NEW b, NEW c, NEW d
    PROVE  Append(<<a, b, c>>, d) = <<a, b, c, d>>
<1>1. /\ <<a, b, c>> \in Seq({a, b, c, d}) /\ <<a, b, c, d>> \in Seq({a, b, c, d})
      /\ Append(<<a, b, c>>, d) \in Seq({a, b, c, d})
      /\ Len(Append(<<a, b, c>>, d)) = 4 /\ Len(<<a, b, c, d>>) = 4
  OBVIOUS
<1>2. \A i \in 1..4 : Append(<<a, b, c>>, d)[i] = <<a, b, c, d>>[i]
  OBVIOUS
<1>3. QED BY <1>1, <1>2, SameSeq

LEMMA ArgumentsAppended ==
    /\ Append(Login, "-c") = LoginC /\ Append(LoginC, "command") = LoginCommand
    /\ Append(<<>>, "binary") = Binary /\ Append(Binary, "arg") = BinaryArg
<1>1. Append(Login, "-c") = LoginC
  BY AppendedTo2 DEF Login, LoginC
<1>2. Append(LoginC, "command") = LoginCommand
  BY AppendedTo3 DEF LoginC, LoginCommand
<1>3. Append(<<>>, "binary") = Binary
  BY DEF Binary
<1>4. Append(Binary, "arg") = BinaryArg
  BY AppendedTo1 DEF Binary, BinaryArg
<1>5. QED BY <1>1, <1>2, <1>3, <1>4

(* One command of the script is read. *)
LEMMA ReadOne ==
    ASSUME NEW k \in Nat, k < Len(Script), asked \in {"shell", "command", "binary"},
           RequestAfter(k), asked' = asked,
           NEW c, c = Script[k + 1],
           argv' = Argv(c), program' = IF c.cmd = "SETEXEC" THEN c.param ELSE program,
           \/ context' = context \cup ({c.cmd} \cap {"SETENV", "CHDIR", "SETUIDGID"})
           \/ c.cmd \in {"CHDIR", "SETUIDGID"} /\ UNCHANGED context
    PROVE  RequestAfter(k + 1)' /\ (c.cmd = "GO" <=> k + 1 = Len(Script))
<1> USE DEF Cmd, Argv
<1>0. Script' = Script /\ context \subseteq context'
  BY SameScript
<1>a. c.cmd = "SETENV" => "SETENV" \in context'
  OBVIOUS
<1>b. k >= 1 => "SETENV" \in context
  BY DEF RequestAfter
<1>1. CASE asked = "shell"
  <2>1. Len(Script) = 4
    BY <1>1, Scripts
  <2>2. /\ c.cmd \in {"SETENV", "CHDIR", "SETUIDGID", "GO"}
        /\ k = 0 => c.cmd = "SETENV"
        /\ c.cmd = "GO" <=> k = 3
    BY <1>1, <2>1, Scripts
  <2>3. "SETENV" \in context'
    BY <1>0, <1>a, <1>b, <2>2
  <2>4. argv' = argv /\ program' = program
    BY <2>2
  <2>5. QED BY <1>0, <1>1, <2>1, <2>2, <2>3, <2>4 DEF RequestAfter
<1>2. CASE asked = "command"
  <2>1. Len(Script) = 6
    BY <1>2, Scripts
  <2>2. /\ c.cmd \in {"SETENV", "ADDARG", "CHDIR", "SETUIDGID", "GO"}
        /\ k = 0 => c.cmd = "SETENV"
        /\ c.cmd = "ADDARG" <=> k \in {1, 2}
        /\ k = 1 => c.param = "-c"
        /\ k = 2 => c.param = "command"
        /\ c.cmd = "GO" <=> k = 5
    BY <1>2, <2>1, Scripts
  <2>3. "SETENV" \in context'
    BY <1>0, <1>a, <1>b, <2>2
  <2>4. program' = program /\ argv' = IF k \in {1, 2} THEN Append(argv, c.param) ELSE argv
    BY <2>2
  <2>5. QED
    BY <1>0, <1>2, <2>1, <2>2, <2>3, <2>4, ArgumentsAppended DEF RequestAfter
<1>3. CASE asked = "binary"
  <2>1. Len(Script) = 7
    BY <1>3, Scripts
  <2>2. /\ c.cmd \in {"SETENV", "SETEXEC", "ADDARG", "CHDIR", "SETUIDGID", "GO"}
        /\ k = 0 => c.cmd = "SETENV"
        /\ c.cmd = "SETEXEC" <=> k = 1
        /\ k = 1 => c.param = "binary"
        /\ c.cmd = "ADDARG" <=> k \in {2, 3}
        /\ k = 2 => c.param = "binary"
        /\ k = 3 => c.param = "arg"
        /\ c.cmd = "GO" <=> k = 6
    BY <1>3, <2>1, Scripts
  <2>3. "SETENV" \in context'
    BY <1>0, <1>a, <1>b, <2>2
  <2>4. /\ program' = IF k = 1 THEN "binary" ELSE program
        /\ argv' = IF k = 1 THEN <<>> ELSE IF k \in {2, 3} THEN Append(argv, c.param) ELSE argv
    BY <2>2
  <2>5. QED
    BY <1>0, <1>3, <2>1, <2>2, <2>3, <2>4, ArgumentsAppended DEF RequestAfter
<1>4. QED BY <1>1, <1>2, <1>3

(* A message is put behind what the session has not read. *)
LEMMA MessageSent ==
    ASSUME NEW m \in Message, toSession \in Seq(Message), toSession' = Append(toSession, m)
    PROVE  /\ Len(toSession') = Len(toSession) + 1
           /\ \A i \in 1..Len(toSession) : toSession'[i] = toSession[i]
           /\ toSession'[Len(toSession) + 1] = m
  OBVIOUS

LEMMA MessageRead ==
    ASSUME toSession \in Seq(Message), toSession # <<>>, toSession' = Tail(toSession)
    PROVE  /\ Len(toSession) \in Nat \ {0} /\ Len(toSession') = Len(toSession) - 1
           /\ \A i \in 1..Len(toSession') : i + 1 \in 1..Len(toSession) /\ toSession'[i] = toSession[i + 1]
           /\ Head(toSession) = toSession[1]
  OBVIOUS

(* What the client still has to send. *)
LEMMA SendingStep ==
    ASSUME SessionInv, [SessionNext]_sessionVars
    PROVE  Sending' /\ asked' = asked /\ Script' = Script /\ (cut => cut')
<1> USE DEF clientVars
<1>0. SessionTypes /\ Sending
  BY DEF SessionInv
<1>1. asked' = asked
  BY DEF SessionNext, ClientStep, SessionStep, Over, SendCommand, KillContainer, ReadStatus,
     SignalHandler, ClientDies, Accept, ReadCommand, Fork, CheckExec, Watch, ShellExitEvent,
     KeventFails, SocketEvent, Kill, Reap, Report, ReportError, Cleanup, Exec, ShellEnds,
     ContainerKilled, Teardown, sessionVars
<1>2. Script' = Script /\ Len(Script) \in Nat /\ sent \in Nat
  BY <1>0, <1>1, SameScript, Scripts DEF SessionTypes
<1>3. CASE SendCommand
  <2>1. /\ client = "setup" /\ sent' = sent + 1 /\ (cut => cut')
        /\ \/ client' = "exited"
           \/ client' = IF sent + 1 = Len(Script) THEN "loop" ELSE "setup"
    BY <1>3 DEF SendCommand, Push, ClientExit
  <2>2. QED BY <1>0, <1>1, <1>2, <2>1 DEF Sending
<1>4. CASE /\ UNCHANGED <<sent, cut>>
           /\ \/ client' = client
              \/ client' = "exited"
              \/ client \in {"loop", "killing"} /\ client' # "setup"
  BY <1>0, <1>1, <1>2, <1>4 DEF Sending
<1>5. CASE SignalHandler
  <2>1. PICK m \in Message : IsSignal(m) /\ (Push(m, "killing") \/ Push(m, "loop"))
    BY <1>5, SignalSent
  <2>2. UNCHANGED <<sent, cut>> /\ client = "loop" /\ client' # "setup"
    BY <1>5, <2>1 DEF SignalHandler, Push, ClientExit, AnyLength, IsSignal
  <2>3. QED BY <1>4, <2>2
<1>6. CASE KillContainer \/ ContainerKilled \/ ReadStatus \/ ClientDies
  BY <1>4, <1>6 DEF KillContainer, ContainerKilled, Teardown, ReadStatus, ClientDies, ClientExit
<1>7. CASE Accept \/ ReadCommand \/ Fork \/ CheckExec \/ Watch \/ ShellExitEvent \/ KeventFails
           \/ SocketEvent \/ Kill \/ Reap \/ Report \/ ReportError \/ Cleanup \/ Exec \/ ShellEnds
           \/ UNCHANGED sessionVars
  BY <1>4, <1>7 DEF Accept, ReadCommand, Fork, CheckExec, Watch, ShellExitEvent, KeventFails,
     SocketEvent, Kill, Reap, Report, ReportError, Cleanup, Exec, ShellEnds, sessionVars
<1>8. QED
  BY <1>3, <1>5, <1>6, <1>7 DEF SessionNext, ClientStep, SessionStep, Over

LEMMA TalkStep ==
    ASSUME SessionInv, [SessionNext]_sessionVars, ~cut'
    PROVE  Talk'
<1> USE DEF clientVars, shellVars, request
<1>0. SessionTypes /\ Children /\ Sending /\ Talk /\ ~cut /\ toSession \in Seq(Message)
  BY SendingStep DEF SessionInv, Streams
<1>a. /\ asked' = asked /\ Script' = Script /\ Len(Script) \in Nat /\ sent \in Nat
      /\ asked \in {"shell", "command", "binary"} /\ Len(toSession) \in Nat
  BY <1>0, SendingStep, Scripts DEF SessionTypes
<1>b. ASSUME /\ UNCHANGED <<program, argv, context>>
             /\ session' \in {"none", "commands"} =>
                   session \in {"none", "commands"} /\ UNCHANGED <<toSession, sent>>
             /\ session' = "fork" => session = "fork"
             /\ shell' # "none" => shell # "none" \/ session = "fork"
      PROVE  Talk'
  <2>1. ASSUME NEW k \in Nat, RequestAfter(k) PROVE RequestAfter(k)'
    BY <1>b, <1>a, <2>1, SameRequest
  <2>2. session' \in {"none", "commands"} => \E k \in Nat : UnreadAfter(k)' /\ RequestAfter(k)'
    <3>1. SUFFICES ASSUME session' \in {"none", "commands"}
                   PROVE  \E k \in Nat : UnreadAfter(k)' /\ RequestAfter(k)'
      OBVIOUS
    <3>2. PICK k \in Nat : UnreadAfter(k) /\ RequestAfter(k)
      BY <1>0, <1>b, <3>1 DEF Talk
    <3>3. UnreadAfter(k)'
      BY <1>b, <1>a, <3>1, <3>2 DEF UnreadAfter, IsSignal
    <3>4. QED BY <2>1, <3>2, <3>3
  <2>3. session' = "fork" \/ shell' # "none" => RequestAfter(Len(Script))
    BY <1>0, <1>b DEF Talk
  <2>4. QED BY <1>a, <2>1, <2>2, <2>3 DEF Talk
<1>1. CASE SendCommand
  <2>1. /\ sent' = sent + 1 /\ sent < Len(Script) /\ Script[sent + 1] \in Message
        /\ client = "setup" /\ UNCHANGED <<session, shell, program, argv, context>>
        /\ Push(Script[sent + 1], IF sent + 1 = Len(Script) THEN "loop" ELSE "setup")
    BY <1>0, <1>1, <1>a, Scripts DEF SendCommand, Sending
  <2>2. CASE session \notin {"none", "commands"}
    BY <1>b, <2>1, <2>2
  <2>3. CASE session \in {"none", "commands"}
    <3>2. toSession' = Append(toSession, Script[sent + 1])
      BY <2>1, <2>3 DEF Push, SessionOpen
    <3>3. PICK k \in Nat : UnreadAfter(k) /\ RequestAfter(k)
      BY <1>0, <2>3 DEF Talk
    <3>4. Len(toSession) = sent - k /\ k <= sent /\ k < Len(Script)
      <4>1. sent - k <= Len(toSession) /\ k <= sent /\ k < Len(Script)
        BY <3>3 DEF UnreadAfter
      <4>2. ASSUME Len(toSession) > sent - k PROVE FALSE
        <5>1. Len(toSession) \in 1..Len(toSession) /\ ~(Len(toSession) <= sent - k)
          BY <1>a, <4>1, <4>2
        <5>2. sent = Len(Script)
          BY <3>3, <5>1 DEF UnreadAfter
        <5>3. QED BY <1>a, <2>1, <5>2
      <4>3. QED BY <1>a, <4>1, <4>2
    <3>5. /\ Len(toSession') = Len(toSession) + 1
          /\ \A i \in 1..Len(toSession) : toSession'[i] = toSession[i]
          /\ toSession'[Len(toSession) + 1] = Script[sent + 1]
      BY <1>0, <2>1, <3>2, MessageSent
    <3>6. \A i \in 1..Len(toSession) : toSession[i] = Script[k + i]
      BY <1>a, <3>3, <3>4 DEF UnreadAfter
    <3>7. \A i \in 1..Len(toSession') : i <= (sent + 1) - k /\ toSession'[i] = Script[k + i]
      <4>1. TAKE i \in 1..Len(toSession')
      <4>2. CASE i = Len(toSession) + 1
        <5>1. k + i = sent + 1 /\ i <= (sent + 1) - k
          BY <1>a, <3>4, <4>2
        <5>2. QED BY <3>5, <4>2, <5>1
      <4>3. CASE i # Len(toSession) + 1
        <5>1. i \in 1..Len(toSession)
          BY <1>a, <3>5, <4>1, <4>3
        <5>2. i <= (sent + 1) - k
          BY <1>a, <3>4, <5>1
        <5>3. QED BY <3>5, <3>6, <5>1, <5>2
      <4>4. QED BY <4>2, <4>3
    <3>8. UnreadAfter(k)'
      BY <1>a, <2>1, <3>4, <3>5, <3>7 DEF UnreadAfter
    <3>9. RequestAfter(k)'
      BY <1>a, <2>1, <3>3, SameRequest
    <3>10. shell' = "none" /\ session' # "fork"
      BY <1>0, <2>1, <2>3 DEF Children
    <3>11. QED BY <3>8, <3>9, <3>10 DEF Talk
  <2>4. QED BY <2>2, <2>3
<1>2. CASE SignalHandler
  <2>1. PICK m \in Message : IsSignal(m) /\ (Push(m, "killing") \/ Push(m, "loop"))
    BY <1>2, SignalSent
  <2>2. UNCHANGED <<session, shell, program, argv, context, sent>> /\ sent = Len(Script)
    BY <1>0, <1>2 DEF SignalHandler, Sending
  <2>3. CASE session \notin {"none", "commands"}
    BY <1>b, <2>2, <2>3
  <2>4. CASE session \in {"none", "commands"}
    <3>1. toSession' = Append(toSession, m)
      BY <2>1, <2>4 DEF Push, SessionOpen, AnyLength, IsSignal
    <3>2. /\ Len(toSession') = Len(toSession) + 1
          /\ \A i \in 1..Len(toSession) : toSession'[i] = toSession[i]
          /\ toSession'[Len(toSession) + 1] = m
      BY <1>0, <2>1, <3>1, MessageSent
    <3>3. PICK k \in Nat : UnreadAfter(k) /\ RequestAfter(k)
      BY <1>0, <2>4 DEF Talk
    <3>4. UnreadAfter(k)'
      <4>1. /\ k <= sent /\ k < Len(Script) /\ sent - k <= Len(toSession)
            /\ \A i \in 1..Len(toSession) : i <= sent - k => toSession[i] = Script[k + i]
            /\ \A i \in 1..Len(toSession) : ~(i <= sent - k) => IsSignal(toSession[i])
        BY <3>3 DEF UnreadAfter
      <4>2. ASSUME NEW i \in 1..Len(toSession'), i <= sent - k PROVE toSession'[i] = Script[k + i]
        <5>1. i \in 1..Len(toSession)
          BY <1>a, <4>1, <4>2
        <5>2. QED BY <3>2, <4>1, <4>2, <5>1
      <4>3. \A i \in 1..Len(toSession') : ~(i <= sent - k) => IsSignal(toSession'[i])
        BY <1>a, <2>1, <3>2, <4>1
      <4>4. QED BY <1>a, <2>2, <3>2, <4>1, <4>2, <4>3 DEF UnreadAfter, IsSignal
    <3>5. RequestAfter(k)'
      BY <1>a, <2>2, <3>3, SameRequest
    <3>6. shell' = "none" /\ session' # "fork"
      BY <1>0, <2>2, <2>4 DEF Children
    <3>7. QED BY <3>4, <3>5, <3>6 DEF Talk
  <2>5. QED BY <2>3, <2>4
<1>3. CASE ReadCommand /\ ~BadRead
  <2>1. PICK k \in Nat : UnreadAfter(k) /\ RequestAfter(k)
    BY <1>0, <1>3 DEF ReadCommand, Talk
  <2>2. Len(toSession) \in Nat \ {0} /\ Head(toSession) = toSession[1]
    BY <1>0, <1>3 DEF ReadCommand, Obey, Misread
  <2>3. /\ k <= sent /\ k < Len(Script) /\ sent <= Len(Script) /\ sent - k <= Len(toSession)
        /\ \A i \in 1..Len(toSession) : i <= sent - k => toSession[i] = Script[k + i]
        /\ \A i \in 1..Len(toSession) : ~(i <= sent - k) =>
                sent = Len(Script) /\ IsSignal(toSession[i])
    BY <2>1 DEF UnreadAfter
  <2>4. Head(toSession) = Script[k + 1] /\ k + 1 <= sent
    BY <1>a, <2>2, <2>3
  <2>a. Head(toSession).cmd # "DATA"
    BY <1>a, <2>3, <2>4, NoDataInScripts
  <2>b. Obey /\ UNCHANGED <<sent, shell>> /\ session = "commands"
    BY <1>3, <2>a DEF ReadCommand, Misread, Data, Cmd
  <2>c. /\ Len(toSession') = Len(toSession) - 1
        /\ \A i \in 1..Len(toSession') : i + 1 \in 1..Len(toSession)
                                          /\ toSession'[i] = toSession[i + 1]
    BY <1>0, <2>b, MessageRead DEF Obey
  <2>5. RequestAfter(k + 1)' /\ (Head(toSession).cmd = "GO" <=> k + 1 = Len(Script))
    BY <1>a, <2>1, <2>3, <2>4, <2>b, ReadOne DEF Obey
  <2>6. /\ \A i \in 1..Len(toSession') : i <= sent - (k + 1) => toSession'[i] = Script[(k + 1) + i]
        /\ \A i \in 1..Len(toSession') : ~(i <= sent - (k + 1)) =>
                sent = Len(Script) /\ IsSignal(toSession'[i])
    <3>1. SUFFICES ASSUME NEW i \in 1..Len(toSession')
                   PROVE  /\ i <= sent - (k + 1) => toSession'[i] = Script[(k + 1) + i]
                          /\ ~(i <= sent - (k + 1)) => sent = Len(Script) /\ IsSignal(toSession'[i])
      OBVIOUS
    <3>2. i + 1 \in 1..Len(toSession) /\ toSession'[i] = toSession[i + 1]
      BY <2>c
    <3>3. /\ i + 1 <= sent - k => toSession[i + 1] = Script[k + (i + 1)]
          /\ ~(i + 1 <= sent - k) => sent = Len(Script) /\ IsSignal(toSession[i + 1])
      BY <2>3, <3>2
    <3>4. i \in Nat
      BY <1>a, <2>c
    <3>a. (k + 1) + i = k + (i + 1) /\ (i <= sent - (k + 1) <=> i + 1 <= sent - k)
      BY <1>a, <3>4
    <3>5. QED BY <3>2, <3>3, <3>a
  <2>7. session' = IF k + 1 = Len(Script) THEN "fork" ELSE "commands"
    BY <2>5, <2>b DEF Obey
  <2>8. shell' = "none"
    BY <1>0, <2>b DEF Children
  <2>9. CASE k + 1 = Len(Script)
    <3>1. RequestAfter(Len(Script))'
      BY <1>a, <2>5, <2>9
    <3>2. QED BY <2>7, <2>9, <3>1 DEF Talk
  <2>10. CASE k + 1 # Len(Script)
    <3>1. session' = "commands" /\ k + 1 \in Nat /\ k + 1 < Len(Script)
      BY <1>a, <2>3, <2>7, <2>10
    <3>2. UnreadAfter(k + 1)'
      <4>1. k + 1 <= sent /\ sent <= Len(Script) /\ sent - (k + 1) <= Len(toSession')
        BY <1>a, <2>2, <2>3, <2>4, <2>c
      <4>2. QED BY <1>a, <2>6, <2>b, <3>1, <4>1 DEF UnreadAfter, IsSignal
    <3>3. QED BY <2>5, <2>8, <3>1, <3>2 DEF Talk
  <2>11. QED BY <2>9, <2>10
<1>4. CASE ReadCommand /\ BadRead
  BY <1>b, <1>4 DEF ReadCommand, BadRead, Fail
<1>5. CASE KillContainer \/ ContainerKilled
  BY <1>b, <1>5 DEF KillContainer, ContainerKilled, Teardown, ShellAlive
<1>6. CASE ReadStatus \/ ClientDies \/ Accept
  BY <1>0, <1>b, <1>6 DEF ReadStatus, ClientDies, Accept
<1>7. CASE Fork \/ CheckExec \/ Watch \/ ShellExitEvent \/ KeventFails \/ SocketEvent
  BY <1>0, <1>b, <1>7 DEF Fork, CheckExec, Watch, ShellExitEvent, KeventFails, SocketEvent, PassOn,
     Fail, SessionTypes
<1>8. CASE Kill \/ Reap \/ Report \/ ReportError \/ Cleanup
  BY <1>0, <1>b, <1>8 DEF Kill, Reap, Report, ReportError, Cleanup, KillShell, Children, ShellAlive
<1>9. CASE Exec \/ ShellEnds \/ UNCHANGED sessionVars
  BY <1>b, <1>9 DEF Exec, ShellEnds, Ends, sessionVars
<1>10. QED
  BY <1>1, <1>2, <1>3, <1>4, <1>5, <1>6, <1>7, <1>8, <1>9
     DEF SessionNext, ClientStep, SessionStep, Over

LEMMA SessionInitially == SessionInit => SessionInv
<1> SUFFICES ASSUME SessionInit PROVE SessionInv
  OBVIOUS
<1>1. SessionTypes /\ Streams /\ Children /\ Endings
  <2>1. SessionTypes
    BY DEF SessionInit, SessionTypes
  <2>2. Streams
    BY DEF SessionInit, Streams
  <2>3. Children /\ Endings
    BY DEF SessionInit, Children, Endings, ShellAlive
  <2>4. QED BY <2>1, <2>2, <2>3
<1>2. Reports
  BY DEF SessionInit, Reports
<1>3. Len(Script) \in Nat /\ Len(Script) > 1
  BY Scripts DEF SessionInit
<1>4. UnreadAfter(0) /\ RequestAfter(0)
  BY <1>3 DEF SessionInit, UnreadAfter, RequestAfter, Login
<1>5. Sending /\ Talk
  BY <1>3, <1>4 DEF SessionInit, Sending, Talk
<1>6. QED BY <1>1, <1>2, <1>5 DEF SessionInv

LEMMA SessionInvariance == SessionSpec => []SessionInv
<1>1. SessionInv /\ [SessionNext]_sessionVars => SessionInv'
  BY SessionTypesStep, StreamsStep, ChildrenStep, EndingsStep, ReportsStep, SendingStep, TalkStep
     DEF SessionInv
<1>2. QED BY <1>1, SessionInitially, PTL DEF SessionSpec

(* A status that the client takes for the program's own is the one with which the
   program ended by itself, however client, session, shell and teardown interleave and
   whatever of fork, exec and the watch has failed. *)
THEOREM TheClientHearsTheShellsStatus == SessionSpec => []StatusIsTheShells
<1>1. SessionInv => StatusIsTheShells
  <2>1. SUFFICES ASSUME SessionInv, heard # Unset, heard >= 0
                 PROVE  /\ shell = "reaped" /\ wstatus.by # "session"
                        /\ exit = IF wstatus.by = "signal" THEN 128 + wstatus.n ELSE wstatus.n
    BY DEF StatusIsTheShells
  <2>2. /\ shell = "reaped" /\ wstatus.by # "session" /\ exit = ExitStatus(wstatus)
        /\ wstatus \in [by : {"exit", "signal", "session"}, n : Int]
    BY <2>1 DEF SessionInv, Reports, Endings, OwnStatus
  <2>3. QED BY <2>2 DEF ExitStatus
<1>2. QED BY <1>1, SessionInvariance, PTL

(* What runs is what was asked for if all strings are shorter than 64 KiB, however the
   client's messages and the session's reads interleave, and wherever they break off. *)
THEOREM TheSessionRunsWhatWasAsked == SessionSpec => []RunsWhatWasAsked
<1>1. SessionInv => RunsWhatWasAsked
  <2>1. SUFFICES ASSUME SessionInv, shell # "none", ~cut PROVE RunsWhatWasAsked
    BY DEF RunsWhatWasAsked
  <2>2. asked \in {"shell", "command", "binary"} /\ RequestAfter(Len(Script))
    BY <2>1 DEF SessionInv, SessionTypes, Talk
  <2>3. Len(Script) \in {4, 6, 7}
    BY <2>2, Scripts
  <2>4. "SETENV" \in context
    <3>1. Len(Script) >= 1
      BY <2>3
    <3>2. QED BY <2>2, <3>1 DEF RequestAfter
  <2>5. CASE asked = "shell"
    <3>1. program = "/bin/bash" /\ argv = Login
      BY <2>2, <2>5 DEF RequestAfter
    <3>2. QED BY <2>4, <2>5, <3>1 DEF RunsWhatWasAsked, Login
  <2>6. CASE asked = "command"
    <3>1. program = "/bin/bash" /\ argv = LoginCommand
      <4>1. Len(Script) = 6
        BY <2>6, Scripts
      <4>2. QED BY <2>2, <2>6, <4>1 DEF RequestAfter
    <3>2. QED BY <2>4, <2>6, <3>1 DEF RunsWhatWasAsked, LoginCommand
  <2>7. CASE asked = "binary"
    <3>1. program = "binary" /\ argv = BinaryArg
      <4>1. Len(Script) = 7
        BY <2>7, Scripts
      <4>2. QED BY <2>2, <2>7, <4>1 DEF RequestAfter
    <3>2. QED BY <2>4, <2>7, <3>1 DEF RunsWhatWasAsked, BinaryArg
  <2>8. QED BY <2>2, <2>5, <2>6, <2>7
<1>2. QED BY <1>1, SessionInvariance, PTL

(* The session's SIGKILL goes to its own child that was not waited for, in every
   session and whatever has failed in it. *)
THEOREM TheSessionKillsItsChild == SessionSpec => KillsOnlyItsChild
<1>1. SessionInv /\ [SessionNext]_sessionVars =>
         [Kill \/ (Cleanup /\ forked) =>
             forked /\ shell \in {"forked", "running", "zombie"}]_sessionVars
  BY KillFindsItsChild
<1>2. QED BY <1>1, SessionInvariance, PTL DEF SessionSpec, KillsOnlyItsChild
-----------------------------------------------------------------------------
(* The launchers, whatever they do at the same time.  A process that was recognised is
   no other program's, and while a launcher works with its ID nobody else gets it
   (Targets); unless the user is root it is past the clone of launchd, which was there to
   be found.  A server that is running and not lost is in the pid file or about to be
   (Registered); a launcher that is alone at the pid file (OneAlone) finds it (Looking). *)

LauncherTypes ==
    /\ pc \in [Launchers -> {"new", "getInit", "check", "unlink", "decide", "spawn", "readPipe",
                             "register", "writePid", "wait", "connect", "connected", "kill",
                             "killBoth"}]
    /\ command \in [Launchers -> {"shell", "shutdown", None}]
    /\ pidInit \in [Launchers -> Pids \cup {None}]
    /\ proc \in [Pids -> Up \cup {"free", "zombie", "other", "foreign"}]
    /\ parent \in [Pids -> Launchers \cup {None}]
    /\ pidFile \in Pids \cup {None, Empty}

(* How far a server has come. *)
Servers ==
    \A p \in Pids : /\ p \in wrote => proc[p] \notin {"free", "other", "foreign", "boot"}
                    /\ p \in dropped => proc[p] \in {"serving", "listening", "zombie"}
                    /\ proc[p] \in {"serving", "listening"} => p \in dropped
                    /\ p \in launchd => proc[p] \in {"cloned", "serving", "listening"}
                    /\ p \in lost => proc[p] \in Up

HasTarget(l) ==
    \/ pc[l] \in {"connect", "connected", "kill", "killBoth"}
    \/ pc[l] = "decide" /\ pidInit[l] # None

(* Its target has a launchd or will never have one. *)
IsSure(l) == \/ ~Root \/ pc[l] = "connected"
             \/ pc[l] \in {"kill", "killBoth"} /\ command[l] # "shutdown"

KnowsTarget(l) ==
    /\ pc[l] \in {"check", "readPipe", "register", "writePid", "wait"} => pidInit[l] \in Pids
    /\ HasTarget(l) => pidInit[l] \in Pids /\ proc[pidInit[l]] # "other"
    /\ HasTarget(l) /\ IsSure(l) => proc[pidInit[l]] \notin {"boot", "ready", "cloned"}
    /\ pc[l] = "killBoth" /\ IsSure(l) => pidInit[l] \notin launchd \/ l \in sawLaunchd
    /\ Registers(l) => parent[pidInit[l]] = l
    /\ pc[l] \in {"register", "writePid"} => proc[pidInit[l]] # "boot"

Targets == \A l \in Launchers : KnowsTarget(l)

LauncherInv == LauncherTypes /\ Servers /\ Targets

Found == Running \ lost
IsAlone(l) == (Searches(l) \/ Registers(l)) /\ l \notin overlapped

OneAlone == \A l, m \in Launchers : IsAlone(l) /\ (Searches(m) \/ Registers(m)) => l = m

Registered ==
    \A p \in Found :
        /\ pidFile = p \/ \E l \in Launchers : Registers(l) /\ pidInit[l] = p
        /\ proc[p] = "boot" => \E l \in Launchers : pc[l] = "readPipe" /\ pidInit[l] = p

LooksRight(l) ==
    /\ Searches(l) => \A p \in Found : Root \/ proc[p] \in {"serving", "listening"}
    /\ pc[l] = "check" => pidFile = pidInit[l]
    /\ pc[l] \in {"unlink", "spawn"} \/ (pc[l] = "decide" /\ pidInit[l] = None) => Found = {}
    /\ Registers(l) => Found \subseteq {pidInit[l]}
    /\ pc[l] = "writePid" => l \in named /\ pidFile = Empty

Looking == \A l \in Launchers : IsAlone(l) => LooksRight(l)

OneContainer == OneAlone /\ Registered /\ Looking

(* What deaths and the exit of a launcher do to the processes. *)
LEMMA ExitsFacts ==
    ASSUME LauncherTypes, NEW dead \in SUBSET Pids, NEW gone \in SUBSET Launchers, Exits(dead, gone)
    PROVE  /\ proc' \in [Pids -> Up \cup {"free", "zombie", "other", "foreign"}]
           /\ parent' \in [Pids -> Launchers \cup {None}]
           /\ \A p \in Pids :
                 /\ parent[p] \notin gone => parent'[p] = parent[p]
                 /\ p \notin dead /\ proc[p] # "zombie" => proc'[p] = proc[p]
                 /\ p \in dead \/ proc[p] = "zombie" => proc'[p] \in {"free", "zombie"}
                 /\ p \in wrote' => p \in wrote /\ proc'[p] \in {proc[p], "zombie"}
                 /\ p \in dropped' => p \in dropped /\ proc'[p] \in {proc[p], "zombie"}
                 /\ p \in dropped /\ proc'[p] # "free" => p \in dropped'
<1> DEFINE orphan(p) == parent[p] \in gone \cup {None}
           freed(p) == orphan(p) /\ (p \in dead \/ proc[p] = "zombie")
<1>1. /\ proc' = [p \in Pids |-> IF freed(p) THEN "free" ELSE IF p \in dead THEN "zombie" ELSE proc[p]]
      /\ parent' = [p \in Pids |-> IF orphan(p) THEN None ELSE parent[p]]
      /\ wrote' = {p \in wrote : ~freed(p)}
      /\ dropped' = {p \in dropped : ~freed(p)}
  BY Zenon DEF Exits
<1>2. QED BY <1>1 DEF LauncherTypes, Up

LEMMA ExitFacts ==
    ASSUME LauncherTypes, NEW l \in Launchers, NEW dead \in SUBSET Pids, Exit(l, dead)
    PROVE  /\ pc' = [pc EXCEPT ![l] = "new"] /\ pidInit' = [pidInit EXCEPT ![l] = None]
           /\ sawLaunchd' = sawLaunchd \ {l} /\ named' = named \ {l}
           /\ command' = [command EXCEPT ![l] = None] /\ overlapped' = overlapped \ {l}
           /\ Exits(dead, {l})
  BY DEF Exit, Goto

(* Who exits, and when. *)
LEMMA Exiting ==
    ASSUME LauncherInv, NEW l \in Launchers,
           Decide(l) \/ SpawnFails(l) \/ ReadPipe(l) \/ WaitForSocket(l) \/ Connect(l)
             \/ EndSession(l) \/ KillBoth(l) \/ Killed(l)
    PROVE  \/ \E dead \in SUBSET Pids :
                 /\ Exit(l, dead)
                 /\ launchd' = launchd \ dead /\ pidFile' = pidFile
                 /\ lost \ dead \subseteq lost' /\ lost' \subseteq (lost \cup Running) \ dead
           \/ /\ Decide(l) \/ ReadPipe(l) \/ WaitForSocket(l) \/ Connect(l)
              /\ UNCHANGED <<command, pidInit, sawLaunchd, overlapped, files, procs, launchd, lost>>
<1>1. CASE Decide(l) \/ ReadPipe(l)
  BY <1>1 DEF Decide, ReadPipe, locals, files, procs
<1>2. CASE WaitForSocket(l) \/ Connect(l)
  BY <1>2 DEF WaitForSocket, Connect, Turn, locals, files, procs
<1>3. CASE SpawnFails(l) \/ EndSession(l) \/ Killed(l)
  BY <1>3 DEF SpawnFails, EndSession, Killed
<1>4. CASE KillBoth(l)
  <2> DEFINE dead == {pidInit[l]} \cap {p \in Pids : proc[p] \in Up \cup {"other", "foreign"}}
  <2>1. Exit(l, dead) /\ launchd' = launchd \ {pidInit[l]} /\ lost' = lost \ {pidInit[l]}
        /\ pidFile' = pidFile
    BY <1>4, Zenon DEF KillBoth
  <2>2. pidInit[l] \in Pids
    BY <1>4 DEF KillBoth, LauncherInv, Targets, KnowsTarget, HasTarget
  <2>3. pidInit[l] \notin dead => pidInit[l] \notin launchd /\ pidInit[l] \notin lost
    BY <2>2 DEF LauncherInv, Servers, Up
  <2>4. dead \in SUBSET Pids /\ dead \subseteq {pidInit[l]}
    OBVIOUS
  <2> HIDE DEF dead
  <2>5. launchd' = launchd \ dead /\ lost' = lost \ dead
    BY <2>1, <2>3, <2>4
  <2>6. QED BY <2>1, <2>4, <2>5
<1>5. QED BY <1>1, <1>2, <1>3, <1>4

LEMMA LauncherTypesStep ==
    ASSUME LauncherInv, [Next]_vars
    PROVE  LauncherTypes'
<1> USE DEF LauncherTypes, Goto, locals, files, procs
<1>0. LauncherTypes
  BY DEF LauncherInv
<1>1. ASSUME NEW l \in Launchers,
             Start(l) \/ ReadPidFile(l) \/ CheckProcess(l) \/ UnlinkPidFile(l)
      PROVE  LauncherTypes'
  BY <1>0, <1>1 DEF Start, ReadPidFile, CheckProcess, UnlinkPidFile
<1>2. ASSUME NEW l \in Launchers, SpawnInit(l)
      PROVE  LauncherTypes'
  BY <1>0, <1>2 DEF SpawnInit, Up
<1>3. ASSUME NEW l \in Launchers,
             CreatePidFile(l) \/ WritePid(l) \/ FindLaunchd(l) \/ Terminate(l)
      PROVE  LauncherTypes'
  <2>1. pidInit[l] \in Pids \/ ~WritePid(l)
    BY DEF LauncherInv, Targets, KnowsTarget, WritePid
  <2>2. QED BY <1>0, <1>3, <2>1 DEF CreatePidFile, WritePid, FindLaunchd, Terminate
<1>4. ASSUME NEW l \in Launchers,
             Decide(l) \/ SpawnFails(l) \/ ReadPipe(l) \/ WaitForSocket(l) \/ Connect(l)
               \/ EndSession(l) \/ KillBoth(l) \/ Killed(l)
      PROVE  LauncherTypes'
  <2>1. ASSUME NEW dead \in SUBSET Pids, Exit(l, dead), pidFile' = pidFile
        PROVE  LauncherTypes'
    <3>1. /\ pc' = [pc EXCEPT ![l] = "new"] /\ pidInit' = [pidInit EXCEPT ![l] = None]
          /\ command' = [command EXCEPT ![l] = None]
          /\ Exits(dead, {l})
      BY <1>0, <2>1, ExitFacts
    <3>2. /\ proc' \in [Pids -> Up \cup {"free", "zombie", "other", "foreign"}]
          /\ parent' \in [Pids -> Launchers \cup {None}]
      BY <1>0, <3>1, ExitsFacts
    <3>3. QED BY <1>0, <2>1, <3>1, <3>2
  <2>2. ASSUME Decide(l) \/ ReadPipe(l) \/ WaitForSocket(l) \/ Connect(l),
               UNCHANGED <<command, pidInit, files, procs>>
        PROVE  LauncherTypes'
    <3>1. pc' = pc \/ \E x \in {"new", "kill", "spawn", "connect", "connected", "register"} :
                        pc' = [pc EXCEPT ![l] = x]
      BY <2>2 DEF Decide, ReadPipe, WaitForSocket, Connect, Turn, Exit
    <3>2. QED BY <1>0, <2>2, <3>1
  <2>3. QED BY <1>4, <2>1, <2>2, Exiting
<1>5. ASSUME NEW p \in Pids, Boot(p) \/ ServerDies(p) \/ ShellspawnEnds(p) \/ Reuse(p)
      PROVE  LauncherTypes'
  <2>1. CASE Exits({p}, {})
    BY <1>0, <1>5, <2>1, ExitsFacts DEF Boot, ServerDies, ShellspawnEnds, Reuse
  <2>2. CASE ~Exits({p}, {})
    BY <1>0, <1>5, <2>2 DEF Boot, ServerDies, ShellspawnEnds, Reuse, Up
  <2>3. QED BY <2>1, <2>2
<1>6. CASE UNCHANGED vars
  BY <1>0, <1>6 DEF vars
<1>7. QED BY <1>1, <1>2, <1>3, <1>4, <1>5, <1>6 DEF Next, Step

LEMMA ServersStep ==
    ASSUME LauncherInv, [Next]_vars
    PROVE  Servers'
<1> USE DEF Goto, locals, files, procs
<1>0. LauncherTypes /\ Servers
  BY DEF LauncherInv
<1>a. ASSUME NEW dead \in SUBSET Pids, NEW gone \in SUBSET Launchers, Exits(dead, gone),
             launchd' \subseteq launchd \ dead, lost' \subseteq (lost \cup Running) \ dead
      PROVE  Servers'
  <2>1. ASSUME NEW p \in Pids
        PROVE  /\ p \notin dead /\ proc[p] # "zombie" => proc'[p] = proc[p]
               /\ p \in dead \/ proc[p] = "zombie" => proc'[p] \in {"free", "zombie"}
               /\ p \in wrote' => p \in wrote /\ proc'[p] \in {proc[p], "zombie"}
               /\ p \in dropped' => p \in dropped /\ proc'[p] \in {proc[p], "zombie"}
               /\ p \in dropped /\ proc'[p] # "free" => p \in dropped'
    BY <1>0, <1>a, ExitsFacts
  <2>2. ASSUME NEW p \in Pids
        PROVE  /\ p \in launchd' => proc'[p] \in {"cloned", "serving", "listening"}
               /\ p \in lost' => proc'[p] \in Up
    BY <1>0, <1>a, <2>1 DEF Servers, Running, Up
  <2>3. QED BY <1>0, <2>1, <2>2 DEF Servers
<1>b. ASSUME UNCHANGED <<procs, launchd>>, lost' \subseteq lost \cup Running PROVE Servers'
  BY <1>0, <1>b DEF Servers, Running
<1>1. ASSUME NEW l \in Launchers,
             Start(l) \/ ReadPidFile(l) \/ CheckProcess(l) \/ UnlinkPidFile(l) \/ CreatePidFile(l)
               \/ WritePid(l) \/ FindLaunchd(l) \/ Terminate(l)
      PROVE  Servers'
  <2>1. UNCHANGED <<procs, launchd>>
    BY <1>1 DEF Start, ReadPidFile, CheckProcess, UnlinkPidFile, CreatePidFile, WritePid,
       FindLaunchd, Terminate
  <2>2. Overwritten(l) \subseteq Running
    BY DEF Overwritten
  <2>3. lost' \subseteq lost \cup Running
    BY <1>1, <2>2 DEF Start, ReadPidFile, CheckProcess, UnlinkPidFile, CreatePidFile, WritePid,
       FindLaunchd, Terminate
  <2>4. QED BY <1>b, <2>1, <2>3
<1>2. ASSUME NEW l \in Launchers, SpawnInit(l)
      PROVE  Servers'
  BY <1>0, <1>2 DEF SpawnInit, Servers, LauncherTypes, Up
<1>3. ASSUME NEW l \in Launchers,
             Decide(l) \/ SpawnFails(l) \/ ReadPipe(l) \/ WaitForSocket(l) \/ Connect(l)
               \/ EndSession(l) \/ KillBoth(l) \/ Killed(l)
      PROVE  Servers'
  <2>1. ASSUME NEW dead \in SUBSET Pids, Exit(l, dead),
               launchd' = launchd \ dead, lost' \subseteq (lost \cup Running) \ dead
        PROVE  Servers'
    BY <1>a, <2>1 DEF Exit
  <2>2. QED BY <1>3, <1>b, <2>1, Exiting
<1>4. ASSUME NEW p \in Pids, Boot(p)
      PROVE  Servers'
  <2>1. CASE proc[p] = "boot" /\ parent[p] = None
    <3>1. Exits({p}, {}) /\ lost' = lost \ {p} /\ launchd' = launchd /\ p \notin launchd
      BY <1>0, <1>4, <2>1 DEF Boot, Servers
    <3>2. QED BY <1>a, <3>1
  <2>2. CASE ~(proc[p] = "boot" /\ parent[p] = None)
    BY <1>0, <1>4, <2>2 DEF Boot, Servers, LauncherTypes, Up
  <2>3. QED BY <2>1, <2>2
<1>5. ASSUME NEW p \in Pids, ServerDies(p)
      PROVE  Servers'
  BY <1>5, <1>a DEF ServerDies
<1>6. ASSUME NEW p \in Pids, ShellspawnEnds(p) \/ Reuse(p)
      PROVE  Servers'
  BY <1>0, <1>6 DEF ShellspawnEnds, Reuse, Listening, Servers, LauncherTypes, Up
<1>7. CASE UNCHANGED vars
  BY <1>7, <1>b DEF vars
<1>8. QED BY <1>1, <1>2, <1>3, <1>4, <1>5, <1>6, <1>7 DEF Next, Step

(* The process whose ID a launcher works with is not replaced by another, and a server
   that is past the clone of launchd gets no other. *)
LEMMA TargetsStay ==
    ASSUME LauncherInv, [Next]_vars, NEW p \in Pids, InUse(p)
    PROVE  /\ proc[p] # "other" => proc'[p] # "other"
           /\ proc[p] # "boot" => proc'[p] # "boot"
           /\ proc[p] \notin {"boot", "ready", "cloned"} =>
                 /\ proc'[p] \notin {"boot", "ready", "cloned"}
                 /\ p \in launchd' => p \in launchd
           /\ \A m \in Launchers : parent[p] = m /\ pc[m] # "new" /\ pc'[m] = pc[m] => parent'[p] = m
<1> USE DEF Goto, locals, files, procs
<1>0. LauncherTypes /\ Servers
  BY DEF LauncherInv
<1> DEFINE Parents == \A m \in Launchers :
                         parent[p] = m /\ pc[m] # "new" /\ pc'[m] = pc[m] => parent'[p] = m
           Stays == /\ proc[p] # "other" => proc'[p] # "other"
                    /\ proc[p] # "boot" => proc'[p] # "boot"
                    /\ proc[p] \notin {"boot", "ready", "cloned"} =>
                          /\ proc'[p] \notin {"boot", "ready", "cloned"}
                          /\ p \in launchd' => p \in launchd
                    /\ Parents
<1>a. ASSUME NEW dead \in SUBSET Pids, NEW gone \in SUBSET Launchers, Exits(dead, gone),
             launchd' \subseteq launchd, \A m \in gone : pc'[m] = "new"
      PROVE  Stays
  <2>1. /\ parent[p] \notin gone => parent'[p] = parent[p]
        /\ p \notin dead /\ proc[p] # "zombie" => proc'[p] = proc[p]
        /\ p \in dead \/ proc[p] = "zombie" => proc'[p] \in {"free", "zombie"}
    BY <1>0, <1>a, ExitsFacts
  <2>2. Parents
    BY <1>a, <2>1
  <2>3. QED BY <1>a, <2>1, <2>2
<1>1. ASSUME NEW l \in Launchers,
             Start(l) \/ ReadPidFile(l) \/ CheckProcess(l) \/ UnlinkPidFile(l) \/ CreatePidFile(l)
               \/ WritePid(l) \/ FindLaunchd(l) \/ Terminate(l)
      PROVE  Stays
  <2>1. UNCHANGED <<procs, launchd>>
    BY <1>1 DEF Start, ReadPidFile, CheckProcess, UnlinkPidFile, CreatePidFile, WritePid,
       FindLaunchd, Terminate
  <2>2. QED BY <2>1
<1>2. ASSUME NEW l \in Launchers, SpawnInit(l)
      PROVE  Stays
  BY <1>0, <1>2 DEF SpawnInit, LauncherTypes
<1>3. ASSUME NEW l \in Launchers,
             Decide(l) \/ SpawnFails(l) \/ ReadPipe(l) \/ WaitForSocket(l) \/ Connect(l)
               \/ EndSession(l) \/ KillBoth(l) \/ Killed(l)
      PROVE  Stays
  <2>1. ASSUME NEW dead \in SUBSET Pids, Exit(l, dead), launchd' = launchd \ dead
        PROVE  Stays
    <3>1. Exits(dead, {l}) /\ pc'[l] = "new"
      BY <1>0, <2>1, ExitFacts DEF LauncherTypes
    <3>2. launchd' \subseteq launchd /\ {l} \in SUBSET Launchers /\ \A m \in {l} : pc'[m] = "new"
      BY <2>1, <3>1
    <3>3. QED BY <1>a, <3>1, <3>2
  <2>2. ASSUME UNCHANGED <<procs, launchd>> PROVE Stays
    BY <2>2
  <2>3. QED BY <1>3, <2>1, <2>2, Exiting
<1>4. ASSUME NEW q \in Pids, Boot(q)
      PROVE  Stays
  <2>1. CASE proc[q] = "boot" /\ parent[q] = None
    <3>1. Exits({q}, {}) /\ launchd' = launchd
      BY <1>4, <2>1 DEF Boot
    <3>2. QED BY <1>a, <3>1
  <2>2. CASE ~(proc[q] = "boot" /\ parent[q] = None)
    BY <1>0, <1>4, <2>2 DEF Boot, LauncherTypes
  <2>3. QED BY <2>1, <2>2
<1>5. ASSUME NEW q \in Pids, ServerDies(q)
      PROVE  Stays
  BY <1>5, <1>a DEF ServerDies
<1>6. ASSUME NEW q \in Pids, ShellspawnEnds(q) \/ Reuse(q)
      PROVE  Stays
  BY <1>0, <1>6 DEF ShellspawnEnds, Reuse, Listening, LauncherTypes
<1>7. CASE UNCHANGED vars
  BY <1>7 DEF vars
<1>8. QED BY <1>1, <1>2, <1>3, <1>4, <1>5, <1>6, <1>7 DEF Next, Step

LEMMA TargetsStep ==
    ASSUME LauncherInv, [Next]_vars
    PROVE  Targets'
<1> USE DEF Goto, locals, files, procs
<1>0. LauncherTypes /\ Servers /\ Targets
  BY DEF LauncherInv
<1>a. ASSUME NEW m \in Launchers, pc'[m] = pc[m], pidInit'[m] = pidInit[m], command'[m] = command[m],
             m \in sawLaunchd => m \in sawLaunchd'
      PROVE  KnowsTarget(m)'
  <2>1. /\ HasTarget(m)' <=> HasTarget(m)
        /\ IsSure(m)' <=> IsSure(m)
        /\ Registers(m)' <=> Registers(m)
    BY <1>a DEF HasTarget, IsSure, Registers
  <2>2. KnowsTarget(m)
    BY <1>0 DEF Targets
  <2>3. ASSUME HasTarget(m) \/ Registers(m)
        PROVE  /\ proc[pidInit[m]] # "other" => proc'[pidInit[m]] # "other"
               /\ proc[pidInit[m]] # "boot" => proc'[pidInit[m]] # "boot"
               /\ proc[pidInit[m]] \notin {"boot", "ready", "cloned"} =>
                     /\ proc'[pidInit[m]] \notin {"boot", "ready", "cloned"}
                     /\ pidInit[m] \in launchd' => pidInit[m] \in launchd
               /\ parent[pidInit[m]] = m => parent'[pidInit[m]] = m
    <3>1. pidInit[m] \in Pids /\ pc[m] # "new"
      BY <2>2, <2>3 DEF KnowsTarget, HasTarget, Registers
    <3>2. InUse(pidInit[m])
      BY <3>1 DEF InUse, Alive
    <3>3. QED BY <1>a, <3>1, <3>2, TargetsStay
  <2>4. /\ pc[m] = "killBoth" => HasTarget(m)
        /\ pc[m] \in {"register", "writePid"} => Registers(m)
    BY DEF HasTarget, Registers
  <2>5. QED BY <1>a, <2>1, <2>2, <2>3, <2>4 DEF KnowsTarget
<1>b. ASSUME NEW l \in Launchers, KnowsTarget(l)',
             \A m \in Launchers \ {l} : /\ pc'[m] = pc[m] /\ pidInit'[m] = pidInit[m]
                                        /\ command'[m] = command[m]
                                        /\ m \in sawLaunchd => m \in sawLaunchd'
      PROVE  Targets'
  <2>1. ASSUME NEW m \in Launchers PROVE KnowsTarget(m)'
    <3>1. CASE m = l
      BY <1>b, <3>1, Zenon
    <3>2. CASE m # l
      BY <1>a, <1>b, <3>2
    <3>3. QED BY <3>1, <3>2
  <2>2. QED BY <2>1 DEF Targets
<1>1. ASSUME NEW l \in Launchers, Start(l) \/ UnlinkPidFile(l)
      PROVE  Targets'
  <2>1. KnowsTarget(l)'
    BY <1>0, <1>1 DEF Start, UnlinkPidFile, KnowsTarget, HasTarget, Registers, LauncherTypes
  <2>2. QED BY <1>0, <1>1, <1>b, <2>1 DEF Start, UnlinkPidFile, LauncherTypes
<1>2. ASSUME NEW l \in Launchers, ReadPidFile(l)
      PROVE  Targets'
  <2>1. KnowsTarget(l)'
    BY <1>0, <1>2, LauncherAssumption
       DEF ReadPidFile, KnowsTarget, HasTarget, Registers, LauncherTypes
  <2>2. QED BY <1>0, <1>2, <1>b, <2>1 DEF ReadPidFile, LauncherTypes
<1>3. ASSUME NEW l \in Launchers, CheckProcess(l)
      PROVE  Targets'
  <2>1. pidInit[l] \in Pids /\ pidInit' = pidInit /\ proc' = proc /\ command' = command
    BY <1>0, <1>3 DEF CheckProcess, Targets, KnowsTarget
  <2>2. IsInit(pidInit[l]) => /\ proc[pidInit[l]] # "other"
                              /\ ~Root => proc[pidInit[l]] \notin {"boot", "ready", "cloned"}
    BY <1>0, <2>1 DEF IsInit, Servers, Up
  <2>3. pc' = [pc EXCEPT ![l] = IF Exists(pidInit[l]) /\ IsInit(pidInit[l]) THEN "decide" ELSE "unlink"]
    BY <1>3 DEF CheckProcess
  <2>4. KnowsTarget(l)'
    BY <1>0, <2>1, <2>2, <2>3 DEF KnowsTarget, HasTarget, IsSure, Registers, LauncherTypes
  <2>5. QED BY <1>0, <1>3, <1>b, <2>3, <2>4 DEF CheckProcess, LauncherTypes
<1>4. ASSUME NEW l \in Launchers, SpawnInit(l)
      PROVE  Targets'
  <2>1. PICK p \in Pids : /\ pidInit' = [pidInit EXCEPT ![l] = p]
                          /\ parent' = [parent EXCEPT ![p] = l]
    BY <1>4 DEF SpawnInit
  <2>2. KnowsTarget(l)'
    BY <1>0, <1>4, <2>1 DEF SpawnInit, KnowsTarget, HasTarget, LauncherTypes
  <2>3. QED BY <1>0, <1>4, <1>b, <2>1, <2>2 DEF SpawnInit, LauncherTypes
<1>5. ASSUME NEW l \in Launchers, CreatePidFile(l) \/ WritePid(l) \/ Terminate(l)
      PROVE  Targets'
  <2>1. KnowsTarget(l)'
    BY <1>0, <1>5 DEF CreatePidFile, WritePid, Terminate, Targets, KnowsTarget, HasTarget, IsSure,
       Registers, LauncherTypes
  <2>2. QED BY <1>0, <1>5, <1>b, <2>1 DEF CreatePidFile, WritePid, Terminate, LauncherTypes
<1>6. ASSUME NEW l \in Launchers, FindLaunchd(l)
      PROVE  Targets'
  <2>1. KnowsTarget(l)'
    BY <1>0, <1>6 DEF FindLaunchd, Targets, KnowsTarget, HasTarget, IsSure, Registers, LauncherTypes
  <2>2. QED BY <1>0, <1>6, <1>b, <2>1 DEF FindLaunchd, LauncherTypes
<1>7. ASSUME NEW l \in Launchers,
             Decide(l) \/ SpawnFails(l) \/ ReadPipe(l) \/ WaitForSocket(l) \/ Connect(l)
               \/ EndSession(l) \/ KillBoth(l) \/ Killed(l)
      PROVE  Targets'
  <2>1. ASSUME NEW dead \in SUBSET Pids, Exit(l, dead)
        PROVE  Targets'
    <3>1. /\ pc' = [pc EXCEPT ![l] = "new"] /\ pidInit' = [pidInit EXCEPT ![l] = None]
          /\ sawLaunchd' = sawLaunchd \ {l} /\ command' = [command EXCEPT ![l] = None]
      BY <1>0, <2>1, ExitFacts
    <3>2. KnowsTarget(l)'
      BY <1>0, <3>1 DEF KnowsTarget, HasTarget, Registers, LauncherTypes
    <3>3. QED BY <1>0, <1>b, <3>1, <3>2 DEF LauncherTypes
  <2>2. ASSUME Decide(l) \/ ReadPipe(l) \/ WaitForSocket(l) \/ Connect(l),
               UNCHANGED <<command, pidInit, sawLaunchd, overlapped, files, procs, launchd, lost>>,
               ~ \E dead \in SUBSET Pids : Exit(l, dead)
        PROVE  Targets'
    <3>1. CASE Decide(l)
      <4>1. /\ pc' = [pc EXCEPT ![l] = IF command[l] = "shutdown" THEN "kill"
                                      ELSE IF pidInit[l] = None THEN "spawn" ELSE "connect"]
            /\ ~(command[l] = "shutdown" /\ pidInit[l] = None) /\ pc[l] = "decide"
        BY <2>2, <3>1 DEF Decide
      <4>2. KnowsTarget(l)'
        BY <1>0, <2>2, <4>1 DEF Targets, KnowsTarget, HasTarget, IsSure, Registers, LauncherTypes
      <4>3. QED BY <1>0, <1>b, <2>2, <4>1, <4>2 DEF LauncherTypes
    <3>2. CASE ReadPipe(l)
      <4>1. pc' = [pc EXCEPT ![l] = "register"] /\ pc[l] = "readPipe" /\ pidInit[l] \in Pids
        BY <1>0, <2>2, <3>2 DEF ReadPipe, Targets, KnowsTarget
      <4>2. proc[pidInit[l]] # "boot"
        <5>1. pidInit[l] \in wrote
          BY <2>2, <3>2 DEF ReadPipe
        <5>2. QED BY <1>0, <4>1, <5>1 DEF Servers
      <4>3. KnowsTarget(l)'
        BY <1>0, <2>2, <4>1, <4>2 DEF Targets, KnowsTarget, HasTarget, Registers, LauncherTypes
      <4>4. QED BY <1>0, <1>b, <2>2, <4>1, <4>3 DEF LauncherTypes
    <3>3. CASE WaitForSocket(l)
      <4>1. /\ pc[l] = "wait"
            /\ pc' = pc \/ (SocketFile(pidInit[l]) /\ pc' = [pc EXCEPT ![l] = "connect"])
        BY <2>2, <3>3 DEF WaitForSocket, Turn
      <4>2. KnowsTarget(l)'
        BY <1>0, <2>2, <4>1 DEF SocketFile, Targets, KnowsTarget, HasTarget, IsSure, Registers,
           LauncherTypes
      <4>3. QED BY <1>0, <1>b, <2>2, <4>1, <4>2 DEF LauncherTypes
    <3>4. CASE Connect(l)
      <4>1. /\ pc[l] = "connect"
            /\ pc' = pc \/ (Listening(pidInit[l]) /\ pc' = [pc EXCEPT ![l] = "connected"])
        BY <2>2, <3>4 DEF Connect, Turn
      <4>2. KnowsTarget(l)'
        BY <1>0, <2>2, <4>1 DEF Listening, Targets, KnowsTarget, HasTarget, IsSure, Registers,
           LauncherTypes
      <4>3. QED BY <1>0, <1>b, <2>2, <4>1, <4>2 DEF LauncherTypes
    <3>5. QED BY <2>2, <3>1, <3>2, <3>3, <3>4
  <2>3. QED BY <1>7, <2>1, <2>2, Exiting
<1>8. ASSUME NEW p \in Pids, Boot(p) \/ ServerDies(p) \/ ShellspawnEnds(p) \/ Reuse(p)
      PROVE  Targets'
  BY <1>8, <1>a DEF Boot, ServerDies, ShellspawnEnds, Reuse, Targets
<1>9. CASE UNCHANGED vars
  BY <1>9, <1>a DEF vars, Targets
<1>10. QED BY <1>1, <1>2, <1>3, <1>4, <1>5, <1>6, <1>7, <1>8, <1>9 DEF Next, Step

LEMMA LauncherInvariance == Spec => []LauncherInv
<1>1. Init => LauncherInv
  BY LauncherAssumption DEF Init, LauncherInv, LauncherTypes, Servers, Targets, KnowsTarget,
     HasTarget, Registers, Up
<1>2. LauncherInv /\ [Next]_vars => LauncherInv'
  BY LauncherTypesStep, ServersStep, TargetsStep DEF LauncherInv
<1>3. QED BY <1>1, <1>2, PTL DEF Spec

(* A shutdown, or the SIGTERM of a session, never kills another program whose process ID
   is in a stale pid file, and leaves the launchd of the server it kills only if it is
   root's and the server has not yet cloned it: for any number of launchers, whenever they
   start and whatever kills them. *)
THEOREM OnlyServersAreKilled == Spec => KillsOnlyServers
<1>1. ASSUME LauncherInv, NEW l \in Launchers, KillBoth(l)
      PROVE  /\ proc[pidInit[l]] # "other"
             /\ pidInit[l] \in launchd => l \in sawLaunchd \/ (Root /\ command[l] = "shutdown")
  <2>1. KnowsTarget(l) /\ HasTarget(l) /\ pc[l] = "killBoth"
    BY <1>1 DEF LauncherInv, Targets, KillBoth, HasTarget
  <2>2. QED BY <1>1, <2>1 DEF KnowsTarget, IsSure
<1>2. LauncherInv /\ [Next]_vars =>
         [\A l \in Launchers :
             KillBoth(l) => /\ proc[pidInit[l]] # "other"
                            /\ pidInit[l] \in launchd =>
                                  l \in sawLaunchd \/ (Root /\ command[l] = "shutdown")]_vars
  BY <1>1
<1>3. QED BY <1>2, LauncherInvariance, PTL DEF Spec, KillsOnlyServers

-----------------------------------------------------------------------------
(* One step of the servers or of the host. *)
HostStep(p) == Boot(p) \/ ServerDies(p) \/ ShellspawnEnds(p) \/ Reuse(p)

LEMMA HostStepFacts ==
    ASSUME LauncherInv, NEW p \in Pids, HostStep(p)
    PROVE  /\ UNCHANGED <<pc, pidInit, overlapped, pidFile, named>>
           /\ \A q \in Pids : /\ proc'[q] \in Up => proc[q] \in Up /\ (q \in lost => q \in lost')
                              /\ proc'[q] = "boot" => proc[q] = "boot"
                              /\ proc[q] \in {"serving", "listening"} /\ proc'[q] \in Up =>
                                    proc'[q] \in {"serving", "listening"}
<1> USE DEF locals, files, procs
<1>0. LauncherTypes
  BY DEF LauncherInv
<1>1. UNCHANGED <<pc, pidInit, overlapped, pidFile, named>>
  BY DEF HostStep, Boot, ServerDies, ShellspawnEnds, Reuse
<1>2. CASE Exits({p}, {})
  <2>1. {p} \in SUBSET Pids /\ {} \in SUBSET Launchers
    OBVIOUS
  <2>2. \A q \in Pids : /\ q \notin {p} /\ proc[q] # "zombie" => proc'[q] = proc[q]
                        /\ q \in {p} \/ proc[q] = "zombie" => proc'[q] \in {"free", "zombie"}
    BY <1>0, <1>2, <2>1, ExitsFacts
  <2>3. lost' = lost \/ lost' = lost \ {p}
    BY DEF HostStep, Boot, ServerDies, ShellspawnEnds, Reuse
  <2>4. QED BY <1>1, <2>2, <2>3 DEF Up
<1>3. CASE ~Exits({p}, {})
  BY <1>0, <1>1, <1>3 DEF HostStep, Boot, ServerDies, ShellspawnEnds, Reuse, Listening, Up, LauncherTypes
<1>4. QED BY <1>2, <1>3

(* An exit registers nobody and leaves the servers that it does not kill alone. *)
LEMMA ExitFinds ==
    ASSUME LauncherInv, NEW l \in Launchers, NEW dead \in SUBSET Pids, Exit(l, dead),
           lost \ dead \subseteq lost'
    PROVE  /\ Found' \subseteq Found
           /\ \A p \in Found' : proc'[p] = proc[p]
<1>0. LauncherTypes /\ Exits(dead, {l})
  BY ExitFacts DEF LauncherInv
<1>1. \A p \in Pids : proc'[p] \in Up => proc'[p] = proc[p] /\ p \notin dead
  BY <1>0, ExitsFacts DEF Up
<1>2. QED BY <1>1 DEF Found, Running

(* A launcher that starts while another is at the pid file makes them all overlapped;
   nobody else comes to the pid file. *)
LEMMA OneAloneStep ==
    ASSUME LauncherInv, OneAlone, [Next]_vars
    PROVE  OneAlone'
<1> USE DEF Goto, locals, files, procs
<1>0. pc \in [Launchers -> {"new", "getInit", "check", "unlink", "decide", "spawn", "readPipe",
                            "register", "writePid", "wait", "connect", "connected", "kill",
                            "killBoth"}]
  BY DEF LauncherInv, LauncherTypes
<1>a. ASSUME NEW l \in Launchers, overlapped' = overlapped,
             \/ pc' = pc
             \/ \E x \in {"wait", "connect", "connected", "kill", "killBoth"} :
                   pc' = [pc EXCEPT ![l] = x]
             \/ (Searches(l) \/ Registers(l)) /\ \E x : pc' = [pc EXCEPT ![l] = x]
      PROVE  OneAlone'
  <2>1. ASSUME NEW m \in Launchers, Searches(m)' \/ Registers(m)'
        PROVE  Searches(m) \/ Registers(m)
    BY <1>0, <1>a, <2>1 DEF Searches, Registers
  <2>2. QED BY <1>a, <2>1 DEF OneAlone, IsAlone
<1>1. ASSUME NEW l \in Launchers, Start(l) PROVE OneAlone'
  <2>1. pc' = [pc EXCEPT ![l] = "getInit"]
        /\ overlapped' = IF Undisturbed THEN {} ELSE AtThePidFile \cup {l}
    BY <1>1 DEF Start
  <2>2. ASSUME NEW m \in Launchers, Searches(m)' \/ Registers(m)'
        PROVE  m = l \/ m \in AtThePidFile
    BY <1>0, <2>1, <2>2 DEF Searches, Registers, AtThePidFile
  <2>3. QED BY <2>1, <2>2 DEF OneAlone, IsAlone, Undisturbed
<1>2. ASSUME NEW l \in Launchers,
             ReadPidFile(l) \/ CheckProcess(l) \/ UnlinkPidFile(l) \/ SpawnInit(l)
               \/ CreatePidFile(l) \/ WritePid(l) \/ FindLaunchd(l) \/ Terminate(l)
      PROVE  OneAlone'
  <2>1. overlapped' = overlapped
    BY <1>2 DEF ReadPidFile, CheckProcess, UnlinkPidFile, SpawnInit, CreatePidFile, WritePid,
       FindLaunchd, Terminate
  <2>2. PICK x : /\ pc' = [pc EXCEPT ![l] = x]
                 /\ Searches(l) \/ Registers(l) \/ x \in {"kill", "killBoth"}
    BY <1>2 DEF ReadPidFile, CheckProcess, UnlinkPidFile, SpawnInit, CreatePidFile, WritePid,
       FindLaunchd, Terminate, Searches, Registers
  <2>3. QED BY <1>a, <2>1, <2>2
<1>3. ASSUME NEW l \in Launchers,
             Decide(l) \/ SpawnFails(l) \/ ReadPipe(l) \/ WaitForSocket(l) \/ Connect(l)
               \/ EndSession(l) \/ KillBoth(l) \/ Killed(l)
      PROVE  OneAlone'
  <2>1. ASSUME NEW dead \in SUBSET Pids, Exit(l, dead)
        PROVE  OneAlone'
    <3>1. pc' = [pc EXCEPT ![l] = "new"] /\ overlapped' = overlapped \ {l}
      BY <2>1, ExitFacts DEF LauncherInv
    <3>2. ASSUME NEW m \in Launchers, Searches(m)' \/ Registers(m)'
          PROVE  (Searches(m) \/ Registers(m)) /\ m # l
      BY <1>0, <3>1, <3>2 DEF Searches, Registers
    <3>3. QED BY <3>1, <3>2 DEF OneAlone, IsAlone
  <2>2. ASSUME Decide(l) \/ ReadPipe(l) \/ WaitForSocket(l) \/ Connect(l),
               overlapped' = overlapped, ~ \E dead \in SUBSET Pids : Exit(l, dead)
        PROVE  OneAlone'
    <3>1. CASE Decide(l) \/ ReadPipe(l)
      <4>1. Searches(l) \/ Registers(l)
        BY <3>1 DEF Decide, ReadPipe, Searches, Registers
      <4>2. \E x : pc' = [pc EXCEPT ![l] = x]
        BY <2>2, <3>1 DEF Decide, ReadPipe
      <4>3. QED BY <1>a, <2>2, <4>1, <4>2
    <3>2. CASE WaitForSocket(l) \/ Connect(l)
      <4>1. pc' = pc \/ \E x \in {"connect", "connected"} : pc' = [pc EXCEPT ![l] = x]
        BY <2>2, <3>2 DEF WaitForSocket, Connect, Turn
      <4>2. QED BY <1>a, <2>2, <4>1
    <3>3. QED BY <2>2, <3>1, <3>2
  <2>3. QED BY <1>3, <2>1, <2>2, Exiting
<1>4. CASE pc' = pc /\ overlapped' = overlapped
  BY <1>4 DEF OneAlone, IsAlone, Searches, Registers
<1>5. QED
  BY <1>1, <1>2, <1>3, <1>4, HostStepFacts DEF Next, Step, HostStep, vars

(* Who is not concerned by a step keeps looking right, *)
LEMMA KeepsLooking ==
    ASSUME NEW m \in Launchers, LooksRight(m), pc'[m] = pc[m], pidInit'[m] = pidInit[m],
           Found' \subseteq Found,
           \A p \in Found' : proc[p] \in {"serving", "listening"} => proc'[p] \in {"serving", "listening"},
           pidFile' = pidFile, m \in named => m \in named'
    PROVE  LooksRight(m)'
<1>1. (Searches(m)' <=> Searches(m)) /\ (Registers(m)' <=> Registers(m))
  BY DEF Searches, Registers
<1>2. QED BY <1>1 DEF LooksRight

(* and the servers that were registered stay so. *)
LEMMA StaysRegistered ==
    ASSUME Registered, Found' \subseteq Found, pidFile' = pidFile,
           \A p \in Found' : proc'[p] = "boot" => proc[p] = "boot",
           \A m \in Launchers : Registers(m) =>
              pidInit[m] \notin Found' \/ (pc'[m] = pc[m] /\ pidInit'[m] = pidInit[m])
    PROVE  Registered'
  BY DEF Registered, Registers

(* The steps of a launcher at the pid file: no other is alone there, so only its own view
   matters. *)
LEMMA OnlyItsView ==
    ASSUME OneAlone, NEW l \in Launchers, Searches(l) \/ Registers(l), overlapped' = overlapped,
           l \notin overlapped => LooksRight(l)',
           \A m \in Launchers \ {l} : pc'[m] = pc[m]
    PROVE  Looking'
<1>1. ASSUME NEW m \in Launchers, IsAlone(m)' PROVE LooksRight(m)'
  <2>1. CASE m = l
    <3>1. l \notin overlapped
      BY <1>1, <2>1 DEF IsAlone
    <3>2. QED BY <2>1, <3>1, Zenon
  <2>2. CASE m # l
    <3>1. IsAlone(m)
      BY <1>1, <2>2 DEF IsAlone, Searches, Registers
    <3>2. QED BY <2>2, <3>1 DEF OneAlone
  <2>3. QED BY <2>1, <2>2
<1>2. QED BY <1>1 DEF Looking

(* The exit of a launcher whose server, if it was registering one, is lost or dead. *)
LEMMA ExitKeeps ==
    ASSUME LauncherInv, OneContainer, NEW l \in Launchers, NEW dead \in SUBSET Pids, Exit(l, dead),
           lost \ dead \subseteq lost', pidFile' = pidFile, Registers(l) => pidInit[l] \notin Found'
    PROVE  Registered' /\ Looking'
<1>0. LauncherTypes /\ Registered /\ Looking
  BY DEF LauncherInv, OneContainer
<1>1. /\ pc' = [pc EXCEPT ![l] = "new"] /\ pidInit' = [pidInit EXCEPT ![l] = None]
      /\ named' = named \ {l} /\ overlapped' = overlapped \ {l}
  BY <1>0, ExitFacts
<1>2. /\ Found' \subseteq Found
      /\ \A p \in Found' : proc'[p] = proc[p]
  BY ExitFinds
<1>3. \A m \in Launchers \ {l} : pc'[m] = pc[m] /\ pidInit'[m] = pidInit[m]
  BY <1>0, <1>1 DEF LauncherTypes
<1>4. Registered'
  BY <1>0, <1>2, <1>3, StaysRegistered
<1>5. ASSUME NEW m \in Launchers, IsAlone(m)' PROVE LooksRight(m)'
  <2>1. m # l
    BY <1>0, <1>1, <1>5 DEF LauncherTypes, IsAlone, Searches, Registers
  <2>2. IsAlone(m)
    BY <1>1, <1>3, <1>5, <2>1 DEF IsAlone, Searches, Registers
  <2>3. LooksRight(m)
    BY <1>0, <2>2 DEF Looking
  <2>4. QED BY <1>1, <1>2, <1>3, <2>1, <2>3, KeepsLooking
<1>6. QED BY <1>4, <1>5 DEF Looking

(* While no launcher registers one, a server that can be found is in the pid file. *)
LEMMA FoundInThePidFile ==
    ASSUME OneAlone, Registered, NEW l \in Launchers, IsAlone(l), Searches(l), NEW p \in Found
    PROVE  pidFile = p
<1>1. \A m \in Launchers : ~Registers(m)
  BY DEF OneAlone, IsAlone, Searches, Registers
<1>2. QED BY <1>1 DEF Registered

LEMMA StartFinds ==
    ASSUME LauncherInv, OneContainer, NEW l \in Launchers, Start(l)
    PROVE  Registered' /\ Looking'
<1>0. LauncherTypes /\ OneAlone /\ Registered /\ Looking
  BY DEF LauncherInv, OneContainer
<1>1. /\ pc[l] = "new" /\ pc' = [pc EXCEPT ![l] = "getInit"]
      /\ overlapped' = IF Undisturbed THEN {} ELSE AtThePidFile \cup {l}
      /\ UNCHANGED <<pidInit, pidFile, named, proc, parent, lost>>
  BY DEF Start, Goto, files, procs
<1>2. Found' = Found /\ ~Registers(l)
  BY <1>1 DEF Found, Running, Registers
<1>3. Registered'
  BY <1>0, <1>1, <1>2, StaysRegistered DEF LauncherTypes
<1>4. ASSUME NEW m \in Launchers, IsAlone(m)' PROVE m = l /\ Undisturbed
  BY <1>0, <1>1, <1>4 DEF LauncherTypes, IsAlone, Undisturbed, AtThePidFile, Searches, Registers
<1>5. ASSUME Undisturbed PROVE LooksRight(l)'
  <2>1. \A m \in Launchers : ~Registers(m) /\ pc[m] # "readPipe"
    BY <1>5 DEF Undisturbed, AtThePidFile, Registers
  <2>2. \A p \in Found : Root \/ proc[p] \in {"serving", "listening"}
    BY <1>0, <1>5, <2>1 DEF Registered, Found, Running, Up, Undisturbed
  <2>3. pc'[l] = "getInit"
    BY <1>0, <1>1 DEF LauncherTypes
  <2>4. QED BY <1>1, <1>2, <2>2, <2>3 DEF LooksRight, Searches, Registers
<1>6. ASSUME NEW m \in Launchers, IsAlone(m)' PROVE LooksRight(m)'
  BY <1>4, <1>5, <1>6, Zenon
<1>7. QED BY <1>3, <1>6 DEF Looking

(* A step of the search: getInitProcess and the decision of main. *)
LEMMA SearchFinds ==
    ASSUME LauncherInv, OneContainer, NEW l \in Launchers,
           ReadPidFile(l) \/ CheckProcess(l) \/ UnlinkPidFile(l)
    PROVE  Registered' /\ Looking'
<1> USE DEF Goto, locals, files, procs
<1>0. LauncherTypes /\ Servers /\ OneAlone /\ Registered /\ Looking /\ (IsAlone(l) => LooksRight(l))
  BY DEF LauncherInv, OneContainer, Looking
<1>1. /\ Searches(l) /\ ~Registers(l)
      /\ UNCHANGED <<proc, parent, dropped, overlapped>>
  BY DEF ReadPidFile, CheckProcess, UnlinkPidFile, Searches, Registers
<1>2. ASSUME l \notin overlapped
      PROVE  /\ IsAlone(l) /\ LooksRight(l)
             /\ \A p \in Found : p \in Pids /\ pidFile = p /\ (Root \/ proc[p] \in {"serving", "listening"})
  <2>1. IsAlone(l) /\ LooksRight(l)
    BY <1>0, <1>1, <1>2 DEF IsAlone
  <2>2. \A p \in Found : p \in Pids
    BY DEF Found, Running
  <2>3. QED BY <1>0, <1>1, <2>1, <2>2, FoundInThePidFile DEF LooksRight
<1>3. lost' = lost => Found' = Found
  BY <1>1 DEF Found, Running
<1>4. CASE ReadPidFile(l)
  <2>1. /\ pidInit' = [pidInit EXCEPT ![l] = IF pidFile \in Pids THEN pidFile ELSE None]
        /\ pc' = [pc EXCEPT ![l] = IF pidFile = None THEN "decide"
                                   ELSE IF pidFile = Empty THEN "unlink" ELSE "check"]
        /\ pidFile' = pidFile /\ lost' = lost
    BY <1>4 DEF ReadPidFile
  <2>2. \A m \in Launchers \ {l} : pc'[m] = pc[m] /\ pidInit'[m] = pidInit[m]
    BY <1>0, <2>1 DEF LauncherTypes
  <2>3. ASSUME l \notin overlapped PROVE LooksRight(l)'
    <3>1. pidFile \notin Pids => Found = {}
      BY <1>2, <2>3
    <3>2. QED BY <1>0, <1>1, <1>2, <1>3, <2>1, <2>3, <3>1, LauncherAssumption
                 DEF LauncherTypes, LooksRight, Searches, Registers
  <2>4. Registered'
    BY <1>0, <1>1, <1>3, <2>1, <2>2, StaysRegistered
  <2>5. QED BY <1>0, <1>1, <2>2, <2>3, <2>4, OnlyItsView
<1>5. CASE CheckProcess(l)
  <2>1. /\ pc[l] = "check" /\ pidInit' = pidInit /\ pidFile' = pidFile /\ lost' = lost
        /\ pc' = [pc EXCEPT ![l] = IF Exists(pidInit[l]) /\ IsInit(pidInit[l]) THEN "decide"
                                   ELSE "unlink"]
    BY <1>5 DEF CheckProcess
  <2>2. \A m \in Launchers \ {l} : pc'[m] = pc[m]
    BY <1>0, <2>1 DEF LauncherTypes
  <2>3. ASSUME l \notin overlapped PROVE LooksRight(l)'
    <3>1. pidFile = pidInit[l] /\ pidInit[l] \in Pids
      BY <1>2, <2>1, <2>3 DEF LooksRight, LauncherInv, Targets, KnowsTarget
    <3>2. Found # {} => Exists(pidInit[l]) /\ IsInit(pidInit[l])
      <4>1. ASSUME NEW p \in Found PROVE Exists(p) /\ IsInit(p) /\ p = pidInit[l]
        <5>1. p \in Pids /\ proc[p] \in Up /\ (Root \/ proc[p] \in {"serving", "listening"})
              /\ pidFile = p
          BY <1>2, <2>3, <4>1 DEF Found, Running
        <5>2. QED BY <1>0, <3>1, <5>1 DEF Servers, Exists, IsInit, Up
      <4>2. QED BY <4>1, Zenon
    <3>3. CASE Found = {}
      BY <1>0, <1>3, <2>1, <3>3 DEF LauncherTypes, LooksRight, Searches, Registers
    <3>4. CASE Found # {}
      <4>1. pc' = [pc EXCEPT ![l] = "decide"]
        BY <2>1, <3>2, <3>4
      <4>2. pidInit[l] # None
        BY <3>1, LauncherAssumption
      <4>3. QED BY <1>0, <1>1, <1>2, <1>3, <2>1, <2>3, <4>1, <4>2
                   DEF LauncherTypes, LooksRight, Searches, Registers
    <3>5. QED BY <3>3, <3>4
  <2>4. Registered'
    BY <1>0, <1>1, <1>3, <2>1, <2>2, StaysRegistered
  <2>5. QED BY <1>0, <1>1, <2>2, <2>3, <2>4, OnlyItsView
<1>6. CASE UnlinkPidFile(l)
  <2>1. /\ pc[l] = "unlink" /\ pc' = [pc EXCEPT ![l] = "decide"]
        /\ pidInit' = [pidInit EXCEPT ![l] = None]
        /\ pidFile' = None /\ lost' = lost \cup Overwritten(l)
    BY <1>6 DEF UnlinkPidFile
  <2>2. \A m \in Launchers \ {l} : pc'[m] = pc[m] /\ pidInit'[m] = pidInit[m]
    BY <1>0, <2>1 DEF LauncherTypes
  <2>3. Found' \subseteq Found
    BY <1>1, <2>1 DEF Found, Running
  <2>4. ASSUME l \notin overlapped PROVE Found = {}
    BY <1>2, <2>1, <2>4 DEF LooksRight
  <2>5. l \notin overlapped => LooksRight(l)'
    BY <1>0, <2>1, <2>3, <2>4 DEF LauncherTypes, LooksRight, Searches, Registers
  <2>6. Registered'
    <3>1. CASE l \notin overlapped
      BY <2>3, <2>4, <3>1 DEF Registered
    <3>2. CASE l \in overlapped
      <4>1. \A p \in Found' : p \in Pids /\ p \in Found /\ pidFile # p
        BY <2>1, <2>3, <3>2, LauncherAssumption DEF Overwritten, Found, Running
      <4>2. \A m \in Launchers : /\ Registers(m) => Registers(m)' /\ pidInit'[m] = pidInit[m]
                                 /\ pc[m] = "readPipe" => pc'[m] = "readPipe" /\ pidInit'[m] = pidInit[m]
        BY <1>1, <2>2 DEF Registers
      <4>3. QED BY <1>0, <1>1, <4>1, <4>2 DEF Registered
    <3>3. QED BY <3>1, <3>2
  <2>7. QED BY <1>0, <1>1, <2>2, <2>5, <2>6, OnlyItsView
<1>7. QED BY <1>4, <1>5, <1>6

(* The start of a server, and its way into the pid file. *)
LEMMA SpawnRegisters ==
    ASSUME LauncherInv, OneContainer, NEW l \in Launchers, SpawnInit(l)
    PROVE  Registered' /\ Looking'
<1>0. LauncherTypes /\ OneAlone /\ Registered /\ (IsAlone(l) => LooksRight(l))
  BY DEF LauncherInv, OneContainer, Looking
<1>1. PICK p \in Pids : /\ proc' = [proc EXCEPT ![p] = "boot"] /\ parent' = [parent EXCEPT ![p] = l]
                        /\ pidInit' = [pidInit EXCEPT ![l] = p]
  BY DEF SpawnInit
<1>2. /\ pc[l] = "spawn" /\ pc' = [pc EXCEPT ![l] = "readPipe"]
      /\ UNCHANGED <<overlapped, lost, pidFile>>
  BY DEF SpawnInit, Goto, files
<1>3. Searches(l) /\ ~Registers(l) /\ (l \notin overlapped => Found = {})
  BY <1>0, <1>2 DEF IsAlone, LooksRight, Searches, Registers
<1>4. Found' \subseteq Found \cup {p} /\ \A q \in Found' : q # p => proc'[q] = proc[q]
  BY <1>0, <1>1, <1>2 DEF LauncherTypes, Found, Running
<1>5. pidInit'[l] = p /\ pc'[l] = "readPipe"
  BY <1>0, <1>1, <1>2 DEF LauncherTypes
<1>6. \A m \in Launchers \ {l} : pc'[m] = pc[m] /\ pidInit'[m] = pidInit[m]
  BY <1>0, <1>1, <1>2 DEF LauncherTypes
<1>7. Registered'
  <2>1. ASSUME NEW q \in Found', q # p
        PROVE  /\ pidFile' = q \/ \E m \in Launchers : Registers(m)' /\ pidInit'[m] = q
               /\ proc'[q] = "boot" => \E m \in Launchers : pc'[m] = "readPipe" /\ pidInit'[m] = q
    <3>1. q \in Found /\ proc'[q] = proc[q] /\ pidFile' = pidFile
      BY <1>2, <1>4, <2>1
    <3>2. \A m \in Launchers : /\ Registers(m) => Registers(m)' /\ pidInit'[m] = pidInit[m]
                               /\ pc[m] = "readPipe" => pc'[m] = "readPipe" /\ pidInit'[m] = pidInit[m]
      BY <1>2, <1>3, <1>6 DEF Registers
    <3>3. QED BY <1>0, <3>1, <3>2 DEF Registered
  <2>2. \E m \in Launchers : Registers(m)' /\ pc'[m] = "readPipe" /\ pidInit'[m] = p
    BY <1>5 DEF Registers
  <2>3. QED BY <2>1, <2>2 DEF Registered
<1>8. l \notin overlapped => LooksRight(l)'
  BY <1>3, <1>4, <1>5 DEF LooksRight, Searches, Registers
<1>9. QED BY <1>0, <1>2, <1>3, <1>6, <1>7, <1>8, OnlyItsView

LEMMA RegistersTheServer ==
    ASSUME LauncherInv, OneContainer, NEW l \in Launchers,
           \/ ReadPipe(l) /\ pc' = [pc EXCEPT ![l] = "register"]
              /\ UNCHANGED <<pidInit, overlapped, named, proc, parent>>
           \/ CreatePidFile(l) \/ WritePid(l)
    PROVE  Registered' /\ Looking'
<1> USE DEF Goto, locals, files, procs
<1>0. LauncherTypes /\ Servers /\ OneAlone /\ Registered /\ (IsAlone(l) => LooksRight(l)) /\ KnowsTarget(l)
  BY DEF LauncherInv, OneContainer, Looking, Targets
<1>1. /\ Registers(l) /\ ~Searches(l)
      /\ UNCHANGED <<pidInit, proc, parent, overlapped>>
  BY DEF ReadPipe, CreatePidFile, WritePid, Registers, Searches
<1>2. pidInit[l] \in Pids /\ (l \notin overlapped => LooksRight(l) /\ Found \subseteq {pidInit[l]})
  BY <1>0, <1>1 DEF IsAlone, LooksRight, KnowsTarget, Registers
<1>3. Running' = Running
  BY <1>1 DEF Running
<1>4. ASSUME pc'[l] \in {"register", "writePid", "wait"},
             \A m \in Launchers \ {l} : pc'[m] = pc[m],
             pc'[l] = "writePid" => l \in named' /\ pidFile' = Empty,
             Found' \subseteq Found \cup {pidInit[l]}, proc[pidInit[l]] # "boot",
             \A p \in Found' : p # pidInit[l] /\ pidFile = p => pidFile' = p,
             pidInit[l] \in Found' /\ pc'[l] = "wait" => pidFile' = pidInit[l]
      PROVE  Registered' /\ Looking'
  <2>1. l \notin overlapped => LooksRight(l)'
    BY <1>1, <1>2, <1>4 DEF LooksRight, Searches, Registers
  <2>2. ASSUME NEW p \in Found'
        PROVE  /\ pidFile' = p \/ \E m \in Launchers : Registers(m)' /\ pidInit'[m] = p
               /\ proc'[p] = "boot" => \E m \in Launchers : pc'[m] = "readPipe" /\ pidInit'[m] = p
    <3>1. CASE p = pidInit[l]
      <4>1. pc'[l] # "wait" => Registers(l)' /\ pidInit'[l] = p
        BY <1>1, <1>4, <3>1 DEF Registers
      <4>2. pc'[l] = "wait" => pidFile' = p
        BY <1>4, <2>2, <3>1
      <4>3. proc'[p] # "boot"
        BY <1>1, <1>4, <3>1
      <4>4. QED BY <4>1, <4>2, <4>3
    <3>2. CASE p # pidInit[l]
      <4>1. p \in Found /\ proc'[p] = proc[p] /\ (pidFile = p => pidFile' = p)
        BY <1>1, <1>4, <2>2, <3>2
      <4>2. \A m \in Launchers : pidInit[m] = p =>
               /\ Registers(m) => Registers(m)' /\ pidInit'[m] = pidInit[m]
               /\ pc[m] = "readPipe" => pc'[m] = "readPipe" /\ pidInit'[m] = pidInit[m]
        BY <1>1, <1>4, <3>2 DEF Registers
      <4>3. QED BY <1>0, <4>1, <4>2 DEF Registered
    <3>3. QED BY <3>1, <3>2
  <2>3. Registered'
    BY <2>2 DEF Registered
  <2>4. QED BY <1>0, <1>1, <1>4, <2>1, <2>3, OnlyItsView
<1>5. pc[l] # "readPipe" => proc[pidInit[l]] # "boot"
  BY <1>0, <1>1 DEF KnowsTarget, Registers
<1>6. CASE ReadPipe(l) /\ pc' = [pc EXCEPT ![l] = "register"]
  <2>1. pc'[l] = "register" /\ \A m \in Launchers \ {l} : pc'[m] = pc[m]
    BY <1>0, <1>6 DEF LauncherTypes
  <2>2. lost' = lost /\ pidFile' = pidFile
    BY <1>6 DEF ReadPipe
  <2>3. pidInit[l] \in wrote \/ proc[pidInit[l]] = "zombie"
    BY <1>6 DEF ReadPipe
  <2>4. proc[pidInit[l]] # "boot"
    BY <1>0, <1>2, <2>3 DEF Servers
  <2>5. Found' = Found
    BY <1>3, <2>2 DEF Found
  <2>6. QED BY <1>4, <2>1, <2>2, <2>4, <2>5
<1>7. CASE CreatePidFile(l)
  <2>1. pc[l] = "register" /\ proc[pidInit[l]] # "boot"
    BY <1>5, <1>7 DEF CreatePidFile
  <2>2. CASE pidFile' = Empty /\ named' = named \cup {l} /\ pc' = [pc EXCEPT ![l] = "writePid"]
             /\ lost' = lost \cup Overwritten(l)
    <3>1. pc'[l] = "writePid" /\ l \in named' /\ \A m \in Launchers \ {l} : pc'[m] = pc[m]
      BY <1>0, <2>2 DEF LauncherTypes
    <3>2. Found' \subseteq Found
      BY <1>3, <2>2 DEF Found
    <3>3. ASSUME NEW p \in Found', p # pidInit[l] PROVE pidFile # p
      <4>1. p \in Found /\ p \in Running /\ p \in Pids
        BY <3>2, <3>3 DEF Found, Running
      <4>2. l \in overlapped
        BY <1>2, <3>3, <4>1
      <4>3. p \notin Overwritten(l)
        BY <2>2, <3>3 DEF Found
      <4>4. QED BY <2>2, <4>1, <4>2, <4>3, LauncherAssumption DEF Overwritten
    <3>4. QED BY <1>4, <2>1, <2>2, <3>1, <3>2, <3>3
  <2>3. CASE lost' = lost \cup ({pidInit[l]} \cap Running) /\ pc' = [pc EXCEPT ![l] = "wait"]
             /\ pidFile' = pidFile
    <3>1. pc'[l] = "wait" /\ \A m \in Launchers \ {l} : pc'[m] = pc[m]
      BY <1>0, <2>3 DEF LauncherTypes
    <3>2. Found' \subseteq Found /\ pidInit[l] \notin Found'
      BY <1>3, <2>3 DEF Found
    <3>3. QED BY <1>4, <2>1, <2>3, <3>1, <3>2
  <2>4. QED BY <1>7, <2>2, <2>3 DEF CreatePidFile
<1>8. CASE WritePid(l)
  <2>1. /\ pc[l] = "writePid" /\ pc' = [pc EXCEPT ![l] = "wait"] /\ proc[pidInit[l]] # "boot"
        /\ pidFile' \in IF l \notin named THEN {pidFile}
                        ELSE IF pidFile = Empty THEN {pidInit[l]} ELSE Pids
        /\ lost' = IF pidFile' = pidInit[l] THEN (lost \cup Overwritten(l)) \ {pidInit[l]}
                   ELSE lost \cup Overwritten(l) \cup ({pidInit[l]} \cap Running)
    BY <1>5, <1>8 DEF WritePid
  <2>2. pc'[l] = "wait" /\ \A m \in Launchers \ {l} : pc'[m] = pc[m]
    BY <1>0, <2>1 DEF LauncherTypes
  <2>3. /\ Found' \subseteq Found \cup {pidInit[l]}
        /\ pidInit[l] \in Found' => pidFile' = pidInit[l]
    BY <1>3, <2>1 DEF Found
  <2>4. ASSUME NEW p \in Found', p # pidInit[l], pidFile = p PROVE pidFile' = p
    <3>1. p \in Found /\ p \in Running /\ p \in Pids
      BY <2>3, <2>4 DEF Found, Running
    <3>2. l \in overlapped
      BY <1>2, <2>4, <3>1
    <3>3. p \notin Overwritten(l)
      BY <2>1, <2>4 DEF Found
    <3>4. QED BY <2>4, <3>1, <3>2, <3>3 DEF Overwritten
  <2>5. QED BY <1>4, <2>1, <2>2, <2>3, <2>4
<1>9. QED BY <1>6, <1>7, <1>8

(* The other steps of a launcher that does not exit. *)
LEMMA GoesOn ==
    ASSUME LauncherInv, OneContainer, NEW l \in Launchers,
           \/ /\ Decide(l) \/ WaitForSocket(l) \/ Connect(l)
              /\ ~ \E dead \in SUBSET Pids : Exit(l, dead)
              /\ UNCHANGED <<pidInit, overlapped, files, procs, lost>>
           \/ Terminate(l) \/ FindLaunchd(l)
    PROVE  Registered' /\ Looking'
<1> USE DEF Goto, locals, files, procs
<1>0. LauncherTypes /\ OneAlone /\ Registered /\ Looking
  BY DEF LauncherInv, OneContainer
<1>1. UNCHANGED <<pidInit, overlapped, pidFile, named, proc, parent, lost>> /\ ~Registers(l)
  BY DEF Decide, WaitForSocket, Connect, Terminate, FindLaunchd, Registers
<1>2. Found' = Found
  BY <1>1 DEF Found, Running
<1>3. \/ pc' = pc
      \/ \E x \in {"kill", "killBoth", "connect", "connected"} : pc' = [pc EXCEPT ![l] = x]
      \/ pc[l] = "decide" /\ pidInit[l] = None /\ pc' = [pc EXCEPT ![l] = "spawn"]
  <2>1. CASE Decide(l) /\ ~ \E dead \in SUBSET Pids : Exit(l, dead)
    BY <2>1 DEF Decide
  <2>2. CASE (WaitForSocket(l) \/ Connect(l)) /\ ~ \E dead \in SUBSET Pids : Exit(l, dead)
    BY <2>2 DEF WaitForSocket, Connect, Turn
  <2>3. CASE Terminate(l) \/ FindLaunchd(l)
    BY <2>3 DEF Terminate, FindLaunchd
  <2>4. QED BY <2>1, <2>2, <2>3
<1>4. \A m \in Launchers \ {l} : pc'[m] = pc[m]
  BY <1>0, <1>3 DEF LauncherTypes
<1>5. Registered'
  BY <1>0, <1>1, <1>2, <1>4, StaysRegistered
<1>6. ASSUME NEW m \in Launchers, IsAlone(m)', pc'[m] = pc[m] PROVE LooksRight(m)'
  <2>1. LooksRight(m)
    BY <1>0, <1>1, <1>6 DEF Looking, IsAlone, Searches, Registers
  <2>2. QED BY <1>1, <1>2, <1>6, <2>1, KeepsLooking
<1>7. ASSUME IsAlone(l)' PROVE LooksRight(l)'
  <2>1. CASE pc'[l] = pc[l]
    BY <1>6, <1>7, <2>1
  <2>2. CASE pc'[l] \in {"kill", "killBoth", "connect", "connected"}
    BY <2>2 DEF LooksRight, Searches, Registers
  <2>3. CASE pc[l] = "decide" /\ pidInit[l] = None /\ pc'[l] = "spawn"
    <3>1. IsAlone(l)
      BY <1>1, <1>7, <2>3 DEF IsAlone, Searches
    <3>2. Found' = {}
      BY <1>0, <1>2, <2>3, <3>1 DEF Looking, LooksRight
    <3>3. QED BY <2>3, <3>2 DEF LooksRight, Searches, Registers
  <2>4. QED BY <1>0, <1>3, <2>1, <2>2, <2>3 DEF LauncherTypes
<1>8. ASSUME NEW m \in Launchers, IsAlone(m)' PROVE LooksRight(m)'
  <2>1. CASE m = l
    BY <1>7, <1>8, <2>1, Zenon
  <2>2. CASE m # l
    BY <1>4, <1>6, <1>8, <2>2
  <2>3. QED BY <2>1, <2>2
<1>9. QED BY <1>5, <1>8 DEF Looking

(* A server gets on or dies; nobody else comes up. *)
LEMMA HostKeeps ==
    ASSUME LauncherInv, OneContainer, NEW p \in Pids, HostStep(p)
    PROVE  Registered' /\ Looking'
<1>0. Registered /\ Looking
  BY DEF OneContainer
<1>1. /\ UNCHANGED <<pc, pidInit, overlapped, pidFile, named>>
      /\ \A q \in Pids : /\ proc'[q] \in Up => proc[q] \in Up /\ (q \in lost => q \in lost')
                         /\ proc'[q] = "boot" => proc[q] = "boot"
                         /\ proc[q] \in {"serving", "listening"} /\ proc'[q] \in Up =>
                               proc'[q] \in {"serving", "listening"}
  BY HostStepFacts
<1>2. /\ Found' \subseteq Found
      /\ \A q \in Found' : q \in Pids /\ proc'[q] \in Up
  BY <1>1 DEF Found, Running
<1>3. Registered'
  BY <1>0, <1>1, <1>2, StaysRegistered
<1>4. ASSUME NEW m \in Launchers, IsAlone(m)' PROVE LooksRight(m)'
  <2>1. LooksRight(m)
    BY <1>0, <1>1, <1>4 DEF Looking, IsAlone, Searches, Registers
  <2>2. QED BY <1>1, <1>2, <2>1, KeepsLooking
<1>5. QED BY <1>3, <1>4 DEF Looking

LEMMA OneContainerStep ==
    ASSUME LauncherInv, OneContainer, [Next]_vars
    PROVE  OneContainer'
<1>0. OneAlone'
  BY OneAloneStep DEF OneContainer
<1>1. ASSUME NEW l \in Launchers,
             Decide(l) \/ SpawnFails(l) \/ ReadPipe(l) \/ WaitForSocket(l) \/ Connect(l)
               \/ EndSession(l) \/ KillBoth(l) \/ Killed(l)
      PROVE  Registered' /\ Looking'
  <2>1. ASSUME NEW dead \in SUBSET Pids, Exit(l, dead), lost \ dead \subseteq lost', pidFile' = pidFile
        PROVE  Registered' /\ Looking'
    <3>1. Found' \subseteq Found
      BY <2>1, ExitFinds
    <3>2. ASSUME Registers(l) PROVE pidInit[l] \notin Found'
      <4>1. parent[pidInit[l]] = l /\ pidInit[l] \in Pids
        BY <3>2 DEF LauncherInv, Targets, KnowsTarget, Registers
      <4>2. CASE Killed(l)
        <5>1. pidInit[l] \in Running => pidInit[l] \in lost'
          BY <3>2, <4>1, <4>2 DEF Killed
        <5>2. QED BY <3>1, <5>1 DEF Found
      <4>3. CASE ReadPipe(l)
        <5>1. pc'[l] = "new"
          BY <2>1 DEF Exit, Goto, LauncherInv, LauncherTypes
        <5>2. pc' # [pc EXCEPT ![l] = "register"]
          BY <5>1 DEF LauncherInv, LauncherTypes
        <5>3. proc[pidInit[l]] = "zombie"
          BY <4>3, <5>2 DEF ReadPipe, Goto
        <5>4. QED BY <3>1, <5>3 DEF Found, Running, Up
      <4>4. CASE Decide(l) \/ SpawnFails(l) \/ WaitForSocket(l) \/ Connect(l)
                   \/ EndSession(l) \/ KillBoth(l)
        BY <3>2, <4>4 DEF Registers, Decide, SpawnFails, WaitForSocket, Connect, EndSession, KillBoth
      <4>5. QED BY <1>1, <4>2, <4>3, <4>4
    <3>3. QED BY <2>1, <3>2, ExitKeeps
  <2>2. ASSUME Decide(l) \/ ReadPipe(l) \/ WaitForSocket(l) \/ Connect(l),
               UNCHANGED <<command, pidInit, sawLaunchd, overlapped, files, procs, launchd, lost>>,
               ~ \E dead \in SUBSET Pids :
                    Exit(l, dead) /\ lost \ dead \subseteq lost' /\ pidFile' = pidFile
        PROVE  Registered' /\ Looking'
    <3>0. ~ \E dead \in SUBSET Pids : Exit(l, dead)
      BY <2>2 DEF files
    <3>1. CASE ReadPipe(l)
      <4>1. pc' = [pc EXCEPT ![l] = "register"]
        BY <3>0, <3>1 DEF ReadPipe, Goto
      <4>2. UNCHANGED <<pidInit, overlapped, named, proc, parent>>
        BY <2>2 DEF files, procs
      <4>3. QED BY <3>1, <4>1, <4>2, RegistersTheServer
    <3>2. CASE Decide(l) \/ WaitForSocket(l) \/ Connect(l)
      BY <2>2, <3>0, <3>2, GoesOn
    <3>3. QED BY <2>2, <3>1, <3>2
  <2>3. QED BY <1>1, <2>1, <2>2, Exiting
<1>2. CASE UNCHANGED vars
  <2>1. Found' = Found /\ UNCHANGED <<pc, pidInit, overlapped, pidFile, named, proc, parent>>
    BY <1>2 DEF vars, Found, Running
  <2>2. Registered /\ Looking
    BY DEF OneContainer
  <2>3. Registered'
    BY <2>1, <2>2, StaysRegistered
  <2>4. ASSUME NEW m \in Launchers, IsAlone(m)' PROVE LooksRight(m)'
    <3>1. LooksRight(m)
      BY <2>1, <2>2, <2>4 DEF Looking, IsAlone, Searches, Registers
    <3>2. QED BY <2>1, <3>1, KeepsLooking
  <2>5. QED BY <1>0, <2>3, <2>4 DEF OneContainer, Looking
<1>3. ASSUME NEW l \in Launchers, Start(l) \/ Step(l) \/ EndSession(l) \/ Terminate(l) \/ Killed(l)
      PROVE  Registered' /\ Looking'
  <2>1. CASE Start(l)
    BY <2>1, StartFinds
  <2>2. CASE ReadPidFile(l) \/ CheckProcess(l) \/ UnlinkPidFile(l)
    BY <2>2, SearchFinds
  <2>3. CASE SpawnInit(l)
    BY <2>3, SpawnRegisters
  <2>4. CASE CreatePidFile(l) \/ WritePid(l)
    BY <2>4, RegistersTheServer
  <2>5. CASE Terminate(l) \/ FindLaunchd(l)
    BY <2>5, GoesOn
  <2>6. QED BY <1>1, <1>3, <2>1, <2>2, <2>3, <2>4, <2>5 DEF Step
<1>4. ASSUME NEW p \in Pids, HostStep(p) PROVE Registered' /\ Looking'
  BY <1>4, HostKeeps
<1>5. QED
  <2>1. CASE Next
    BY <1>0, <1>3, <1>4, <2>1 DEF Next, HostStep, OneContainer
  <2>2. QED BY <1>2, <2>1

(* A launcher whose search was undisturbed, and that starts a container, has looked for
   one, and every one that runs is lost: for any number of launchers, side by side or one
   after the other, whatever has been killed, has failed or was left behind in the pid
   file before. *)
THEOREM ASecondNeedsOverlap == Spec => SecondNeedsOverlap
<1>1. Init => OneContainer
  BY LauncherAssumption DEF Init, OneContainer, OneAlone, IsAlone, Registered, Looking, LooksRight,
     Searches, Registers, Found, Running, Up
<1>2. LauncherInv /\ OneContainer /\ [Next]_vars => OneContainer'
  BY OneContainerStep
<1>3. ASSUME OneContainer, NEW l \in Launchers, SpawnInit(l), l \notin overlapped
      PROVE  Running \subseteq lost
  <2>1. pc[l] = "spawn"
    BY <1>3 DEF SpawnInit
  <2>2. LooksRight(l)
    BY <1>3, <2>1 DEF OneContainer, Looking, IsAlone, Searches
  <2>3. QED BY <2>1, <2>2 DEF LooksRight, Found
<1>4. OneContainer /\ [Next]_vars =>
         [\A l \in Launchers : SpawnInit(l) /\ l \notin overlapped => Running \subseteq lost]_vars
  BY <1>3
<1>5. QED BY <1>1, <1>2, <1>4, LauncherInvariance, PTL DEF Spec, SecondNeedsOverlap
=============================================================================
