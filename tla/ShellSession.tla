---------------------------- MODULE ShellSession ----------------------------
(***************************************************************************)
(* One session of a shell or program in the container: the osxie command   *)
(* that asked for it (src/startup/osxie.c, from the socket on), the child  *)
(* that the shellspawn daemon forks for the connection                     *)
(* (src/shellspawn/shellspawn.c) and the shell this child forks.  Client   *)
(* and session share a stream socket, on which a message is a header with  *)
(* a 16-bit length and a string of that length; a string with a length of  *)
(* 17 bits leaves the rest of itself in the stream, to be read as          *)
(* messages.  The client handles signals by sending them on, and takes the *)
(* container down for those that are to end it.                            *)
(***************************************************************************)
EXTENDS Integers, Sequences

CONSTANTS Codes,       \* exit statuses of programs
          Signals,     \* Linux signals that the client receives
          Errnos,      \* values errno may have
          MaxSignals,  \* bound: signals in a session
          Unset

ENOENT == 2
ESRCH == 3
SIGINT == 2
SIGKILL == 9
SIGSEGV == 11
SIGTERM == 15

ASSUME SessionAssumption ==
    /\ Codes \subseteq 0..255 /\ Signals \subseteq (1..31) \ {9, 19}
    /\ Errnos \subseteq Nat \ {0} /\ MaxSignals \in Nat /\ Unset \notin Int

VARIABLES pty,        \* whether the client proxies a pty
          asked, sent,          \* the program the client asks for, commands sent
          client, heard, exit,  \* its point, the status it read, its exit status
          signals,    \* signals so far
          cut,        \* whether a string of 64 KiB or more was sent
          toSession, toClient,  \* what is in the socket
          session,    \* the session's point
          noCldWait,  \* SIGCHLD's action: dead children leave no zombies
          program, argv, context,  \* what is to be run, and in which environment
          forked,     \* shell_pid # -1
          shell, wstatus,       \* the shell and how it ended
          execPipe,   \* the pipe between fork and exec: an error number, 0 at its end
          delivered,  \* Darwin signals sent to the shell
          report      \* the status to report

clientVars == <<pty, asked, sent, client, heard, exit, signals, cut>>
shellVars == <<forked, shell, wstatus, execPipe, delivered>>
request == <<program, argv, context>>
sessionVars == <<clientVars, toSession, toClient, session, noCldWait, request, shellVars, report>>

\* What spawnShell and spawnBinary send, the environment as one command.
Cmd(c, p) == [cmd |-> c, param |-> p]
Finish == <<Cmd("CHDIR", Unset), Cmd("SETUIDGID", Unset), Cmd("GO", Unset)>>
Script ==
    <<Cmd("SETENV", Unset)>> \o
    (CASE asked = "shell" -> <<>>
       [] asked = "command" -> <<Cmd("ADDARG", "-c"), Cmd("ADDARG", "command")>>
       [] asked = "binary" -> <<Cmd("SETEXEC", "binary"), Cmd("ADDARG", "binary"),
                                Cmd("ADDARG", "arg")>>) \o Finish

\* The rest of a string that was cut: bytes where a message is expected.
Data == Cmd("DATA", Unset)

\* Messages with strings that nobody bounds.
AnyLength(m) == m.cmd \in {"SETENV", "ADDARG"} /\ m.param \notin {"-c", "binary"}

SessionInit ==
    /\ pty \in BOOLEAN
    /\ asked \in {"shell", "command", "binary"} /\ sent = 0
    /\ client = "setup" /\ heard = Unset /\ exit = Unset /\ signals = 0 /\ cut = FALSE
    /\ toSession = <<>> /\ toClient = <<>>
    /\ session = "none" /\ noCldWait = TRUE
    /\ program = "/bin/bash" /\ argv = <<"/bin/bash", "--login">> /\ context = {}
    /\ forked = FALSE /\ shell = "none" /\ wstatus = Unset
    /\ execPipe = Unset /\ delivered = {} /\ report = Unset

\* signum_linux_to_bsd, 0 for a signal Darwin does not have.
ToDarwin(n) ==
    CASE n = 7 -> 10 [] n = 10 -> 30 [] n = 12 -> 31 [] n = 17 -> 20 [] n = 18 -> 19
      [] n = 19 -> 17 [] n = 20 -> 18 [] n = 23 -> 16 [] n = 29 -> 23 [] n = 31 -> 12
      [] n \in {16, 30} -> 0 [] OTHER -> n

SessionOpen == session \notin {"closed", "dead"}
ClientOpen == client # "exited"
ShellAlive == shell \in {"forked", "running"}

-----------------------------------------------------------------------------
(* The client *)

ClientExit(status) == client' = "exited" /\ exit' = status

\* pushShellspawnCommandData and pushShellspawnCommandFDs: the program ends if
\* nobody has the other end.  During the setup SIGPIPE still has its default
\* action.  data_length is an unsigned short: a string of 64 KiB or more is
\* written whole behind its length modulo 2^16.
Push(m, next) ==
    \/ /\ SessionOpen
       /\ \/ toSession' = Append(toSession, m) /\ UNCHANGED cut
          \/ /\ AnyLength(m)
             /\ toSession' = Append(Append(toSession, Cmd(m.cmd, "cut")), Data) /\ cut' = TRUE
       /\ client' = next /\ UNCHANGED exit
    \/ /\ ~SessionOpen
       /\ ClientExit(IF client = "setup" THEN 128 + 13 ELSE 1)
       /\ UNCHANGED <<toSession, cut>>

SendCommand ==
    /\ client = "setup"
    /\ Push(Script[sent + 1], IF sent + 1 = Len(Script) THEN "loop" ELSE "setup")
    /\ sent' = sent + 1
    /\ UNCHANGED <<pty, asked, heard, signals, toClient, session, noCldWait, request, shellVars,
                   report>>

\* signalHandler, in the loop: the signal is sent on; SIGTERM, and SIGINT
\* where no terminal would make it one, take the container down.
SignalHandler ==
    /\ client = "loop" /\ signals < MaxSignals
    /\ \E n \in Signals :
        LET signo == IF ~pty /\ n = SIGINT THEN SIGTERM ELSE n
        IN Push(Cmd("SIGNAL", signo), IF signo = SIGTERM THEN "killing" ELSE "loop")
    /\ signals' = signals + 1
    /\ UNCHANGED <<pty, asked, sent, heard, toClient, session, noCldWait, request, shellVars,
                   report>>

\* The container's processes are killed, whoever does it.
Teardown ==
    /\ session' = "dead"
    /\ shell' = IF ShellAlive \/ shell = "zombie" THEN "gone" ELSE shell
    /\ toSession' = <<>>
    /\ UNCHANGED <<pty, asked, sent, heard, exit, signals, cut, toClient, noCldWait, request,
                   forked, wstatus, execPipe, delivered, report>>

KillContainer == client = "killing" /\ client' = "loop" /\ Teardown
ContainerKilled == session # "dead" /\ Teardown /\ UNCHANGED client

\* shellLoop's poll: a status to read, or the end of the connection.
ReadStatus ==
    /\ client = "loop"
    /\ \/ /\ toClient # <<>>
          /\ heard' = Head(toClient) /\ toClient' = Tail(toClient)
          /\ ClientExit(IF Head(toClient) >= 0 THEN Head(toClient)
                  ELSE IF -Head(toClient) = ENOENT THEN 127 ELSE 126)
       \/ toClient = <<>> /\ ~SessionOpen /\ ClientExit(1) /\ UNCHANGED <<heard, toClient>>
    /\ UNCHANGED <<pty, asked, sent, signals, cut, toSession, session, noCldWait, request,
                   shellVars, report>>

\* The client ends without a word: its terminal is closed, or it is killed.
ClientDies ==
    /\ \/ pty /\ client = "loop" /\ ClientExit(1)
       \/ client # "exited" /\ ClientExit(128 + SIGKILL)
    /\ UNCHANGED <<pty, asked, sent, heard, signals, cut, toSession, toClient, session, noCldWait,
                   request, shellVars, report>>

-----------------------------------------------------------------------------
(* The session *)

\* Mutant: the child keeps the daemon's action for SIGCHLD.
AcceptInheriting ==
    /\ session = "none"
    /\ session' = "commands"
    /\ UNCHANGED <<clientVars, toSession, toClient, noCldWait, request, shellVars, report>>

\* The daemon accepts the connection and forks; its child wants zombies.
\* Without a child, nobody has the connection.
Accept ==
    /\ session = "none"
    /\ \/ session' = "commands" /\ noCldWait' = FALSE /\ UNCHANGED toSession
       \/ session' = "closed" /\ toSession' = <<>> /\ UNCHANGED noCldWait
    /\ UNCHANGED <<clientVars, toClient, request, shellVars, report>>

Fail(errno) == session' = "err" /\ report' = -errno

\* Mutant: SETEXEC leaves the login shell's arguments in place.
ArgvKept(c) == IF c.cmd = "ADDARG" THEN Append(argv, c.param) ELSE argv

\* argv after a command: SETEXEC drops what is there, the shell's own included.
Argv(c) ==
    CASE c.cmd = "ADDARG" -> Append(argv, c.param)
      [] c.cmd = "SETEXEC" -> <<>>
      [] OTHER -> argv

\* A command before GO is read and carried out; nobody looks whether chdir,
\* setuid and setgid have failed.
Obey ==
    /\ toSession # <<>> /\ Head(toSession) # Data
    /\ LET c == Head(toSession)
       IN /\ argv' = Argv(c)
          /\ program' = IF c.cmd = "SETEXEC" THEN c.param ELSE program
          /\ \/ context' = context \cup ({c.cmd} \cap {"SETENV", "CHDIR", "SETUIDGID"})
             \/ c.cmd \in {"CHDIR", "SETUIDGID"} /\ UNCHANGED context
          /\ session' = IF c.cmd = "GO" THEN "fork" ELSE "commands"
    /\ toSession' = Tail(toSession) /\ UNCHANGED report

\* The rest of a string is read for commands.  They may be anything, take the
\* messages that follow for their parameters, the descriptors of GO with them,
\* and end at the beginning of a message or within one.
Misread ==
    /\ toSession # <<>> /\ Head(toSession) = Data
    /\ \/ UNCHANGED request
       \/ program' = "data" /\ argv' = <<"data">> /\ UNCHANGED context
    /\ \E n \in 1..Len(toSession) :
        /\ LET rest == SubSeq(toSession, n + 1, Len(toSession))
           IN toSession' = rest \/ toSession' = <<Data>> \o rest
        /\ \/ UNCHANGED session
           \/ session' = "fork" /\ \E i \in 1..n : toSession[i].cmd = "GO"
    /\ UNCHANGED report

\* err before GO: the end of the connection, a string of which only a part is
\* there to be read, or a misread command.  What errno holds is up to the
\* calls before.
BadRead ==
    /\ IF toSession = <<>> THEN ~ClientOpen
                           ELSE Head(toSession) = Data \/ AnyLength(Head(toSession))
    /\ \E e \in Errnos : Fail(e)
    /\ UNCHANGED <<toSession, request>>

ReadCommand ==
    /\ session = "commands"
    /\ Obey \/ Misread \/ BadRead
    /\ UNCHANGED <<clientVars, toClient, noCldWait, shellVars>>

\* pipe, setsid, the descriptors, and fork, whose failure nobody looks at.
Fork ==
    /\ session = "fork"
    /\ \/ (\E e \in Errnos : Fail(e)) /\ UNCHANGED shellVars
       \/ /\ session' = "pipe" /\ UNCHANGED <<report, wstatus, delivered>>
          /\ \/ forked' = TRUE /\ shell' = "forked" /\ execPipe' = Unset
             \/ UNCHANGED <<forked, shell>> /\ execPipe' = 0
    /\ UNCHANGED <<clientVars, toSession, toClient, noCldWait, request>>

\* "Check that exec succeeded": the pipe holds an error number or ends.
CheckExec ==
    /\ session = "pipe" /\ execPipe # Unset
    /\ IF execPipe = 0 THEN session' = "watch" /\ UNCHANGED report ELSE Fail(execPipe)
    /\ UNCHANGED <<clientVars, toSession, toClient, noCldWait, request, shellVars>>

\* The kqueue watches the socket and the shell, or kevent fails.  A shell that
\* has ended may or may not be known any more; a process ID of -1 never is.
Watch ==
    /\ session = "watch"
    /\ \/ forked /\ session' = "loop" /\ UNCHANGED report
       \/ \E e \in Errnos : Fail(e)
       \/ ~ShellAlive /\ Fail(ESRCH)
    /\ UNCHANGED <<clientVars, toSession, toClient, noCldWait, request, shellVars>>

\* One event of the loop: the shell has ended.
ShellExitEvent ==
    /\ session = "loop" /\ ~ShellAlive
    /\ session' = "kill"
    /\ UNCHANGED <<clientVars, toSession, toClient, noCldWait, request, shellVars, report>>

\* The loop's kevent fails, other than by EINTR.
KeventFails ==
    /\ session = "loop"
    /\ \E e \in Errnos : Fail(e)
    /\ UNCHANGED <<clientVars, toSession, toClient, noCldWait, request, shellVars>>

\* A signal is passed on; any other message is an error.
PassOn ==
    /\ toSession # <<>>
    /\ \/ /\ Head(toSession).cmd = "SIGNAL"
          /\ LET darwin == ToDarwin(Head(toSession).param)
             IN delivered' = IF darwin # 0 /\ ShellAlive THEN delivered \cup {darwin} ELSE delivered
          /\ UNCHANGED <<session, report>>
       \/ /\ Head(toSession).cmd # "SIGNAL"
          /\ \E e \in Errnos : Fail(e)
          /\ UNCHANGED delivered
    /\ toSession' = Tail(toSession)


\* One event of the loop: a message to read, or the end of the connection.
SocketEvent ==
    /\ session = "loop"
    /\ \/ PassOn
       \/ /\ toSession = <<>> /\ ~ClientOpen
          /\ session' = "kill" /\ UNCHANGED <<toSession, delivered, report>>
    /\ UNCHANGED <<clientVars, toClient, noCldWait, request, forked, shell, wstatus, execPipe>>

\* SIGKILL for shell_pid; a zombie does not notice.
KillShell ==
    IF ShellAlive THEN shell' = "zombie" /\ wstatus' = [by |-> "session", n |-> SIGKILL]
                  ELSE UNCHANGED <<shell, wstatus>>

\* "Kill the child process in case it's still running".
Kill ==
    /\ session = "kill"
    /\ KillShell
    /\ session' = "reap"
    /\ UNCHANGED <<clientVars, toSession, toClient, noCldWait, request, forked, execPipe, delivered,
                   report>>

\* Mutant: WEXITSTATUS of whatever wstatus is.
ExitStatusOnly(w) == IF w.by = "exit" THEN w.n ELSE 0

\* 128+N for a death by signal N.
ExitStatus(w) == IF w.by = "exit" THEN w.n ELSE 128 + w.n

\* waitpid.  Without a zombie to wait for, wstatus holds anything.
Reap ==
    /\ session = "reap"
    /\ session' = "report"
    /\ report' \in IF shell = "zombie" THEN {ExitStatus(wstatus)} ELSE Codes
    /\ shell' = "reaped"
    /\ UNCHANGED <<clientVars, toSession, toClient, noCldWait, request, forked, wstatus, execPipe,
                   delivered>>

\* The status goes to the client, if it is there, and the socket is closed.
Report ==
    /\ session = "report"
    /\ toClient' = IF ClientOpen THEN Append(toClient, report) ELSE toClient
    /\ session' = "closed" /\ toSession' = <<>>
    /\ UNCHANGED <<clientVars, noCldWait, request, shellVars, report>>

\* err: the negated error number, whoever reads it, then the child's end.
ReportError ==
    /\ session = "err"
    /\ toClient' = IF ClientOpen THEN Append(toClient, report) ELSE toClient
    /\ session' = "cleanup"
    /\ UNCHANGED <<clientVars, toSession, noCldWait, request, shellVars, report>>

Cleanup ==
    /\ session = "cleanup"
    /\ IF forked THEN KillShell ELSE UNCHANGED <<shell, wstatus>>
    /\ session' = "closed" /\ toSession' = <<>>
    /\ UNCHANGED <<clientVars, toClient, noCldWait, request, forked, execPipe, delivered, report>>

-----------------------------------------------------------------------------
(* The shell *)

Ends(how) == shell' = (IF noCldWait THEN "reaped" ELSE "zombie") /\ wstatus' = how

\* execv closes the pipe, or its error number is written there.
Exec ==
    /\ shell = "forked"
    /\ \/ shell' = "running" /\ execPipe' = 0 /\ UNCHANGED wstatus
       \/ \E e \in Errnos : execPipe' = e /\ Ends([by |-> "exit", n |-> 1])
    /\ UNCHANGED <<clientVars, toSession, toClient, session, noCldWait, request, forked, delivered,
                   report>>

ShellEnds ==
    /\ shell = "running"
    /\ \/ \E c \in Codes : Ends([by |-> "exit", n |-> c])
       \/ \E n \in delivered \cup {SIGSEGV} : Ends([by |-> "signal", n |-> n])
    /\ UNCHANGED <<clientVars, toSession, toClient, session, noCldWait, request, forked, execPipe,
                   delivered, report>>

-----------------------------------------------------------------------------
ClientStep == SendCommand \/ KillContainer \/ ReadStatus
SessionStep == Accept \/ ReadCommand \/ Fork \/ CheckExec \/ Watch \/ ShellExitEvent \/ SocketEvent
               \/ Kill \/ Reap \/ Report \/ ReportError \/ Cleanup

Over == client = "exited" /\ ~SessionOpen /\ UNCHANGED sessionVars

SessionNext == ClientStep \/ SignalHandler \/ ClientDies \/ SessionStep \/ KeventFails
        \/ Exec \/ ShellEnds \/ ContainerKilled \/ Over

\* The processes run; what the shell does once it runs is its own affair.
SessionFairness ==
    WF_sessionVars(ClientStep) /\ WF_sessionVars(SessionStep) /\ WF_sessionVars(Exec)

SessionSpec == SessionInit /\ [][SessionNext]_sessionVars /\ SessionFairness

-----------------------------------------------------------------------------
\* A status that the client takes for the program's own is the one with which
\* the program ended by itself, 128+N after signal N: never one of the
\* session's SIGKILL, never a made-up one of a child that could not be waited
\* for (shellspawn.c:53-61, 405-429, osxie.c:467-487).
StatusIsTheShells ==
    heard # Unset /\ heard >= 0 =>
        /\ shell = "reaped"
        /\ wstatus.by # "session"
        /\ exit = (IF wstatus.by = "signal" THEN 128 + wstatus.n ELSE wstatus.n)

\* The session's SIGKILL goes to a child it has forked and not yet waited for:
\* not to -1, which would be every process, and not to an ID that is given out
\* again, whatever of fork, exec and the watch has failed (shellspawn.c:293-337,
\* 406, 451-452).
KillsOnlyItsChild ==
    [][Kill \/ (Cleanup /\ forked) =>
          forked /\ shell \in {"forked", "running", "zombie"}]_sessionVars

\* What runs is what was asked for, if all strings are shorter than 64 KiB: the
\* login shell with the client's arguments after its own, or the binary with
\* nothing but its own, in the client's environment, also when the connection
\* ends, or a string is read in part, before GO (shellspawn.c:152-302,
\* osxie.c:283-312, 776-840).
RunsWhatWasAsked ==
    shell # "none" /\ ~cut =>
        /\ <<program, argv>> =
              CASE asked = "shell" -> <<"/bin/bash", <<"/bin/bash", "--login">>>>
                [] asked = "command" ->
                     <<"/bin/bash", <<"/bin/bash", "--login", "-c", "command">>>>
                [] asked = "binary" -> <<"binary", <<"binary", "arg">>>>
        /\ "SETENV" \in context

\* Neither outlives the other.  However the client ends, the session notices and
\* kills the shell, also while it is still being started (shellspawn.c:363-367,
\* 406, 451); and the client returns once the shell is over, or could not be
\* started, or the container is gone (shellspawn.c:354-358, 428-432, 442-443,
\* osxie.c:467-487).
ShellIsOver == shell # "none" /\ ~ShellAlive
=============================================================================
