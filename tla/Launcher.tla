------------------------------ MODULE Launcher ------------------------------
(***************************************************************************)
(* The osxie command (src/startup/osxie.c) up to its connection with       *)
(* shellspawn, and its shutdown: several launchers of one user share a     *)
(* prefix, find the container through the prefix's .init.pid and start one *)
(* when they find none.  Nothing keeps them apart.  The container's server *)
(* is a child of the launcher that started it, so that it stays a zombie   *)
(* until that launcher exits.  What the server does on its way up is       *)
(* osxieserver.cpp's main.                                                 *)
(***************************************************************************)
EXTENDS Naturals, FiniteSets

CONSTANTS Launchers, Pids, None,
          Empty,        \* the content of a pid file that is created, not written
          WaitSecs,     \* turns of the wait for shellspawn's socket (30)
          Attempts,     \* attempts to connect (5)
          Root          \* whether the user is root

ASSUME LauncherAssumption ==
    /\ WaitSecs \in Nat /\ Attempts \in Nat
    /\ Root \in BOOLEAN
    /\ None \notin Pids /\ Empty \notin Pids /\ None # Empty

VARIABLES command,    \* argv[1] of each launcher that runs
          pc, pidInit,
          count,      \* turns or attempts so far
          pidFile,    \* the content of .init.pid, None if there is no such file
          named,      \* the launchers whose open file is the one named .init.pid
          proc,       \* what has each process ID
          parent,     \* the launcher that is its parent
          wrote,      \* servers that have written their ready byte
          dropped,    \* servers that run under the user's IDs
          launchd,    \* servers that have a child, launchd
          sawLaunchd, \* launchers that found a launchd to kill
          lost,       \* history: servers that run and are in no pid file, nor will be
          overlapped  \* history: launchers whose search was not undisturbed

vars == <<command, pc, pidInit, count, pidFile, named, proc, parent, wrote, dropped,
          launchd, sawLaunchd, lost, overlapped>>
files == <<pidFile, named>>
procs == <<proc, parent, wrote, dropped>>
locals == <<command, pidInit, count, sawLaunchd, overlapped>>

Up == {"boot", "ready", "cloned", "serving", "listening"}  \* a server on its way up
Running == {p \in Pids : proc[p] \in Up}
Alive == {l \in Launchers : pc[l] # "new"}
StartingUp == {l \in Alive : pc[l] # "connected"}

\* The launchers that are between their look at the pid file and its writing.
Searches(l) == pc[l] \in {"getInit", "check", "unlink", "decide", "spawn"}
Registers(l) == pc[l] \in {"readPipe", "register", "writePid"}
AtThePidFile == {l \in Launchers : Searches(l) \/ Registers(l)}

Init ==
    /\ command = [l \in Launchers |-> None]
    /\ pc = [l \in Launchers |-> "new"]
    /\ pidInit = [l \in Launchers |-> None]
    /\ count = [l \in Launchers |-> 0]
    /\ pidFile = None
    /\ named = {}
    /\ proc = [p \in Pids |-> "free"]
    /\ parent = [p \in Pids |-> None]
    /\ wrote = {} /\ dropped = {} /\ launchd = {} /\ sawLaunchd = {}
    /\ lost = {} /\ overlapped = {}

Goto(l, p) == pc' = [pc EXCEPT ![l] = p]

-----------------------------------------------------------------------------
(* Processes, as the host's kernel has them *)

\* The state of the processes after the deaths of `dead' and the exit of the
\* launchers `gone': a dead child is a zombie while its parent lives.
Exits(dead, gone) ==
    LET orphan(p) == parent[p] \in gone \cup {None}
        freed(p) == orphan(p) /\ (p \in dead \/ proc[p] = "zombie")
    IN /\ proc' = [p \in Pids |-> IF freed(p) THEN "free"
                                  ELSE IF p \in dead THEN "zombie" ELSE proc[p]]
       /\ parent' = [p \in Pids |-> IF orphan(p) THEN None ELSE parent[p]]
       /\ wrote' = {p \in wrote : ~freed(p)}
       /\ dropped' = {p \in dropped : ~freed(p)}

\* An ID that a launcher is working with is not given out again: the host does
\* that only when its counter has wrapped around.
InUse(p) == \E l \in Alive : pidInit[l] = p

\* kill(pid, 0): a zombie exists.
Exists(p) == proc[p] # "free"

\* /proc/<pid>/comm and, unless the user is root, the Uid and Gid lines of
\* /proc/<pid>/status; a zombie keeps both.  The server of another prefix passes
\* if it is the same user's, or whoever's it is if the user is root ("foreign").
IsInit(p) == \/ proc[p] = "foreign"
             \/ proc[p] \in Up \cup {"zombie"} /\ (Root \/ p \in dropped)

\* shellspawn accepts connections.  The file of its socket is seen before it
\* listens, and may be seen while launchd starts shellspawn anew.  Through the
\* root of another prefix's server nobody is reached.
Listening(p) == proc[p] = "listening"
SocketFile(p) == proc[p] \in {"serving", "listening"}

\* The launcher exits, for good or ill; the processes `dead' die with it.
Exit(l, dead) ==
    /\ Goto(l, "new")
    /\ Exits(dead, {l})
    /\ command' = [command EXCEPT ![l] = None]
    /\ pidInit' = [pidInit EXCEPT ![l] = None]
    /\ count' = [count EXCEPT ![l] = 0]
    /\ sawLaunchd' = sawLaunchd \ {l}
    /\ overlapped' = overlapped \ {l}
    /\ named' = named \ {l}

-----------------------------------------------------------------------------
(* getInitProcess *)

\* A launcher begins, whatever the others do.  Its search is undisturbed if none
\* of them is at the pid file now, no server is between its ready byte and the
\* end of its privileges, which root does not care for, and none comes later.
Undisturbed ==
    /\ AtThePidFile = {}
    /\ Root \/ \A p \in Pids : proc[p] \notin {"ready", "cloned"}

Start(l) ==
    /\ pc[l] = "new"
    /\ \E c \in {"shell", "shutdown"} : command' = [command EXCEPT ![l] = c]
    /\ overlapped' = IF Undisturbed THEN {} ELSE AtThePidFile \cup {l}
    /\ Goto(l, "getInit")
    /\ UNCHANGED <<pidInit, count, files, procs, launchd, sawLaunchd, lost>>

ReadPidFile(l) ==
    /\ pc[l] = "getInit"
    /\ pidInit' = [pidInit EXCEPT ![l] = IF pidFile \in Pids THEN pidFile ELSE None]
    /\ Goto(l, IF pidFile = None THEN "decide" ELSE IF pidFile = Empty THEN "unlink"
               ELSE "check")
    /\ UNCHANGED <<command, count, overlapped, files, procs, launchd, sawLaunchd, lost>>

\* Mutant: any process that has the ID will do.
CheckExists(l) ==
    /\ pc[l] = "check"
    /\ Goto(l, IF Exists(pidInit[l]) THEN "decide" ELSE "unlink")
    /\ UNCHANGED <<locals, files, procs, launchd, lost>>

\* Does the process exist, is it an init process, does it belong to the user?
CheckProcess(l) ==
    /\ pc[l] = "check"
    /\ Goto(l, IF Exists(pidInit[l]) /\ IsInit(pidInit[l]) THEN "decide" ELSE "unlink")
    /\ UNCHANGED <<locals, files, procs, launchd, lost>>

\* The server whose ID l takes out of the file; only an overlapped launcher can.
Overwritten(l) == IF l \in overlapped THEN {p \in Running : pidFile = p /\ pidFile' # p} ELSE {}

\* unlink(pidPath), whatever the file says by now, and return 0.
UnlinkPidFile(l) ==
    /\ pc[l] = "unlink"
    /\ pidFile' = None
    /\ named' = {}
    /\ pidInit' = [pidInit EXCEPT ![l] = None]
    /\ lost' = lost \cup Overwritten(l)
    /\ Goto(l, "decide")
    /\ UNCHANGED <<command, count, overlapped, procs, launchd, sawLaunchd>>

-----------------------------------------------------------------------------
(* main and spawnInitProcess *)

\* main, with the result of getInitProcess.
Decide(l) ==
    /\ pc[l] = "decide"
    /\ \/ command[l] = "shutdown" /\ pidInit[l] = None /\ Exit(l, {})
       \/ /\ ~(command[l] = "shutdown" /\ pidInit[l] = None)
          /\ Goto(l, IF command[l] = "shutdown" THEN "kill"
                     ELSE IF pidInit[l] = None THEN "spawn" ELSE "connect")
          /\ UNCHANGED <<locals, named, procs>>
    /\ UNCHANGED <<pidFile, launchd, lost>>

\* fork and exec of osxieserver.
SpawnInit(l) ==
    /\ pc[l] = "spawn"
    /\ \E p \in Pids :
        /\ proc[p] = "free" /\ ~InUse(p)
        /\ proc' = [proc EXCEPT ![p] = "boot"]
        /\ parent' = [parent EXCEPT ![p] = l]
        /\ pidInit' = [pidInit EXCEPT ![l] = p]
    /\ Goto(l, "readPipe")
    /\ UNCHANGED <<command, count, overlapped, files, wrote, dropped, launchd, sawLaunchd, lost>>

\* No pipe, no namespaces or no process to be had.
SpawnFails(l) ==
    /\ pc[l] = "spawn"
    /\ Exit(l, {})
    /\ UNCHANGED <<pidFile, launchd, lost>>

\* The read of the pipe: the ready byte, or its end when the server is dead.
ReadPipe(l) ==
    /\ pc[l] = "readPipe"
    /\ \/ /\ pidInit[l] \in wrote
          /\ Goto(l, "register") /\ UNCHANGED <<locals, named, procs>>
       \/ pidInit[l] \notin wrote /\ proc[pidInit[l]] = "zombie" /\ Exit(l, {})
    /\ UNCHANGED <<pidFile, launchd, lost>>

\* fopen(pidPath, "w") truncates the file that has the name, if there is one.
CreatePidFile(l) ==
    /\ pc[l] = "register"
    /\ \/ pidFile' = Empty /\ named' = named \cup {l} /\ Goto(l, "writePid")
          /\ lost' = lost \cup Overwritten(l)
       \/ lost' = lost \cup ({pidInit[l]} \cap Running) /\ Goto(l, "wait")
          /\ UNCHANGED files  \* it cannot be opened
    /\ UNCHANGED <<locals, procs, launchd>>

\* The ID is in the file when it is closed.  Of two IDs of different lengths that are
\* written into one file the second leaves a part of the first.
WritePid(l) ==
    /\ pc[l] = "writePid"
    /\ pidFile' \in IF l \notin named THEN {pidFile}
                    ELSE IF pidFile = Empty THEN {pidInit[l]} ELSE Pids
    /\ lost' = IF pidFile' = pidInit[l] THEN (lost \cup Overwritten(l)) \ {pidInit[l]}
               ELSE lost \cup Overwritten(l) \cup ({pidInit[l]} \cap Running)
    /\ named' = named \ {l}
    /\ Goto(l, "wait")
    /\ UNCHANGED <<locals, procs, launchd>>

\* A turn of a counted loop that leaves the rest alone.
Turn(l) ==
    /\ count' = [count EXCEPT ![l] = @ + 1]
    /\ UNCHANGED <<command, pidInit, sawLaunchd, overlapped, pc, named, procs>>

\* Mutant: a launcher that gives up takes the pid file away.
WaitForSocketTidily(l) ==
    /\ pc[l] = "wait"
    /\ LET over == ~Exists(pidInit[l]) \/ count[l] = WaitSecs
       IN \/ /\ SocketFile(pidInit[l])
             /\ count' = [count EXCEPT ![l] = 0] /\ Goto(l, "connect")
             /\ UNCHANGED <<command, pidInit, sawLaunchd, overlapped, files, procs>>
          \/ ~Listening(pidInit[l]) /\ over /\ pidFile' = None /\ Exit(l, {})
          \/ ~Listening(pidInit[l]) /\ ~over /\ Turn(l) /\ UNCHANGED pidFile
    /\ UNCHANGED <<launchd, lost>>

\* One turn of the wait for shellspawn's socket: the file is there, or the
\* server does not exist, or a second passes, or the turns are over.
WaitForSocket(l) ==
    /\ pc[l] = "wait"
    /\ LET over == ~Exists(pidInit[l]) \/ count[l] = WaitSecs
       IN \/ /\ SocketFile(pidInit[l])
             /\ count' = [count EXCEPT ![l] = 0] /\ Goto(l, "connect")
             /\ UNCHANGED <<command, pidInit, sawLaunchd, overlapped, named, procs>>
          \/ ~Listening(pidInit[l]) /\ over /\ Exit(l, {})
          \/ ~Listening(pidInit[l]) /\ ~over /\ Turn(l)
    /\ UNCHANGED <<pidFile, launchd, lost>>

-----------------------------------------------------------------------------
(* connectToShellspawn, and the end of the session that follows *)

\* Mutant: the attempts are not counted.
ConnectForever(l) ==
    /\ pc[l] = "connect"
    /\ \/ /\ Listening(pidInit[l])
          /\ Goto(l, "connected") /\ UNCHANGED <<locals, named, procs>>
       \/ ~Exists(pidInit[l]) /\ Exit(l, {})
       \/ ~Listening(pidInit[l]) /\ UNCHANGED <<pc, locals, named, procs>>
    /\ UNCHANGED <<pidFile, launchd, lost>>

\* One attempt: the connection is made; or the server does not exist, the
\* attempts are over or the error is not one that passes; or a second passes.
Connect(l) ==
    /\ pc[l] = "connect"
    /\ LET over == ~Exists(pidInit[l]) \/ count[l] = Attempts
       IN \/ /\ Listening(pidInit[l]) /\ ~over
             /\ Goto(l, "connected") /\ UNCHANGED <<locals, named, procs>>
          \/ (over \/ ~Listening(pidInit[l])) /\ Exit(l, {})
          \/ ~Listening(pidInit[l]) /\ ~over /\ Turn(l)
    /\ UNCHANGED <<pidFile, launchd, lost>>

\* shellLoop exits: the shell has ended or the connection is closed.
EndSession(l) ==
    /\ pc[l] = "connected"
    /\ Exit(l, {})
    /\ UNCHANGED <<pidFile, launchd, lost>>

\* signalHandler: SIGTERM takes the container down as shutdown does.
Terminate(l) ==
    /\ pc[l] = "connected"
    /\ Goto(l, "kill")
    /\ UNCHANGED <<locals, files, procs, launchd, lost>>

-----------------------------------------------------------------------------
(* killOsxieContainer *)

\* launchd is the first child of the server, if it has one by now; a dead server
\* has no children.
FindLaunchd(l) ==
    /\ pc[l] = "kill"
    /\ sawLaunchd' = IF pidInit[l] \in launchd THEN sawLaunchd \cup {l} ELSE sawLaunchd \ {l}
    /\ Goto(l, "killBoth")
    /\ UNCHANGED <<command, pidInit, count, overlapped, files, procs, launchd, lost>>

\* SIGKILL to both.  The launcher of a shutdown, or of a session whose
\* container is gone, exits.
KillBoth(l) ==
    /\ pc[l] = "killBoth"
    /\ Exit(l, {pidInit[l]} \cap {p \in Pids : proc[p] \in Up \cup {"other", "foreign"}})
    /\ launchd' = launchd \ {pidInit[l]}
    /\ lost' = lost \ {pidInit[l]}
    /\ UNCHANGED pidFile

\* The launcher is killed, or the user's terminal is.  A server it could not
\* register is lost; one that has not written its byte dies of SIGPIPE then.
Killed(l) ==
    /\ l \in StartingUp
    /\ lost' = lost \cup {p \in Running : parent[p] = l /\ Registers(l)}
    /\ Exit(l, {})
    /\ UNCHANGED <<pidFile, launchd>>

-----------------------------------------------------------------------------
(* The server and the host *)

\* The server's next step on its way up: the ready byte, which nobody reads
\* when the launcher is dead; the clone of launchd; the end of its privileges;
\* and at last shellspawn's socket, if launchd lives to start it.
Boot(p) ==
    /\ \/ proc[p] = "boot" /\ parent[p] # None
          /\ proc' = [proc EXCEPT ![p] = "ready"] /\ wrote' = wrote \cup {p}
          /\ UNCHANGED <<parent, dropped, launchd, lost>>
       \/ proc[p] = "boot" /\ parent[p] = None
          /\ Exits({p}, {}) /\ lost' = lost \ {p} /\ UNCHANGED launchd
       \/ proc[p] = "ready"
          /\ proc' = [proc EXCEPT ![p] = "cloned"] /\ launchd' = launchd \cup {p}
          /\ UNCHANGED <<parent, wrote, dropped, lost>>
       \/ proc[p] = "cloned"
          /\ proc' = [proc EXCEPT ![p] = "serving"] /\ dropped' = dropped \cup {p}
          /\ UNCHANGED <<parent, wrote, launchd, lost>>
       \/ proc[p] = "serving" /\ p \in launchd
          /\ proc' = [proc EXCEPT ![p] = "listening"]
          /\ UNCHANGED <<parent, wrote, dropped, launchd, lost>>
    /\ UNCHANGED <<locals, pc, files>>

\* The server fails or is killed by somebody else; launchd, if there is one, is
\* nobody's child then.
ServerDies(p) ==
    /\ p \in Running
    /\ Exits({p}, {})
    /\ launchd' = launchd \ {p}
    /\ lost' = lost \ {p}
    /\ UNCHANGED <<locals, pc, files>>

\* shellspawn ends, for launchd to start it again.
ShellspawnEnds(p) ==
    /\ Listening(p)
    /\ proc' = [proc EXCEPT ![p] = "serving"]
    /\ UNCHANGED <<locals, pc, files, parent, wrote, dropped, launchd, lost>>

\* Another program, or the server of another prefix, gets a process ID or ends.
Reuse(p) ==
    /\ \/ proc[p] = "free" /\ ~InUse(p)
          /\ \E other \in {"other", "foreign"} : proc' = [proc EXCEPT ![p] = other]
       \/ proc[p] \in {"other", "foreign"} /\ proc' = [proc EXCEPT ![p] = "free"]
    /\ UNCHANGED <<locals, pc, files, parent, wrote, dropped, launchd, lost>>

-----------------------------------------------------------------------------
Step(l) == ReadPidFile(l) \/ CheckProcess(l) \/ UnlinkPidFile(l) \/ Decide(l)
           \/ SpawnInit(l) \/ SpawnFails(l) \/ ReadPipe(l) \/ CreatePidFile(l) \/ WritePid(l)
           \/ WaitForSocket(l) \/ Connect(l) \/ FindLaunchd(l) \/ KillBoth(l)

Next == \/ \E l \in Launchers : Start(l) \/ Step(l) \/ EndSession(l) \/ Terminate(l)
                                \/ Killed(l)
        \/ \E p \in Pids : Boot(p) \/ ServerDies(p) \/ ShellspawnEnds(p)
                           \/ Reuse(p)

\* A launcher that is not blocked runs.  Nothing says that a server gets on with
\* its start, nor when a session ends or a signal arrives.
Fairness == \A l \in Launchers : WF_vars(Step(l))

Spec == Init /\ [][Next]_vars /\ Fairness

-----------------------------------------------------------------------------
\* A launcher whose search was undisturbed starts a container only if every server
\* that runs is lost: its launcher was killed before, or unable, to write the pid
\* file, or launchers that overlapped took it out of the file.  So these are the
\* only ways to a second container, whatever the pid file names: a dead server, a
\* zombie, another program, another prefix's server, or nothing ("If prefix's init
\* is not running, start it up", osxie.c:174).
SecondNeedsOverlap ==
    [][\A l \in Launchers : SpawnInit(l) /\ l \notin overlapped => Running \subseteq lost]_vars

\* What a shutdown or a SIGTERM kills is an osxieserver, though not for sure that
\* of this prefix: a stale ID that another program has by now is recognised.  And
\* it is killed with its launchd (osxie.c:56-77, 1259-1333); but root, who is not
\* asked to own the server, may shut one down that has yet to clone its launchd.
KillsOnlyServers ==
    [][\A l \in Launchers :
        KillBoth(l) => /\ proc[pidInit[l]] # "other"
                       /\ pidInit[l] \in launchd =>
                             l \in sawLaunchd \/ (Root /\ command[l] = "shutdown")]_vars

\* Every launcher gets to its session or exits, or it waits for a server that
\* neither gets ready nor dies: the wait for the socket and the attempts to connect
\* are counted, the read of the pipe is not (osxie.c:191-213, 630-659, 943-952).
Hangs(l) == pc[l] = "readPipe" /\ proc[pidInit[l]] = "boot"
EveryLaunchEnds ==
    \A l \in Launchers :
        pc[l] = "getInit" ~> (pc[l] \in {"connected", "new"} \/ []Hangs(l))

\* The read of the pipe has a timeout: "Check pipe read with timeout using alarm()",
\* "Max 5 seconds to wait for child" (osxie.c:926, 936).  The code does not keep
\* this: SIGALRM is ignored (osxie.c:931), so that it does not end the read.
ReadIsTimed == \A l \in Launchers : pc[l] = "readPipe" ~> pc[l] # "readPipe"
=============================================================================
