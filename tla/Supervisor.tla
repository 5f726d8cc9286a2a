----------------------------- MODULE Supervisor -----------------------------
(***************************************************************************)
(* How the gateway is started, stopped and kept single: the commands       *)
(* `run`, `start`, `stop` and `status`, each in a process of its own, and  *)
(* the two files they share, daemon.lock and daemon.pid                    *)
(* (internal/supervisor, and its callers in cmd/gpt-github-gateway).       *)
(* `once` acquires and releases as `run` does, without listening.  A       *)
(* file is read, written and removed in separate steps, and between any    *)
(* two of them other processes act, or the process is killed.  Process ids *)
(* are given out again after a process has ended.                          *)
(***************************************************************************)
EXTENDS Naturals, FiniteSets

CONSTANTS
    Pids,        \* the process ids of the machine
    MaxEvents, \* bound: `start`, `stop` and `status` commands, further looks of
               \* a `start` at what it has started, processes killed from
               \* outside, and ids that go to other programs, together
    MaxRuns,   \* bound: `run` is not given while that many are there
    None,      \* no file; no process
    Blank,     \* a lock file without a number in it
    Minus1     \* the text "-1"

ASSUME PidAssumption == /\ None \notin Pids \cup {Blank, Minus1}
                        /\ Blank \notin Pids \cup {Minus1}
                        /\ Minus1 \notin Pids
ASSUME BoundAssumption == MaxEvents \in Nat /\ MaxRuns \in Nat

VARIABLES
    step,      \* [Pids -> Steps]: what the process with this id is about to do
    seen,      \* [Pids -> Text]: what the process last read in a file
    lockBy,    \* the process that created daemon.lock, or None
    lockText,  \* what is in daemon.lock
    pidFile,   \* what is in daemon.pid, or None
    temp,      \* what is in daemon.pid.tmp, or None
    port,      \* the process that listens on the loopback address
    events,    \* how many of them there were
    crossed    \* history: a lock was created while another process was about
               \* to judge the one before it

files == <<lockBy, lockText, pidFile, temp>>
vars == <<step, seen, files, port, events, crossed>>

Text == Pids \cup {None, Blank, Minus1}

\* Acquire, up to the creation of the lock file.
Acquiring == {"open", "inspect", "judge", "reopen"}
\* From the creation of the lock file to its removal.
Holding == {"fill", "runTemp", "runRename", "withdraw", "listen", "serving",
            "releaseLock"}
Gateway == Acquiring \cup Holding \cup {"releasePid"}
Commands == {"start", "startCheck", "startTemp", "startRename", "watch",
             "watchCheck", "stop", "stopCheck", "signal", "await", "forget",
             "status", "statusCheck"}
Steps == {"absent", "foreign"} \cup Gateway \cup Commands

TypeOK ==
    /\ step \in [Pids -> Steps]
    /\ seen \in [Pids -> Text]
    /\ lockBy \in Pids \cup {None} /\ lockText \in Pids \cup {Blank}
    /\ pidFile \in Text \ {Blank} /\ temp \in Text \ {Blank}
    /\ port \in Pids \cup {None}
    /\ events \in 0..MaxEvents
    /\ crossed \in BOOLEAN

Init ==
    /\ step = [p \in Pids |-> "absent"]
    /\ seen = [p \in Pids |-> None]
    /\ lockBy = None /\ lockText = Blank /\ pidFile = None /\ temp = None
    /\ port = None
    /\ events = 0
    /\ crossed = FALSE

\* processAlive: a signal could be delivered, to whoever has the id now.
ProcessAlive(t) == t \in Pids /\ step[t] # "absent"

\* The process goes on to step s; what it has read is forgotten unless the
\* next step uses it.  A process that ends gives up its port.
Goto(p, s) == step' = [step EXCEPT ![p] = s]
Forget(p) == seen' = [seen EXCEPT ![p] = None]
Read(p, text) == seen' = [seen EXCEPT ![p] = text]
PortWithout(p) == IF port = p THEN None ELSE port
RemovePidFile == pidFile' = None
Event == events < MaxEvents /\ events' = events + 1

-----------------------------------------------------------------------------
(* Commands begin.                                                         *)

Exec(p, s) == step[p] = "absent" /\ Goto(p, s) /\ Forget(p)

\* `run` in the foreground.
RunCommand(p) ==
    /\ Cardinality({q \in Pids : step[q] \in Gateway}) < MaxRuns
    /\ Exec(p, "open")
    /\ UNCHANGED <<files, port, events, crossed>>

\* `start`, `stop` and `status`.
OwnerCommand(p) ==
    /\ Event
    /\ \E s \in {"start", "stop", "status"} : Exec(p, s)
    /\ UNCHANGED <<files, port, crossed>>

\* A free id goes to some other program of the machine.
Reuse(p) ==
    /\ Event
    /\ Exec(p, "foreign")
    /\ UNCHANGED <<files, port, crossed>>

-----------------------------------------------------------------------------
(* Acquire.                                                                *)

\* Mutant: the owner of the lock is not asked for.
AnyOwnerIsDead(t) == TRUE
\* Mutant: a lock is never recovered.
NoOwnerIsDead(t) == FALSE
OwnerIsDead(t) == ~ProcessAlive(t)

\* os.OpenFile with O_CREATE and O_EXCL: the new file is still empty.
CreateLock(p) ==
    /\ lockBy = None
    /\ lockBy' = p /\ lockText' = Blank
    /\ crossed' = (crossed \/ \E q \in Pids \ {p} : step[q] = "judge")
    /\ Goto(p, "fill") /\ Forget(p)
    /\ UNCHANGED <<pidFile, temp, port, events>>

End(p) == Goto(p, "absent") /\ Forget(p)

Open(p) == step[p] = "open" /\ CreateLock(p)

LockExists(p) ==
    /\ step[p] = "open" /\ lockBy # None
    /\ Goto(p, "inspect")
    /\ UNCHANGED <<seen, files, port, events, crossed>>

Inspect(p) ==
    /\ step[p] = "inspect" /\ lockBy # None /\ lockText # Blank
    /\ Read(p, lockText) /\ Goto(p, "judge")
    /\ UNCHANGED <<files, port, events, crossed>>

\* "another gateway process may be running": the file does not say whose it
\* is, or has gone since the attempt, or its process lives, or another process
\* was faster.
Refuse(p) ==
    /\ \/ step[p] = "inspect" /\ (lockBy = None \/ lockText = Blank)
       \/ step[p] = "judge" /\ ~OwnerIsDead(seen[p])
       \/ step[p] = "reopen" /\ lockBy # None
    /\ End(p)
    /\ UNCHANGED <<files, port, events, crossed>>

\* The file is removed by its name, whoever has created it meanwhile.
RemoveStale(p) ==
    /\ step[p] = "judge" /\ OwnerIsDead(seen[p])
    /\ lockBy' = None /\ lockText' = Blank
    /\ Goto(p, "reopen") /\ Forget(p)
    /\ UNCHANGED <<pidFile, temp, port, events, crossed>>

Reopen(p) == step[p] = "reopen" /\ CreateLock(p)

\* Written through the descriptor: into the file this process has created,
\* which need not be the one that has the name now.
Fill(p) ==
    /\ step[p] = "fill"
    /\ lockText' = IF lockBy = p THEN p ELSE lockText
    /\ Goto(p, "runTemp")
    /\ UNCHANGED <<seen, lockBy, pidFile, temp, port, events, crossed>>

\* writePID: the temporary file has the same name for every process, so that a
\* rename installs what the last writer put there, or finds nothing.  os.WriteFile
\* truncates and writes; it is one step here, and nothing reads the file in between.
RunTemp(p) ==
    /\ step[p] = "runTemp" /\ temp' = p
    /\ Goto(p, "runRename")
    /\ UNCHANGED <<seen, lockBy, lockText, pidFile, port, events, crossed>>

RunRename(p) ==
    /\ step[p] = "runRename" /\ temp # None
    /\ pidFile' = temp /\ temp' = None
    /\ Goto(p, "listen")
    /\ UNCHANGED <<seen, lockBy, lockText, port, events, crossed>>

RunRenameFails(p) ==
    /\ step[p] = "runRename" /\ temp = None
    /\ Goto(p, "withdraw")
    /\ UNCHANGED <<seen, files, port, events, crossed>>

Withdraw(p) ==
    /\ step[p] = "withdraw"
    /\ lockBy' = None /\ lockText' = Blank
    /\ End(p)
    /\ UNCHANGED <<pidFile, temp, port, events, crossed>>

-----------------------------------------------------------------------------
(* runDaemon, and the release that Acquire returned.                       *)

Listen(p) ==
    /\ step[p] = "listen" /\ port = None
    /\ port' = p /\ Goto(p, "serving")
    /\ UNCHANGED <<seen, files, events, crossed>>

\* The address is in use, or application.Run has failed.
Finish(p) ==
    /\ \/ step[p] = "listen" /\ port # None
       \/ step[p] = "serving"
    /\ port' = PortWithout(p) /\ Goto(p, "releaseLock")
    /\ UNCHANGED <<seen, files, events, crossed>>

ReleaseLock(p) ==
    /\ step[p] = "releaseLock"
    /\ lockBy' = None /\ lockText' = Blank
    /\ Goto(p, "releasePid")
    /\ UNCHANGED <<seen, pidFile, temp, port, events, crossed>>

ReleasePid(p) ==
    /\ step[p] = "releasePid" /\ RemovePidFile
    /\ End(p)
    /\ UNCHANGED <<lockBy, lockText, temp, port, events, crossed>>

-----------------------------------------------------------------------------
(* Status, and the commands that call it.                                  *)

\* What Status makes of the text it has read: a running pid, or nothing.  A
\* file with the id of a dead process is removed, by its name.
Running(t) == ProcessAlive(t)
DropDead(t) == pidFile' = IF t \in Pids /\ ~ProcessAlive(t) THEN None ELSE pidFile

ReadPidFile(p) ==
    /\ \/ step[p] = "status" /\ Goto(p, "statusCheck")
       \/ step[p] = "start" /\ Goto(p, "startCheck")
       \/ step[p] = "watch" /\ Goto(p, "watchCheck")
       \/ step[p] = "stop" /\ Goto(p, "stopCheck")
    /\ Read(p, pidFile)
    /\ UNCHANGED <<files, port, events, crossed>>

StatusReports(p) ==
    /\ step[p] = "statusCheck" /\ DropDead(seen[p])
    /\ End(p)
    /\ UNCHANGED <<lockBy, lockText, temp, port, events, crossed>>

\* Start: "gateway is already running".
StartRefuses(p) ==
    /\ step[p] = "startCheck" /\ Running(seen[p])
    /\ End(p)
    /\ UNCHANGED <<files, port, events, crossed>>

\* StartDetached begins `run` in a process of its own.
StartSpawns(p) ==
    /\ step[p] = "startCheck" /\ ~Running(seen[p]) /\ DropDead(seen[p])
    /\ \E child \in Pids :
        /\ step[child] = "absent"
        /\ step' = [step EXCEPT ![p] = "startTemp", ![child] = "open"]
        /\ seen' = [seen EXCEPT ![p] = None, ![child] = None]
    /\ UNCHANGED <<lockBy, lockText, temp, port, events, crossed>>

\* Mutant: nothing is written.
EmptyPid(p) == Blank
\* process.Pid after process.Release(), which sets it to -1 everywhere but on
\* Windows.
ReleasedPid(p) == Minus1

StartTemp(p) ==
    /\ step[p] = "startTemp" /\ temp' = ReleasedPid(p)
    /\ Goto(p, "startRename")
    /\ UNCHANGED <<seen, lockBy, lockText, pidFile, port, events, crossed>>

StartRename(p) ==
    /\ step[p] = "startRename" /\ temp # None
    /\ pidFile' = temp /\ temp' = None
    /\ Goto(p, "watch")
    /\ UNCHANGED <<seen, lockBy, lockText, port, events, crossed>>

StartRenameFails(p) ==
    /\ step[p] = "startRename" /\ temp = None
    /\ End(p)
    /\ UNCHANGED <<seen, files, port, events, crossed>>

\* Start looks at Status again and again, until it has been running for a
\* second, or for fifteen seconds.
StartLooksAgain(p) ==
    /\ step[p] = "watchCheck" /\ DropDead(seen[p]) /\ Event
    /\ Goto(p, "watch") /\ Forget(p)
    /\ UNCHANGED <<lockBy, lockText, temp, port, crossed>>

StartReturns(p) ==
    /\ step[p] = "watchCheck" /\ DropDead(seen[p])
    /\ End(p)
    /\ UNCHANGED <<lockBy, lockText, temp, port, events, crossed>>

StopFindsNone(p) ==
    /\ step[p] = "stopCheck" /\ ~Running(seen[p]) /\ RemovePidFile
    /\ End(p)
    /\ UNCHANGED <<lockBy, lockText, temp, port, events, crossed>>

StopFinds(p) ==
    /\ step[p] = "stopCheck" /\ Running(seen[p])
    /\ Goto(p, "signal")
    /\ UNCHANGED <<seen, files, port, events, crossed>>

\* SIGTERM.  A daemon that listens, or is about to, begins its release; while
\* it shuts down the signal is swallowed.  Any other process ends.
Graceful(t) == step[t] \in {"listen", "serving"}

StopSignals(p) ==
    /\ step[p] = "signal" /\ ProcessAlive(seen[p])
    /\ LET t == seen[p] IN
        /\ \/ /\ Graceful(t)
              /\ step' = [step EXCEPT ![t] = "releaseLock", ![p] = "await"]
           \/ /\ step[t] = "releaseLock"
              /\ Goto(p, "await")
           \/ /\ step[t] # "serving"
              /\ step' = [step EXCEPT ![p] = "await", ![t] = "absent"]
        /\ port' = PortWithout(t)
    /\ UNCHANGED <<seen, files, events, crossed>>

\* The process has ended since: terminate returns an error.
StopMisses(p) ==
    /\ step[p] = "signal" /\ ~ProcessAlive(seen[p])
    /\ End(p)
    /\ UNCHANGED <<files, port, events, crossed>>

\* The process has ended, or is killed after ten seconds.
StopSees(p) ==
    /\ step[p] = "await" /\ ~ProcessAlive(seen[p])
    /\ Goto(p, "forget") /\ Forget(p)
    /\ UNCHANGED <<files, port, events, crossed>>

StopKills(p) ==
    /\ step[p] = "await" /\ ProcessAlive(seen[p]) /\ seen[p] # p
    /\ Event
    /\ step' = [step EXCEPT ![seen[p]] = "absent", ![p] = "forget"]
    /\ port' = PortWithout(seen[p])
    /\ Forget(p)
    /\ UNCHANGED <<files, crossed>>

StopForgets(p) ==
    /\ step[p] = "forget" /\ RemovePidFile
    /\ End(p)
    /\ UNCHANGED <<lockBy, lockText, temp, port, events, crossed>>

-----------------------------------------------------------------------------
\* SIGKILL, or a crash.
Kill(p) ==
    /\ step[p] # "absent" /\ Event
    /\ port' = PortWithout(p)
    /\ End(p)
    /\ UNCHANGED <<files, crossed>>

Acquires(p) ==
    \/ Open(p) \/ LockExists(p) \/ Inspect(p) \/ Refuse(p) \/ RemoveStale(p)
    \/ Reopen(p) \/ Fill(p) \/ RunTemp(p) \/ RunRename(p) \/ RunRenameFails(p)
    \/ Withdraw(p) \/ Listen(p)

Releases(p) == ReleaseLock(p) \/ ReleasePid(p)

Starts(p) == StartRefuses(p) \/ StartSpawns(p) \/ StartTemp(p)
             \/ StartRename(p) \/ StartRenameFails(p)
             \/ StartLooksAgain(p) \/ StartReturns(p)

Stops(p) == StopFindsNone(p) \/ StopFinds(p) \/ StopSignals(p)
            \/ StopMisses(p) \/ StopSees(p) \/ StopKills(p) \/ StopForgets(p)

\* What a process does without being told: everything but the end of a daemon.
Proceeds(p) == Acquires(p) \/ Releases(p) \/ ReadPidFile(p)
               \/ StatusReports(p) \/ Starts(p) \/ Stops(p)

Next == \E p \in Pids :
    \/ RunCommand(p) \/ OwnerCommand(p) \/ Reuse(p)
    \/ Proceeds(p) \/ Finish(p) \/ Kill(p)

Spec == Init /\ [][Next]_vars

\* A process goes on, and the gateway is run again whenever there is room for a
\* process.
FairSpec ==
    /\ Spec
    /\ \A p \in Pids : WF_vars(Proceeds(p))
    /\ WF_vars(\E p \in Pids : RunCommand(p))

-----------------------------------------------------------------------------
(* Properties.                                                             *)

\* One gateway per state directory: two processes are never both between the
\* creation of their lock file and its removal, through kills, recoveries and
\* reused process ids, unless a lock was created while another process was
\* about to judge the one before it (Acquire removes a stale lock by its name).
OneGateway ==
    crossed \/ \A p, q \in Pids : step[p] \in Holding /\ step[q] \in Holding => p = q

\* A lock that no gateway process holds, and that no later one will remove:
\* its process was killed before it wrote its id into the file, or the id in
\* it belongs to a living process again.
Stuck == /\ lockBy # None
         /\ ~(step[lockBy] \in Holding)
         /\ lockText = Blank \/ ProcessAlive(lockText)

\* Whatever was killed, stopped or refused in the meantime, the gateway comes to
\* work again and again, except while its lock is stuck: Acquire recovers the
\* lock of a dead process, and a release leaves none.
GatewayWorksAgain == []<>(Stuck \/ \E p \in Pids : step[p] = "serving")
=============================================================================
