---------------------------- MODULE ControlBranch ----------------------------
(***************************************************************************)
(* What a gateway tells GPT about itself: the snapshot on its control      *)
(* branch (App.PublishControl, bus.Manager.PublishControl).  The heartbeat *)
(* and every project worker publish snapshots: each looks at the clock and *)
(* at the state the goroutines share, then waits for the operation lock,   *)
(* and replaces the branch with what it has seen.  A signal cancels the    *)
(* context of all but two kinds of publication; the process may exit or be *)
(* killed at any time.                                                     *)
(*                                                                         *)
(* OperationLock makes fetch, comparison and push of one publication a     *)
(* single step here.  No other process publishes (Supervisor).  What a     *)
(* snapshot says of the projects is kept as whether it is still so.        *)
(***************************************************************************)
EXTENDS Configuration

CONSTANTS
    Files,        \* the configuration files that the owner may write
    MaxDelay,     \* a publication waits at most that long for lock and push
    MaxFailures,  \* bound: passes, tasks and publications that fail, stops
                  \* and kills, together
    None          \* no configuration loaded; no snapshot

ASSUME DelayAssumption == MaxDelay \in Nat /\ 2 * MaxDelay <= MinHeartbeat
ASSUME FailureAssumption == MaxFailures \in Nat
ASSUME FileAssumption ==
    /\ Files # {}
    /\ \A f \in Files :
        /\ DOMAIN f = {"template", "control", "project", "heartbeat", "lease",
                       "projects", "wellFormed"}
        /\ f.projects \subseteq ProjectIDs /\ f.heartbeat \in Nat /\ f.lease \in Nat
        /\ Load(f) # None

VARIABLES
    file,      \* the configuration file
    config,    \* what the running daemon has loaded, or None
    daemon,    \* "down", "up" or "stopping": its context is cancelled
    main,      \* the goroutine of App.Run
    timer, due,\* ticks since the heartbeat ticker fired; a tick not yet taken
    worker,    \* [ProjectIDs -> WorkerSteps]: the goroutine of each project
    active,    \* projects with an active task
    errors,    \* projects with a project error
    lastError, \* there is a last error
    pending,   \* [Threads -> the snapshot the thread is publishing, or None]
    branch,    \* the snapshot on the control branch, or None
    missed,    \* a publication of this daemon has failed
    raising,   \* history: projects whose error was recorded before the signal came,
               \* and whose alarm has not been published yet
    failures

goroutines == <<main, timer, due, worker>>
shared == <<active, errors, lastError>>
vars == <<file, config, daemon, goroutines, shared, pending, branch, missed, raising, failures>>

Heartbeat == "heartbeat"
\* The name that the model gives the heartbeat is no project's.
ASSUME HeartbeatAssumption == Heartbeat \notin ProjectIDs
Threads == ProjectIDs \cup {Heartbeat}
Projects == config.projects

\* Ages count up to the longest lease.
TooOld == MaxLease
Older(age) == IF age = TooOld THEN age ELSE age + 1

MainSteps == {"start", "starting", "wait", "decided online", "decided degraded",
              "beat", "leaving", "join", "returned"}
WorkerSteps == {"idle", "pass", "announce", "run", "report", "complain", "record",
                "raise", "alarm", "stopped"}
\* `current`: the shared state is still what it was when the snapshot was made.
Snapshots == [status : {"online", "degraded", "offline"}, current : BOOLEAN,
              age : 0..TooOld]
ASSUME NoneAssumption == None \notin Snapshots

VariablesTyped ==
    /\ file \in Files
    /\ config \in {None} \cup {Load(f) : f \in Files}
    /\ daemon \in {"down", "up", "stopping"}
    /\ main \in MainSteps
    /\ timer \in 0..MaxHeartbeat /\ due \in BOOLEAN
    /\ worker \in [ProjectIDs -> WorkerSteps]
    /\ active \subseteq ProjectIDs /\ errors \subseteq ProjectIDs
    /\ lastError \in BOOLEAN
    /\ pending \in [Threads -> Snapshots \cup {None}]
    /\ branch \in Snapshots \cup {None}
    /\ missed \in BOOLEAN /\ raising \subseteq ProjectIDs
    /\ failures \in 0..MaxFailures

\* Whichever way a task ends, its project is active no longer.
ActiveIsWorkedOn == active = {p \in ProjectIDs : worker[p] \in {"announce", "run"}}

TypeOK == VariablesTyped /\ ActiveIsWorkedOn

Init ==
    /\ file \in Files /\ config = None /\ daemon = "down"
    /\ main = "start" /\ timer = 0 /\ due = FALSE
    /\ worker = [p \in ProjectIDs |-> "idle"]
    /\ active = {} /\ errors = {} /\ lastError = FALSE
    /\ pending = [t \in Threads |-> None]
    /\ branch = None /\ missed = FALSE /\ raising = {} /\ failures = 0

Runs == daemon # "down"
Cancelled == daemon = "stopping"
Fault == failures < MaxFailures /\ failures' = failures + 1
MainGoes(s) == main' = s
WorkerGoes(p, s) == worker' = [worker EXCEPT ![p] = s]

-----------------------------------------------------------------------------
(* PublishControl.                                                         *)

\* What has been said is no longer so when the shared state changes.
Outdated(s) ==
    IF s # None /\ shared' # shared THEN [s EXCEPT !.current = FALSE] ELSE s
OutdatedPending == [t \in Threads |-> Outdated(pending[t])]
Outdate == pending' = OutdatedPending /\ branch' = Outdated(branch)

\* The snapshot is made of the shared state, before the operation lock is asked
\* for; the lease is counted from here.  The code reads clock, last error and project
\* states one after the other: a later read may see what has changed since, and the
\* snapshot counts as not current then.
Compute(t, status) ==
    /\ pending' = [OutdatedPending EXCEPT ![t] =
           [status |-> status, current |-> TRUE, age |-> 0]]
    /\ branch' = Outdated(branch)

\* The thread goes on when its publication has returned, whatever the outcome.
Returns(t) ==
    IF t = Heartbeat
    THEN /\ MainGoes(IF main = "leaving" THEN "join" ELSE "wait")
         /\ UNCHANGED worker
    ELSE /\ worker' = [worker EXCEPT ![t] =
              CASE @ = "announce" -> "run"
                [] @ = "report"   -> "pass"
                [] @ = "complain" -> "record"
                [] @ = "alarm"    -> "idle"]
         /\ UNCHANGED main

\* Run's alarms and its farewell are published under contexts of their own.
OwnContext(t) == IF t = Heartbeat THEN main = "leaving" ELSE worker[t] = "alarm"

\* The branch is replaced by a commit on top of the template.
Push(t) ==
    /\ Runs /\ pending[t] # None
    /\ Cancelled => OwnContext(t)
    /\ branch' = pending[t]
    /\ pending' = [pending EXCEPT ![t] = None]
    /\ raising' = raising \ {t}
    /\ Returns(t)
    /\ UNCHANGED <<file, config, daemon, timer, due, shared, missed, failures>>

\* No lock, no network, or a cancelled context; callers ignore the error,
\* except at the start, where Run returns it.  A push that is reported as
\* failed may have been executed.
PublicationFails(t) ==
    /\ Runs /\ pending[t] # None
    /\ IF Cancelled THEN UNCHANGED failures ELSE Fault
    /\ IF Cancelled /\ ~OwnContext(t) THEN UNCHANGED branch
       ELSE branch' \in {branch, pending[t]}
    /\ missed' = TRUE /\ raising' = raising \ {t}
    /\ pending' = [pending EXCEPT ![t] = None]
    /\ IF t = Heartbeat /\ main = "starting"
       THEN MainGoes("returned") /\ UNCHANGED worker
       ELSE Returns(t)
    /\ UNCHANGED <<file, config, daemon, timer, due, shared>>

-----------------------------------------------------------------------------
(* App.Run: the start, the heartbeat, and the farewell.                    *)

Start ==
    /\ daemon = "down" /\ Loads(file)
    /\ daemon' = "up" /\ config' = Load(file)
    /\ main' = "starting" /\ timer' = 0 /\ due' = FALSE
    /\ worker' = [p \in ProjectIDs |-> IF p \in config'.projects THEN "idle" ELSE "stopped"]
    /\ active' = {} /\ errors' = {} /\ lastError' = FALSE
    /\ Compute(Heartbeat, "online")
    /\ missed' = FALSE
    /\ UNCHANGED <<file, raising, failures>>

\* Mutant: the heartbeat always says online.
DecideOnline ==
    /\ Runs /\ main = "wait" /\ due
    /\ due' = FALSE
    /\ MainGoes("decided online")
    /\ UNCHANGED <<file, config, daemon, timer, worker, shared, pending, branch,
                   missed, raising, failures>>
\* The ticker's channel holds one tick; Run takes it when it is back at its
\* select, where a tick and the signal that are both there come in either order.  The
\* status is decided before the snapshot is made.
Decide ==
    /\ Runs /\ main = "wait" /\ due
    /\ due' = FALSE
    /\ MainGoes(IF lastError THEN "decided degraded" ELSE "decided online")
    /\ UNCHANGED <<file, config, daemon, timer, worker, shared, pending, branch,
                   missed, raising, failures>>

Beat ==
    /\ Runs /\ UNCHANGED shared
    /\ \/ main = "decided online" /\ Compute(Heartbeat, "online")
       \/ main = "decided degraded" /\ Compute(Heartbeat, "degraded")
    /\ MainGoes("beat")
    /\ UNCHANGED <<file, config, daemon, timer, due, worker, missed, raising, failures>>

Leave ==
    /\ Cancelled /\ main = "wait"
    /\ UNCHANGED shared /\ Compute(Heartbeat, "offline")
    /\ MainGoes("leaving")
    /\ UNCHANGED <<file, config, daemon, timer, due, worker, missed, raising, failures>>

\* workers.Wait
Join ==
    /\ Runs /\ main = "join" /\ \A p \in Projects : worker[p] = "stopped"
    /\ MainGoes("returned")
    /\ UNCHANGED <<file, config, daemon, timer, due, worker, shared, pending, branch,
                   missed, raising, failures>>

-----------------------------------------------------------------------------
(* The workers: App.OnceProject, as far as it is told on the branch, and   *)
(* the loop around it.  Most steps touch only worker and shared state.     *)

WorkerRuns(p, steps) == Runs /\ p \in Projects /\ worker[p] \in steps
                        /\ main \notin {"start", "starting", "returned"}
Rest == UNCHANGED <<file, config, daemon, main, timer, due, missed, raising>>

WorkerStops(p) ==
    /\ WorkerRuns(p, {"idle"}) /\ Cancelled /\ WorkerGoes(p, "stopped")
    /\ UNCHANGED <<shared, pending, branch, failures>> /\ Rest

\* Mutant: the project stays active when its result cannot be published.
PassFailsActive(p) ==
    /\ WorkerRuns(p, {"idle", "pass", "run"}) /\ WorkerGoes(p, "record")
    /\ UNCHANGED shared
    /\ Outdate /\ Fault /\ Rest
\* Sync, Discover or Materialize fails; or a result cannot be published.
PassFails(p) ==
    /\ WorkerRuns(p, {"idle", "pass", "run"}) /\ WorkerGoes(p, "record")
    /\ active' = active \ {p} /\ UNCHANGED <<errors, lastError>>
    /\ Outdate /\ Fault /\ Rest

TakeUp(p) ==
    /\ WorkerRuns(p, {"idle", "pass"}) /\ WorkerGoes(p, "announce")
    /\ active' = active \cup {p} /\ UNCHANGED <<errors, lastError>>
    /\ Compute(p, "online")
    /\ UNCHANGED failures /\ Rest

TaskEnds(p) ==
    /\ WorkerRuns(p, {"run"})
    /\ active' = active \ {p} /\ UNCHANGED <<errors, lastError>>
    /\ \/ WorkerGoes(p, "report") /\ Compute(p, "online") /\ UNCHANGED failures
       \/ WorkerGoes(p, "complain") /\ Compute(p, "degraded") /\ Fault
    /\ Rest

\* Mutant: the last error goes with the first project that has none.
ClearAlways(p) == errors' = errors \ {p} /\ lastError' = FALSE
ClearProjectError(p) ==
    /\ errors' = errors \ {p}
    /\ lastError' = (errors' # {} /\ lastError)

PassEnds(p) ==
    /\ WorkerRuns(p, {"idle", "pass"}) /\ WorkerGoes(p, "idle")
    /\ ClearProjectError(p) /\ UNCHANGED active
    /\ Outdate /\ UNCHANGED failures /\ Rest

\* An earlier task holds the queue: the pass ends, and the errors stay.
QueueHeld(p) ==
    /\ WorkerRuns(p, {"pass"}) /\ WorkerGoes(p, "idle")
    /\ UNCHANGED <<shared, pending, branch, failures>> /\ Rest

\* Mutant: the error of a cancelled context is recorded, and raised, too.
RecordAlways(p) ==
    /\ WorkerRuns(p, {"record"})
    /\ WorkerGoes(p, "raise") /\ errors' = errors \cup {p}
    /\ UNCHANGED <<active, lastError>>
    /\ Outdate /\ UNCHANGED failures /\ Rest
\* setProjectError, unless the error comes of the cancelled context.
Record(p) ==
    /\ WorkerRuns(p, {"record"})
    /\ IF Cancelled
       THEN WorkerGoes(p, "idle") /\ UNCHANGED errors
       ELSE WorkerGoes(p, "raise") /\ errors' = errors \cup {p}
    /\ UNCHANGED <<active, lastError>>
    /\ Outdate /\ UNCHANGED failures /\ Rest

\* setError, and the alarm.
Raise(p) ==
    /\ WorkerRuns(p, {"raise"}) /\ WorkerGoes(p, "alarm")
    /\ lastError' = TRUE /\ UNCHANGED <<active, errors>>
    /\ Compute(p, "degraded")
    /\ UNCHANGED failures /\ Rest

-----------------------------------------------------------------------------
(* Time, signals, and the end of the process.                              *)

AgedSnapshot(s) == IF s = None THEN None ELSE [s EXCEPT !.age = Older(@)]

\* No time passes while the heartbeat has something to do at once, or while a
\* publication would take longer than MaxDelay.
Tick ==
    /\ \A t \in Threads : pending[t] # None => pending[t].age < MaxDelay
    /\ Runs => /\ main \notin {"decided online", "decided degraded"}
               /\ ~(main = "wait" /\ (due \/ Cancelled))
    /\ pending' = [t \in Threads |-> AgedSnapshot(pending[t])]
    /\ branch' = AgedSnapshot(branch)
    /\ IF ~Runs \/ main = "starting" THEN UNCHANGED <<timer, due>>
       ELSE IF timer + 1 = config.heartbeat THEN timer' = 0 /\ due' = TRUE
       ELSE timer' = timer + 1 /\ UNCHANGED due
    /\ UNCHANGED <<file, config, daemon, main, worker, shared, missed, raising, failures>>

Signal ==
    /\ daemon = "up" /\ Fault
    /\ daemon' = "stopping"
    /\ raising' = {p \in Projects : worker[p] \in {"raise", "alarm"}}
    /\ UNCHANGED <<file, config, goroutines, shared, pending, branch, missed>>

ProcessEnds ==
    /\ daemon' = "down" /\ config' = None
    /\ main' = "start" /\ timer' = 0 /\ due' = FALSE
    /\ worker' = [p \in ProjectIDs |-> "idle"]
    /\ active' = {} /\ errors' = {} /\ lastError' = FALSE
    /\ pending' = [t \in Threads |-> None]
    /\ missed' = FALSE /\ raising' = {}
    /\ UNCHANGED <<file, branch>>

\* runDaemon returns when its server has shut down, or with the error of Run.
Exit == (Cancelled \/ main = "returned") /\ ProcessEnds /\ UNCHANGED failures
Kill == Runs /\ Fault /\ ProcessEnds

\* The owner edits the file; a running daemon does not read it.
Edit ==
    /\ daemon = "down" /\ file' \in Files \ {file}
    /\ UNCHANGED <<config, daemon, goroutines, shared, pending, branch, missed, raising, failures>>

WorkerStep(p) == WorkerStops(p) \/ PassFails(p) \/ TakeUp(p)
                 \/ TaskEnds(p) \/ PassEnds(p) \/ QueueHeld(p) \/ Record(p) \/ Raise(p)

Next ==
    \/ Start \/ Decide \/ Beat \/ Leave \/ Join \/ Exit \/ Kill \/ Signal
    \/ Tick \/ Edit
    \/ \E t \in Threads : Push(t) \/ PublicationFails(t)
    \/ \E p \in ProjectIDs : WorkerStep(p)

Spec == Init /\ [][Next]_vars

\* Time passes, the heartbeat goroutine goes on, and a publication that does
\* not fail ends.  Nothing is assumed of the workers.
FairSpec ==
    /\ Spec /\ WF_vars(Tick) /\ WF_vars(Decide) /\ WF_vars(Beat)
    /\ \A t \in Threads : WF_vars(Push(t))

-----------------------------------------------------------------------------
(* Properties.                                                             *)

\* While a daemon is up and none of its publications has failed, the snapshot
\* on the branch has a lease that has not expired, although an older snapshot
\* may replace a newer one, a tick may find the heartbeat busy, and every
\* publication may take up to half an interval (Validate's lease rule).
LeaseHolds ==
    daemon = "up" /\ main \notin {"starting", "returned"} /\ ~missed
        => branch # None /\ branch.age < config.lease

\* The last error is the one of some project: no other project's success
\* clears it, and it does not outlive them (clearProjectError, setError).
ErrorsAgree ==
    Runs /\ (\A p \in Projects : worker[p] # "raise") => lastError = (errors # {})

\* Once the gateway has said that it is offline, its process replaces that only by
\* an alarm whose error was recorded before the signal came, and by each of those
\* once: no error that stopping itself causes is published after the farewell (the
\* check of ctx.Err in Run's workers).
OfflineStays == [][
    /\ Cancelled /\ main = "join" /\ branch # None
    /\ branch.status = "offline" /\ branch'.status # "offline"
    => /\ branch'.status = "degraded"
       /\ \E p \in raising : worker[p] = "alarm" /\ p \notin raising']_vars

\* Snapshots that overtake each other leave the branch wrong for a while only:
\* a state that lasts is told sooner or later, whatever failed before.
Shown == branch # None /\ branch.current
         /\ branch.status = IF lastError THEN "degraded" ELSE "online"
SnapshotCatchesUp ==
    []<><<shared' # shared>>_vars \/ []<>(daemon # "up" \/ main = "returned" \/ Shown)
=============================================================================
