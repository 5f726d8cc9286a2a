------------------------- MODULE ControlBranchProofs -------------------------
(***************************************************************************)
(* Proofs about ControlBranch, for any projects, files, delays and number  *)
(* of failures.  What the threads publish is known thread by thread; the   *)
(* errors are those of workers that have raised them or are about to; and  *)
(* the lease is held because a heartbeat is never more than a delay late.  *)
(***************************************************************************)
EXTENDS ControlBranch, TLAPS

Statuses == {"online", "degraded", "offline"}
Publishing == {"announce", "report", "complain", "alarm"}
Loaded == {Load(f) : f \in {g \in Files : Loads(g)}}

\* A daemon that runs has loaded a valid file; no worker runs without one.
Life ==
    /\ daemon = "down" <=> main = "start"
    /\ IF daemon = "down" THEN config = None /\ \A p \in ProjectIDs : worker[p] = "idle"
       ELSE config \in Loaded /\ timer < config.heartbeat

\* Who has something to publish, and what an alarm says.
ThreadInv ==
    /\ \A p \in ProjectIDs : pending[p] # None <=> worker[p] \in Publishing
    /\ pending[Heartbeat] # None <=> main \in {"starting", "beat", "leaving"}
    /\ \A p \in ProjectIDs : worker[p] = "alarm" => pending[p].status = "degraded"
    /\ Runs => \A p \in ProjectIDs \ Projects : worker[p] = "stopped"

\* A project with an error that is not the last one has a worker that will make
\* it the last.
ErrorInv ==
    /\ lastError => errors # {}
    /\ \A p \in ProjectIDs : worker[p] = "raise" => p \in errors
    /\ errors # {} /\ ~lastError => \E p \in ProjectIDs : worker[p] = "raise"

\* No publication waits longer than the delay; the heartbeat looks up as soon as
\* its tick is there.
BeatInv ==
    /\ \A t \in Threads : pending[t] # None => pending[t].age <= MaxDelay
    /\ daemon = "up" =>
        /\ main \notin {"leaving", "join"}
        /\ due => main = "returned" \/ (main = "wait" /\ timer = 0)
        /\ main \in {"starting", "decided online", "decided degraded"} => timer = 0
        /\ main = "beat" => pending[Heartbeat].age = timer

\* How old the snapshot on the branch can be, from one heartbeat to the next.
Bound == IF main = "wait" /\ ~due THEN MaxDelay + timer
         ELSE MaxDelay + config.heartbeat + timer
AgeInv ==
    daemon = "up" /\ main \notin {"starting", "returned"} /\ ~missed
        => branch # None /\ branch.age <= Bound

\* After the signal nobody begins to raise an alarm.
RaisingInv ==
    Cancelled => \A p \in ProjectIDs : worker[p] \in {"raise", "alarm"} => p \in raising

Inv == TypeOK /\ Life /\ ThreadInv /\ ErrorInv /\ BeatInv /\ AgeInv /\ RaisingInv

-----------------------------------------------------------------------------
(* Constants and snapshots.                                                *)

\* What Validate has made sure of.
LEMMA LoadedFacts ==
    ASSUME NEW c \in Loaded
    PROVE  /\ c # None /\ c \in {Load(f) : f \in Files}
           /\ c.projects \subseteq ProjectIDs
           /\ c.heartbeat \in Nat /\ c.lease \in Nat
           /\ c.heartbeat >= MinHeartbeat /\ c.heartbeat <= MaxHeartbeat
           /\ c.lease > 2 * c.heartbeat /\ c.lease <= MaxLease
           /\ ValidBranches(c)
  <1>1. PICK f \in Files : Loads(f) /\ c = Load(f)
    BY DEF Loaded
  <1>2. c.projects = f.projects
    BY <1>1, FileAssumption DEF Load, ApplyDefaults
  <1>3. c.heartbeat \in Nat /\ c.lease \in Nat
    BY <1>1, FileAssumption, TimingAssumption DEF Load, ApplyDefaults
  <1>4. Validate(c)
    BY <1>1 DEF Loads, Load
  <1>5. c.heartbeat \in MinHeartbeat..MaxHeartbeat /\ c.lease > 2 * c.heartbeat
        /\ c.lease <= MaxLease /\ ValidBranches(c)
    BY <1>4 DEF Validate, ValidTiming
  <1>6. MinHeartbeat \in Nat /\ MaxHeartbeat \in Nat
    BY TimingAssumption
  <1>7. c.heartbeat >= MinHeartbeat /\ c.heartbeat <= MaxHeartbeat
    BY <1>3, <1>5, <1>6
  <1> QED
    BY <1>1, <1>2, <1>3, <1>5, <1>7, FileAssumption

LEMMA Times ==
    /\ MaxDelay \in Nat /\ MaxFailures \in Nat /\ MinHeartbeat \in Nat
    /\ MaxHeartbeat \in Nat /\ MaxLease \in Nat
    /\ MinHeartbeat > 0 /\ 2 * MaxDelay <= MinHeartbeat /\ TooOld = MaxLease
  BY TimingAssumption, DelayAssumption, FailureAssumption DEF TooOld

LEMMA FaultCounts == failures \in 0..MaxFailures /\ Fault => failures' \in 0..MaxFailures
  BY Times DEF Fault

LEMMA SnapshotType ==
    ASSUME NEW s \in Snapshots
    PROVE  /\ s # None /\ s.status \in Statuses /\ s.age \in Nat /\ s.age <= MaxLease
           /\ s = [status |-> s.status, current |-> s.current, age |-> s.age]
  BY NoneAssumption, Times DEF Snapshots, Statuses

LEMMA FreshSnapshot ==
    ASSUME NEW status \in Statuses
    PROVE  [status |-> status, current |-> TRUE, age |-> 0] \in Snapshots
  BY Times DEF Snapshots, Statuses

\* Two snapshots, or their absence, that differ at most in being current.
Alike(r, s) == /\ r = None <=> s = None
               /\ s # None => r.age = s.age /\ r.status = s.status

LEMMA OutdatedAlike ==
    \A s \in Snapshots \cup {None} :
        Outdated(s) \in Snapshots \cup {None} /\ Alike(Outdated(s), s)
  <1> TAKE s \in Snapshots \cup {None}
  <1>1. CASE Outdated(s) = s
    BY <1>1 DEF Alike
  <1>2. CASE Outdated(s) # s
    <2>1. s \in Snapshots /\ Outdated(s) = [s EXCEPT !.current = FALSE]
      BY <1>2 DEF Outdated
    <2> HIDE DEF Outdated
    <2>2. /\ [s EXCEPT !.current = FALSE] \in Snapshots
          /\ [s EXCEPT !.current = FALSE].age = s.age
          /\ [s EXCEPT !.current = FALSE].status = s.status
      BY <2>1 DEF Snapshots
    <2> QED
      BY <2>1, <2>2, NoneAssumption DEF Alike
  <1> QED
    BY <1>1, <1>2

LEMMA AgedType ==
    \A s \in Snapshots \cup {None} :
        /\ AgedSnapshot(s) \in Snapshots \cup {None}
        /\ AgedSnapshot(s) = None <=> s = None
        /\ s # None => /\ AgedSnapshot(s).status = s.status
                       /\ AgedSnapshot(s).age <= s.age + 1
                       /\ s.age < MaxLease => AgedSnapshot(s).age = s.age + 1
  <1> TAKE s \in Snapshots \cup {None}
  <1>1. CASE s = None
    BY <1>1 DEF AgedSnapshot
  <1>2. CASE s \in Snapshots
    <2>1. s # None /\ s.age \in Nat /\ s.age <= MaxLease
      BY <1>2, SnapshotType
    <2>2. Older(s.age) \in 0..TooOld /\ Older(s.age) <= s.age + 1
          /\ (s.age < MaxLease => Older(s.age) = s.age + 1)
      BY <2>1, Times DEF Older
    <2>3. AgedSnapshot(s) = [s EXCEPT !.age = Older(s.age)]
      BY <2>1 DEF AgedSnapshot
    <2>4. AgedSnapshot(s) \in Snapshots /\ AgedSnapshot(s).age = Older(s.age)
          /\ AgedSnapshot(s).status = s.status
      BY <1>2, <2>2, <2>3 DEF Snapshots
    <2> QED
      BY <2>1, <2>2, <2>4, NoneAssumption
  <1> QED
    BY <1>1, <1>2

\* What making a snapshot does to what the threads publish, and to the branch.
LEMMA ComputeEffect ==
    ASSUME VariablesTyped, NEW t \in Threads, NEW status \in Statuses, Compute(t, status)
    PROVE  /\ pending' \in [Threads -> Snapshots \cup {None}]
           /\ pending'[t] # None /\ pending'[t].age = 0 /\ pending'[t].status = status
           /\ \A u \in Threads \ {t} : Alike(pending'[u], pending[u])
           /\ branch' \in Snapshots \cup {None} /\ Alike(branch', branch)
  <1> DEFINE fresh == [status |-> status, current |-> TRUE, age |-> 0]
  <1>1. pending' = [OutdatedPending EXCEPT ![t] = fresh]
    BY DEF Compute
  <1>2. fresh \in Snapshots /\ fresh.age = 0 /\ fresh.status = status
    BY FreshSnapshot
  <1>3. fresh # None
    BY <1>2, NoneAssumption
  <1> HIDE DEF fresh
  <1>4. \A u \in Threads : /\ Outdated(pending[u]) \in Snapshots \cup {None}
                           /\ Alike(Outdated(pending[u]), pending[u])
    BY OutdatedAlike DEF VariablesTyped
  <1>5. /\ OutdatedPending = [u \in Threads |-> OutdatedPending[u]]
        /\ \A u \in Threads : OutdatedPending[u] = Outdated(pending[u])
    BY DEF OutdatedPending
  <1>6. pending'[t] = fresh /\ \A u \in Threads \ {t} : pending'[u] = Outdated(pending[u])
    BY <1>1, <1>5
  <1>7. pending' \in [Threads -> Snapshots \cup {None}]
    BY <1>1, <1>2, <1>4, <1>5
  <1>8. branch' \in Snapshots \cup {None} /\ Alike(branch', branch)
    BY OutdatedAlike DEF Compute, VariablesTyped
  <1> QED
    BY <1>2, <1>3, <1>4, <1>6, <1>7, <1>8

LEMMA OutdateEffect ==
    ASSUME VariablesTyped, Outdate \/ UNCHANGED <<pending, branch>>
    PROVE  /\ pending' \in [Threads -> Snapshots \cup {None}]
           /\ \A u \in Threads : Alike(pending'[u], pending[u])
           /\ branch' \in Snapshots \cup {None} /\ Alike(branch', branch)
  <1>1. CASE Outdate
    <2>1. \A u \in Threads : /\ Outdated(pending[u]) \in Snapshots \cup {None}
                             /\ Alike(Outdated(pending[u]), pending[u])
      BY OutdatedAlike DEF VariablesTyped
    <2>2. /\ pending' = [u \in Threads |-> pending'[u]]
          /\ \A u \in Threads : pending'[u] = Outdated(pending[u])
      BY <1>1 DEF Outdate, OutdatedPending
    <2>3. branch' \in Snapshots \cup {None} /\ Alike(branch', branch)
      BY <1>1, OutdatedAlike DEF Outdate, VariablesTyped
    <2> QED
      BY <2>1, <2>2, <2>3
  <1>2. CASE UNCHANGED <<pending, branch>>
    BY <1>2 DEF VariablesTyped, Alike
  <1> QED
    BY <1>1, <1>2

-----------------------------------------------------------------------------
(* A worker's step: it was not publishing before; if it is afterwards, then *)
(* what it has just made.                                                  *)

WorkerEffect(p) ==
    /\ Runs /\ p \in Projects /\ main \notin {"start", "starting", "returned"}
    /\ UNCHANGED <<file, config, daemon, main, timer, due, missed, raising>>
    /\ failures' \in 0..MaxFailures
    /\ worker[p] \notin Publishing
    /\ \E s \in WorkerSteps : worker' = [worker EXCEPT ![p] = s]
    /\ active' \subseteq ProjectIDs
    /\ pending' \in [Threads -> Snapshots \cup {None}]
    /\ branch' \in Snapshots \cup {None} /\ Alike(branch', branch)
    /\ \A u \in Threads \ {p} : Alike(pending'[u], pending[u])
    /\ IF worker'[p] \in Publishing
       THEN pending'[p] # None /\ pending'[p].age = 0
            /\ (worker'[p] = "alarm" => pending'[p].status = "degraded")
       ELSE Alike(pending'[p], pending[p])

\* Steps that make no snapshot.
LEMMA QuietEffect ==
    ASSUME VariablesTyped, NEW p \in ProjectIDs, NEW s \in WorkerSteps, s \notin Publishing,
           WorkerRuns(p, {"idle", "pass", "run", "record"}), WorkerGoes(p, s), Rest,
           Outdate \/ UNCHANGED <<pending, branch>>,
           active' \subseteq ProjectIDs, failures' \in 0..MaxFailures
    PROVE  WorkerEffect(p)
  <1>1. worker' = [worker EXCEPT ![p] = s] /\ worker'[p] = s
    BY DEF WorkerGoes, VariablesTyped
  <1>2. p \in Threads
    BY DEF Threads
  <1> QED
    BY <1>1, <1>2, OutdateEffect DEF WorkerEffect, WorkerRuns, Rest, Publishing

\* Steps that make one.
LEMMA LoudEffect ==
    ASSUME VariablesTyped, NEW p \in ProjectIDs, NEW s \in Publishing, NEW status \in Statuses,
           s = "alarm" => status = "degraded",
           WorkerRuns(p, {"idle", "pass", "run", "raise"}), WorkerGoes(p, s), Rest,
           Compute(p, status), active' \subseteq ProjectIDs, failures' \in 0..MaxFailures
    PROVE  WorkerEffect(p)
  <1>1. worker' = [worker EXCEPT ![p] = s] /\ worker'[p] = s /\ s \in WorkerSteps
    BY DEF WorkerGoes, VariablesTyped, WorkerSteps, Publishing
  <1>2. p \in Threads
    BY DEF Threads
  <1> QED
    BY <1>1, <1>2, ComputeEffect DEF WorkerEffect, WorkerRuns, Rest, Publishing

LEMMA WorkerStepEffect ==
    ASSUME VariablesTyped, NEW p \in ProjectIDs, WorkerStep(p)
    PROVE  WorkerEffect(p)
  <1>a. failures \in 0..MaxFailures /\ active \subseteq ProjectIDs
    BY DEF VariablesTyped
  <1>b. {"online", "degraded"} \subseteq Statuses
    BY DEF Statuses
  <1>c. /\ {"idle", "pass", "run", "record", "raise", "stopped"} \subseteq WorkerSteps
        /\ {"idle", "pass", "run", "record", "raise", "stopped"} \cap Publishing = {}
        /\ {"announce", "report", "complain", "alarm"} \subseteq Publishing
    BY DEF WorkerSteps, Publishing
  <1>1. CASE WorkerStops(p)
    <2>1. WorkerRuns(p, {"idle", "pass", "run", "record"})
      BY <1>1 DEF WorkerStops, WorkerRuns
    <2> QED
      BY <1>1, <1>a, <1>c, <2>1, QuietEffect DEF WorkerStops, shared
  <1>2. CASE PassFails(p)
    <2>1. WorkerRuns(p, {"idle", "pass", "run", "record"})
      BY <1>2 DEF PassFails, WorkerRuns
    <2> QED
      BY <1>2, <1>a, <1>c, <2>1, QuietEffect, FaultCounts DEF PassFails
  <1>3. CASE TakeUp(p)
    <2>1. WorkerRuns(p, {"idle", "pass", "run", "raise"})
      BY <1>3 DEF TakeUp, WorkerRuns
    <2> QED
      BY <1>3, <1>a, <1>b, <1>c, <2>1, LoudEffect DEF TakeUp
  <1>4. CASE TaskEnds(p)
    <2>1. WorkerRuns(p, {"idle", "pass", "run", "raise"}) /\ active' \subseteq ProjectIDs
      BY <1>4, <1>a DEF TaskEnds, WorkerRuns
    <2>2. CASE WorkerGoes(p, "report") /\ Compute(p, "online") /\ UNCHANGED failures
      BY <1>4, <1>a, <1>b, <1>c, <2>1, <2>2, LoudEffect DEF TaskEnds
    <2>3. CASE WorkerGoes(p, "complain") /\ Compute(p, "degraded") /\ Fault
      BY <1>4, <1>a, <1>b, <1>c, <2>1, <2>3, LoudEffect, FaultCounts DEF TaskEnds
    <2> QED
      BY <1>4, <2>2, <2>3 DEF TaskEnds
  <1>5. CASE PassEnds(p)
    <2>1. WorkerRuns(p, {"idle", "pass", "run", "record"})
      BY <1>5 DEF PassEnds, WorkerRuns
    <2> QED
      BY <1>5, <1>a, <1>c, <2>1, QuietEffect DEF PassEnds
  <1>6. CASE Record(p)
    <2>1. WorkerRuns(p, {"idle", "pass", "run", "record"})
      BY <1>6 DEF Record, WorkerRuns
    <2>2. WorkerGoes(p, "idle") \/ WorkerGoes(p, "raise")
      BY <1>6 DEF Record
    <2> QED
      BY <1>6, <1>a, <1>c, <2>1, <2>2, QuietEffect DEF Record
  <1>8. CASE QueueHeld(p)
    <2>1. WorkerRuns(p, {"idle", "pass", "run", "record"})
      BY <1>8 DEF QueueHeld, WorkerRuns
    <2> QED
      BY <1>8, <1>a, <1>c, <2>1, QuietEffect DEF QueueHeld, shared
  <1>7. CASE Raise(p)
    <2>1. WorkerRuns(p, {"idle", "pass", "run", "raise"})
      BY <1>7 DEF Raise, WorkerRuns
    <2> QED
      BY <1>7, <1>a, <1>b, <1>c, <2>1, LoudEffect DEF Raise
  <1> QED
    BY <1>1, <1>2, <1>3, <1>4, <1>5, <1>6, <1>7, <1>8 DEF WorkerStep

-----------------------------------------------------------------------------
(* The end of a publication, whatever its outcome.                         *)

PublicationEffect(t) ==
    /\ Runs /\ pending[t] # None
    /\ UNCHANGED <<file, config, daemon, timer, due, shared>>
    /\ failures' \in 0..MaxFailures /\ missed' \in BOOLEAN
    /\ raising' = raising \ {t}
    /\ branch' \in {branch, pending[t]}
    /\ pending' = [pending EXCEPT ![t] = None]
    /\ IF t = Heartbeat
       THEN /\ UNCHANGED worker
            /\ \/ main = "starting" /\ main' \in {"wait", "returned"}
               \/ main = "beat" /\ main' = "wait"
               \/ main = "leaving" /\ main' = "join"
       ELSE /\ UNCHANGED main
            /\ \E s \in WorkerSteps \ (Publishing \cup {"raise"}) :
                   worker' = [worker EXCEPT ![t] = s]

LEMMA ReturnsEffect ==
    ASSUME VariablesTyped, ThreadInv, NEW t \in Threads, pending[t] # None, Returns(t)
    PROVE  IF t = Heartbeat
           THEN /\ UNCHANGED worker
                /\ \/ main \in {"starting", "beat"} /\ main' = "wait"
                   \/ main = "leaving" /\ main' = "join"
           ELSE /\ UNCHANGED main
                /\ \E s \in WorkerSteps \ (Publishing \cup {"raise"}) :
                       worker' = [worker EXCEPT ![t] = s]
  <1>1. CASE t = Heartbeat
    BY <1>1 DEF Returns, MainGoes, ThreadInv
  <1>2. CASE t # Heartbeat
    <2>1. t \in ProjectIDs /\ worker[t] \in Publishing
      BY <1>2 DEF Threads, ThreadInv
    <2>2. \E s \in {"run", "pass", "record", "idle"} : worker' = [worker EXCEPT ![t] = s]
      <3>1. CASE worker[t] = "announce"
        BY <1>2, <3>1 DEF Returns
      <3>2. CASE worker[t] = "report"
        BY <1>2, <3>2 DEF Returns
      <3>3. CASE worker[t] = "complain"
        BY <1>2, <3>3 DEF Returns
      <3>4. CASE worker[t] = "alarm"
        BY <1>2, <3>4 DEF Returns
      <3> QED
        BY <2>1, <3>1, <3>2, <3>3, <3>4 DEF Publishing
    <2> QED
      BY <1>2, <2>2 DEF Returns, WorkerSteps, Publishing
  <1> QED
    BY <1>1, <1>2

LEMMA PublicationStepEffect ==
    ASSUME VariablesTyped, ThreadInv, NEW t \in Threads, Push(t) \/ PublicationFails(t)
    PROVE  PublicationEffect(t)
  <1>1. CASE Push(t)
    BY <1>1, ReturnsEffect DEF Push, PublicationEffect, VariablesTyped
  <1>2. CASE PublicationFails(t)
    <2>1. failures' \in 0..MaxFailures
      BY <1>2, FaultCounts DEF PublicationFails, VariablesTyped
    <2>2. CASE t = Heartbeat /\ main = "starting"
      BY <1>2, <2>1, <2>2 DEF PublicationFails, PublicationEffect, MainGoes
    <2>3. CASE ~(t = Heartbeat /\ main = "starting")
      BY <1>2, <2>1, <2>3, ReturnsEffect DEF PublicationFails, PublicationEffect
    <2> QED
      BY <2>2, <2>3
  <1> QED
    BY <1>1, <1>2

-----------------------------------------------------------------------------
(* Types, the daemon's life, and who publishes.                            *)

Coherent == VariablesTyped /\ Life /\ ThreadInv

LEMMA CoherentInit == Init => Coherent
  <1> SUFFICES ASSUME Init PROVE Coherent
    OBVIOUS
  <1>1. VariablesTyped
    <2>1. timer \in 0..MaxHeartbeat /\ failures \in 0..MaxFailures
      BY Times DEF Init
    <2>2. worker \in [ProjectIDs -> WorkerSteps] /\ main \in MainSteps
      BY DEF Init, WorkerSteps, MainSteps
    <2>3. pending \in [Threads -> Snapshots \cup {None}]
      BY DEF Init
    <2> QED
      BY <2>1, <2>2, <2>3 DEF Init, VariablesTyped
  <1>2. Life
    BY DEF Init, Life
  <1>3. ThreadInv
    BY DEF Init, ThreadInv, Publishing, Threads, Runs
  <1> QED
    BY <1>1, <1>2, <1>3 DEF Coherent

LEMMA CoherentStart == ASSUME Coherent, Start PROVE Coherent'
  <1> USE DEF Start, Coherent
  <1>0. Heartbeat \in Threads /\ "online" \in Statuses
    BY DEF Threads, Statuses
  <1>1. config' \in Loaded /\ file \in Files
    BY DEF Loaded, VariablesTyped
  <1>2. VariablesTyped'
    <2>1. worker' \in [ProjectIDs -> WorkerSteps]
      BY DEF WorkerSteps
    <2>2. pending' \in [Threads -> Snapshots \cup {None}] /\ branch' \in Snapshots \cup {None}
      BY <1>0, ComputeEffect
    <2>3. 0 \in 0..MaxHeartbeat
      BY Times
    <2>4. config' \in {Load(f) : f \in Files}
      BY <1>1
    <2> QED
      BY <2>1, <2>2, <2>3, <2>4 DEF VariablesTyped, MainSteps
  <1>3. Life'
    <2>1. config'.heartbeat \in Nat /\ config'.heartbeat > 0
      BY <1>1, LoadedFacts, Times
    <2> QED
      BY <1>1, <2>1 DEF Life
  <1>4. ThreadInv'
    <2>1. \A p \in ProjectIDs : pending[p] = None
      BY DEF Life, ThreadInv, Publishing
    <2>2. \A p \in ProjectIDs : pending'[p] = None
      BY <1>0, <2>1, ComputeEffect, HeartbeatAssumption DEF Threads, Alike
    <2>3. pending'[Heartbeat] # None
      BY <1>0, ComputeEffect
    <2> QED
      BY <2>2, <2>3 DEF ThreadInv, Publishing, Runs, Projects
  <1> QED
    BY <1>2, <1>3, <1>4

\* The heartbeat goroutine.
LEMMA CoherentMain ==
    ASSUME Coherent, Decide \/ Beat \/ Leave \/ Join
    PROVE  Coherent'
  <1> USE DEF Coherent
  <1>0. Heartbeat \in Threads /\ Statuses = {"online", "degraded", "offline"}
    BY DEF Threads, Statuses
  <1>1. /\ Runs /\ main' \in MainSteps /\ main # "start" /\ main' # "start" /\ due' \in BOOLEAN
        /\ UNCHANGED <<file, config, daemon, timer, worker, shared, missed, raising, failures>>
    BY DEF Decide, Beat, Leave, Join, MainGoes, MainSteps, Runs, Cancelled, VariablesTyped
  <1>2. /\ pending' \in [Threads -> Snapshots \cup {None}] /\ branch' \in Snapshots \cup {None}
        /\ \A p \in ProjectIDs : Alike(pending'[p], pending[p])
        /\ pending'[Heartbeat] # None <=> main' \in {"starting", "beat", "leaving"}
    <2>1. CASE Decide \/ Join
      BY <2>1 DEF Decide, Join, MainGoes, ThreadInv, VariablesTyped, Alike
    <2>2. CASE Beat
      <3>1. PICK status \in Statuses : Compute(Heartbeat, status)
        BY <1>0, <2>2 DEF Beat
      <3> QED
        BY <1>0, <2>2, <3>1, ComputeEffect, HeartbeatAssumption DEF Threads, Beat, MainGoes
    <2>3. CASE Leave
      BY <1>0, <2>3, ComputeEffect, HeartbeatAssumption DEF Threads, Leave, MainGoes
    <2> QED
      BY <2>1, <2>2, <2>3
  <1>3. VariablesTyped'
    BY <1>1, <1>2 DEF VariablesTyped, shared
  <1>4. Life'
    BY <1>1 DEF Life, Runs
  <1>5. ThreadInv'
    BY <1>1, <1>2, SnapshotType DEF ThreadInv, Alike, Runs, Projects, Publishing
  <1> QED
    BY <1>3, <1>4, <1>5

LEMMA CoherentWorker ==
    ASSUME Coherent, NEW p \in ProjectIDs, WorkerEffect(p),
           errors' \subseteq ProjectIDs, lastError' \in BOOLEAN
    PROVE  Coherent'
  <1> USE DEF Coherent, WorkerEffect
  <1>1. PICK s \in WorkerSteps : worker' = [worker EXCEPT ![p] = s]
    OBVIOUS
  <1>2. /\ worker' \in [ProjectIDs -> WorkerSteps] /\ worker'[p] = s
        /\ \A q \in ProjectIDs \ {p} : worker'[q] = worker[q]
    BY <1>1 DEF VariablesTyped
  <1>3. \A q \in ProjectIDs : q \in Threads /\ q # Heartbeat
    BY HeartbeatAssumption DEF Threads
  <1>4. Heartbeat \in Threads \ {p}
    BY <1>3 DEF Threads
  <1>5. VariablesTyped'
    BY <1>2 DEF VariablesTyped
  <1>6. Life'
    BY DEF Life
  <1>7. ThreadInv'
    <2>1. \A q \in ProjectIDs \ {p} : /\ pending'[q] # None <=> worker'[q] \in Publishing
                                      /\ worker'[q] = "alarm" => pending'[q].status = "degraded"
      BY <1>2, <1>3 DEF ThreadInv, Alike, Publishing
    <2>2. /\ pending'[p] # None <=> worker'[p] \in Publishing
          /\ worker'[p] = "alarm" => pending'[p].status = "degraded"
      BY DEF ThreadInv, Alike, Publishing
    <2>3. pending'[Heartbeat] # None <=> main' \in {"starting", "beat", "leaving"}
      BY <1>4 DEF ThreadInv, Alike
    <2>4. \A q \in ProjectIDs \ Projects' : worker'[q] = "stopped"
      BY <1>2 DEF ThreadInv, Projects
    <2> QED
      BY <2>1, <2>2, <2>3, <2>4 DEF ThreadInv
  <1> QED
    BY <1>5, <1>6, <1>7

LEMMA CoherentPublication ==
    ASSUME Coherent, NEW t \in Threads, PublicationEffect(t)
    PROVE  Coherent'
  <1> USE DEF Coherent, PublicationEffect
  <1>1. /\ pending' \in [Threads -> Snapshots \cup {None}] /\ branch' \in Snapshots \cup {None}
        /\ pending'[t] = None /\ \A u \in Threads \ {t} : pending'[u] = pending[u]
    BY DEF VariablesTyped
  <1>2. CASE t = Heartbeat
    <2>1. VariablesTyped'
      BY <1>1, <1>2 DEF VariablesTyped, MainSteps, shared
    <2>2. Life'
      BY <1>2 DEF Life, Runs
    <2>3. \A p \in ProjectIDs : pending'[p] = pending[p]
      BY <1>1, <1>2, HeartbeatAssumption DEF Threads
    <2>4. ThreadInv'
      BY <1>1, <1>2, <2>3 DEF ThreadInv, Runs, Projects
    <2> QED
      BY <2>1, <2>2, <2>4
  <1>3. CASE t # Heartbeat
    <2>0. t \in ProjectIDs /\ Heartbeat \in Threads
      BY <1>3 DEF Threads
    <2>1. PICK s \in WorkerSteps \ (Publishing \cup {"raise"}) : worker' = [worker EXCEPT ![t] = s]
      BY <1>3
    <2>2. /\ worker' \in [ProjectIDs -> WorkerSteps] /\ worker'[t] \notin Publishing
          /\ \A q \in ProjectIDs \ {t} : worker'[q] = worker[q]
      BY <2>0, <2>1 DEF VariablesTyped
    <2>3. VariablesTyped'
      BY <1>1, <1>3, <2>2 DEF VariablesTyped, shared
    <2>4. Life'
      BY <1>3 DEF Life, Runs
    <2>5. worker[t] # "stopped"
      BY <2>0 DEF ThreadInv, Publishing
    <2>6. ThreadInv'
      BY <1>1, <1>3, <2>0, <2>2, <2>5 DEF ThreadInv, Runs, Projects, Threads, Publishing
    <2> QED
      BY <2>3, <2>4, <2>6
  <1> QED
    BY <1>2, <1>3

LEMMA CoherentTick == ASSUME Coherent, Tick PROVE Coherent'
  <1> USE DEF Coherent, Tick
  <1>1. /\ pending' \in [Threads -> Snapshots \cup {None}] /\ branch' \in Snapshots \cup {None}
        /\ \A u \in Threads : /\ pending'[u] = None <=> pending[u] = None
                              /\ pending[u] # None => pending'[u].status = pending[u].status
    BY AgedType DEF VariablesTyped
  <1>2. /\ timer' \in 0..MaxHeartbeat /\ due' \in BOOLEAN
        /\ Runs => timer' < config.heartbeat
    <2>0. IF ~Runs \/ main = "starting" THEN UNCHANGED <<timer, due>>
          ELSE IF timer + 1 = config.heartbeat THEN timer' = 0 /\ due' = TRUE
          ELSE timer' = timer + 1 /\ UNCHANGED due
      OBVIOUS
    <2> HIDE DEF Tick
    <2>1. CASE ~Runs \/ main = "starting"
      <3>1. timer' = timer /\ due' = due /\ UNCHANGED config
        BY <2>0, <2>1 DEF Tick
      <3>2. timer \in 0..MaxHeartbeat /\ due \in BOOLEAN
        BY DEF VariablesTyped
      <3>3. Runs => timer < config.heartbeat
        BY DEF Life, Runs
      <3> QED
        BY <3>1, <3>2, <3>3
    <2>2. CASE Runs /\ main # "starting"
      <3>1. /\ config.heartbeat \in Nat /\ config.heartbeat <= MaxHeartbeat
            /\ config.heartbeat > 0 /\ timer < config.heartbeat
        BY <2>2, LoadedFacts, Times DEF Life, Runs
      <3>2. timer \in Nat /\ MaxHeartbeat \in Nat
        BY Times DEF VariablesTyped
      <3>3. CASE timer + 1 = config.heartbeat
        <4>1. timer' = 0 /\ due' = TRUE
          BY <2>0, <2>2, <3>3
        <4> QED
          BY <3>1, <3>2, <4>1
      <3>4. CASE timer + 1 # config.heartbeat
        <4>1. timer' = timer + 1 /\ due' = due /\ due \in BOOLEAN
          BY <2>0, <2>2, <3>4 DEF VariablesTyped
        <4> QED
          BY <3>1, <3>2, <3>4, <4>1
      <3> QED
        BY <3>3, <3>4
    <2> QED
      BY <2>1, <2>2
  <1>3. UNCHANGED <<file, config, daemon, main, worker, shared, missed, raising, failures>>
    OBVIOUS
  <1> HIDE DEF Tick
  <1>4. VariablesTyped'
    BY <1>1, <1>2, <1>3 DEF VariablesTyped, shared
  <1>5. Life'
    BY <1>2, <1>3 DEF Life, Runs
  <1>6. ThreadInv'
    <2>1. \A p \in ProjectIDs : p \in Threads /\ Heartbeat \in Threads
      BY DEF Threads
    <2> QED
      BY <1>1, <1>3, <2>1 DEF ThreadInv, Runs, Projects, Publishing, Threads
  <1> QED
    BY <1>4, <1>5, <1>6

\* The process ends; a signal comes; or the owner edits the file.
LEMMA CoherentEnd ==
    ASSUME Coherent, Exit \/ Kill \/ Signal \/ Edit \/ UNCHANGED vars
    PROVE  Coherent'
  <1> USE DEF Coherent
  <1>1. failures' \in 0..MaxFailures /\ file' \in Files
    BY FaultCounts DEF Exit, Kill, Signal, Edit, ProcessEnds, vars, VariablesTyped
  <1>4. raising' \subseteq ProjectIDs
    <2>1. Signal => Projects \subseteq ProjectIDs
      BY LoadedFacts DEF Signal, Life, Projects
    <2> QED
      BY <2>1 DEF Exit, Kill, Signal, Edit, ProcessEnds, vars, VariablesTyped
  <1>2. CASE Exit \/ Kill
    <2>0. ProcessEnds
      BY <1>2 DEF Exit, Kill
    <2>1. VariablesTyped'
      <3>1. 0 \in 0..MaxHeartbeat
        BY Times
      <3> QED
        BY <1>1, <1>4, <2>0, <3>1 DEF ProcessEnds, VariablesTyped, MainSteps, WorkerSteps
    <2>2. Life'
      BY <2>0 DEF ProcessEnds, Life
    <2>3. ThreadInv'
      BY <2>0 DEF ProcessEnds, ThreadInv, Runs, Publishing, Threads
    <2> QED
      BY <2>1, <2>2, <2>3
  <1>3. CASE Signal \/ Edit \/ UNCHANGED vars
    <2>1. /\ UNCHANGED <<config, goroutines, shared, pending, branch, missed>>
          /\ daemon' = daemon \/ (daemon = "up" /\ daemon' = "stopping")
      BY <1>3 DEF Signal, Edit, vars
    <2>2. VariablesTyped'
      BY <1>1, <1>4, <2>1 DEF VariablesTyped, goroutines, shared
    <2>3. Life'
      BY <2>1 DEF Life, goroutines
    <2>4. ThreadInv'
      BY <2>1 DEF ThreadInv, goroutines, Runs, Projects
    <2> QED
      BY <2>2, <2>3, <2>4
  <1> QED
    BY <1>2, <1>3

\* The errors a worker's step leaves.
LEMMA WorkerErrors ==
    ASSUME VariablesTyped, NEW p \in ProjectIDs, WorkerStep(p)
    PROVE  errors' \subseteq ProjectIDs /\ lastError' \in BOOLEAN
  BY DEF VariablesTyped, WorkerStep, WorkerStops, PassFails, TakeUp, TaskEnds, PassEnds, QueueHeld,
         Record, Raise, ClearProjectError, shared

LEMMA CoherentStep == Coherent /\ [Next]_vars => Coherent'
  <1> SUFFICES ASSUME Coherent, [Next]_vars PROVE Coherent'
    OBVIOUS
  <1>1. ASSUME NEW t \in Threads, Push(t) \/ PublicationFails(t) PROVE Coherent'
    BY <1>1, PublicationStepEffect, CoherentPublication DEF Coherent
  <1>2. ASSUME NEW p \in ProjectIDs, WorkerStep(p) PROVE Coherent'
    BY <1>2, WorkerStepEffect, WorkerErrors, CoherentWorker DEF Coherent
  <1> QED
    BY <1>1, <1>2, CoherentStart, CoherentMain, CoherentTick, CoherentEnd DEF Next

-----------------------------------------------------------------------------
(* Errors.                                                                 *)

LEMMA ErrorWorker ==
    ASSUME Coherent, ErrorInv, NEW p \in ProjectIDs, WorkerStep(p)
    PROVE  ErrorInv'
  <1> USE DEF ErrorInv
  <1>0. worker \in [ProjectIDs -> WorkerSteps]
    BY DEF Coherent, VariablesTyped
  <1>1. CASE WorkerStops(p) \/ PassFails(p) \/ TakeUp(p) \/ TaskEnds(p) \/ QueueHeld(p)
    <2>1. PICK s \in {"stopped", "record", "announce", "report", "complain", "idle"} :
            worker' = [worker EXCEPT ![p] = s]
      BY <1>1 DEF WorkerStops, PassFails, TakeUp, TaskEnds, QueueHeld, WorkerGoes
    <2>2. UNCHANGED <<errors, lastError>> /\ worker[p] # "raise"
      BY <1>1 DEF WorkerStops, PassFails, TakeUp, TaskEnds, QueueHeld, WorkerRuns, shared
    <2>3. \A q \in ProjectIDs : worker'[q] = "raise" <=> worker[q] = "raise"
      BY <1>0, <2>1, <2>2
    <2> QED
      BY <2>2, <2>3
  <1>2. CASE PassEnds(p)
    <2>1. /\ worker' = [worker EXCEPT ![p] = "idle"] /\ worker[p] # "raise"
          /\ errors' = errors \ {p} /\ lastError' = (errors' # {} /\ lastError)
      BY <1>2 DEF PassEnds, WorkerRuns, WorkerGoes, ClearProjectError
    <2>2. \A q \in ProjectIDs : worker'[q] = "raise" <=> worker[q] = "raise"
      BY <1>0, <2>1
    <2> QED
      BY <2>1, <2>2
  <1>3. CASE Record(p)
    <2>1. UNCHANGED lastError /\ worker[p] # "raise"
      BY <1>3 DEF Record, WorkerRuns
    <2>2. CASE WorkerGoes(p, "idle") /\ UNCHANGED errors
      <3>1. \A q \in ProjectIDs : worker'[q] = "raise" <=> worker[q] = "raise"
        BY <1>0, <2>1, <2>2 DEF WorkerGoes
      <3> QED
        BY <2>1, <2>2, <3>1
    <2>3. CASE WorkerGoes(p, "raise") /\ errors' = errors \cup {p}
      <3>1. /\ worker'[p] = "raise"
            /\ \A q \in ProjectIDs \ {p} : worker'[q] = worker[q]
        BY <1>0, <2>3 DEF WorkerGoes
      <3> QED
        BY <2>1, <2>3, <3>1
    <2> QED
      BY <1>3, <2>2, <2>3 DEF Record
  <1>4. CASE Raise(p)
    <2>1. /\ worker' = [worker EXCEPT ![p] = "alarm"] /\ worker[p] = "raise"
          /\ lastError' = TRUE /\ UNCHANGED errors
      BY <1>4 DEF Raise, WorkerRuns, WorkerGoes
    <2>2. \A q \in ProjectIDs : worker'[q] = "raise" => worker[q] = "raise"
      BY <1>0, <2>1
    <2> QED
      BY <2>1, <2>2
  <1> QED
    BY <1>1, <1>2, <1>3, <1>4 DEF WorkerStep

LEMMA ErrorStep == Coherent /\ ErrorInv /\ [Next]_vars => ErrorInv'
  <1> SUFFICES ASSUME Coherent, ErrorInv, [Next]_vars PROVE ErrorInv'
    OBVIOUS
  <1>1. CASE Start
    <2>1. \A p \in ProjectIDs : worker'[p] # "raise"
      BY <1>1 DEF Start
    <2> QED
      BY <1>1, <2>1 DEF Start, ErrorInv
  <1>2. CASE Exit \/ Kill
    <2>1. \A p \in ProjectIDs : worker'[p] # "raise"
      BY <1>2 DEF Exit, Kill, ProcessEnds
    <2> QED
      BY <1>2, <2>1 DEF Exit, Kill, ProcessEnds, ErrorInv
  <1>3. CASE Decide \/ Beat \/ Leave \/ Join \/ Signal \/ Tick \/ Edit \/ UNCHANGED vars
    <2>1. UNCHANGED <<worker, errors, lastError>>
      BY <1>3 DEF Decide, Beat, Leave, Join, Signal, Tick, Edit, vars, goroutines, shared
    <2> QED
      BY <2>1 DEF ErrorInv
  <1>4. ASSUME NEW t \in Threads, Push(t) \/ PublicationFails(t) PROVE ErrorInv'
    <2>1. PublicationEffect(t)
      BY <1>4, PublicationStepEffect DEF Coherent
    <2>2. \A p \in ProjectIDs : worker'[p] = "raise" <=> worker[p] = "raise"
      <3>1. CASE t = Heartbeat
        BY <2>1, <3>1 DEF PublicationEffect
      <3>2. CASE t # Heartbeat
        <4>1. t \in ProjectIDs /\ worker[t] \in Publishing
          BY <2>1, <3>2 DEF Threads, Coherent, ThreadInv, PublicationEffect
        <4>2. PICK s \in WorkerSteps \ (Publishing \cup {"raise"}) :
                worker' = [worker EXCEPT ![t] = s]
          BY <2>1, <3>2 DEF PublicationEffect
        <4> QED
          BY <4>1, <4>2 DEF Coherent, VariablesTyped, Publishing
      <3> QED
        BY <3>1, <3>2
    <2> QED
      BY <2>1, <2>2 DEF ErrorInv, PublicationEffect, shared
  <1> QED
    BY <1>1, <1>2, <1>3, <1>4, ErrorWorker DEF Next

-----------------------------------------------------------------------------
(* Active projects, and alarms that outlast the signal.                    *)

LEMMA ActiveStep ==
    Coherent /\ ActiveIsWorkedOn /\ [Next]_vars => ActiveIsWorkedOn'
  <1> SUFFICES ASSUME Coherent, ActiveIsWorkedOn, [Next]_vars PROVE ActiveIsWorkedOn'
    OBVIOUS
  <1>0. worker \in [ProjectIDs -> WorkerSteps]
    BY DEF Coherent, VariablesTyped
  <1> USE DEF ActiveIsWorkedOn
  <1>1. CASE Start \/ Exit \/ Kill
    <2>1. active' = {} /\ \A p \in ProjectIDs : worker'[p] \in {"idle", "stopped"}
      BY <1>1 DEF Start, Exit, Kill, ProcessEnds
    <2> QED
      BY <2>1
  <1>2. CASE Decide \/ Beat \/ Leave \/ Join \/ Signal \/ Tick \/ Edit \/ UNCHANGED vars
    <2>1. UNCHANGED <<worker, active>>
      BY <1>2 DEF Decide, Beat, Leave, Join, Signal, Tick, Edit, vars, goroutines, shared
    <2> QED
      BY <2>1
  <1>3. ASSUME NEW t \in Threads, Push(t) \/ PublicationFails(t) PROVE ActiveIsWorkedOn'
    <2>1. UNCHANGED active
      BY <1>3 DEF Push, PublicationFails, shared
    <2>2. CASE UNCHANGED worker
      BY <2>1, <2>2
    <2>3. CASE Returns(t) /\ t # Heartbeat
      <3>1. t \in ProjectIDs /\ worker[t] \in Publishing
        BY <1>3, <2>3 DEF Push, PublicationFails, Coherent, ThreadInv, Threads
      <3>2. \A p \in ProjectIDs \ {t} : worker'[p] = worker[p]
        BY <1>0, <2>3, <3>1 DEF Returns
      <3>3. worker'[t] \in {"announce", "run"} <=> worker[t] \in {"announce", "run"}
        BY <1>0, <2>3, <3>1 DEF Returns, Publishing
      <3> QED
        BY <2>1, <3>1, <3>2, <3>3
    <2> QED
      BY <1>3, <2>2, <2>3 DEF Push, PublicationFails, Returns
  <1>4. ASSUME NEW p \in ProjectIDs, WorkerStep(p) PROVE ActiveIsWorkedOn'
    <2>1. CASE TakeUp(p)
      <3>1. worker' = [worker EXCEPT ![p] = "announce"] /\ active' = active \cup {p}
        BY <2>1 DEF TakeUp, WorkerGoes
      <3> QED
        BY <1>0, <3>1
    <2>2. CASE PassFails(p) \/ TaskEnds(p)
      <3>1. PICK s \in {"record", "report", "complain"} : worker' = [worker EXCEPT ![p] = s]
        BY <2>2 DEF PassFails, TaskEnds, WorkerGoes
      <3>2. active' = active \ {p}
        BY <2>2 DEF PassFails, TaskEnds
      <3> QED
        BY <1>0, <3>1, <3>2
    <2>3. CASE WorkerStops(p) \/ PassEnds(p) \/ QueueHeld(p) \/ Record(p) \/ Raise(p)
      <3>1. PICK s \in {"stopped", "idle", "raise", "alarm"} : worker' = [worker EXCEPT ![p] = s]
        BY <2>3 DEF WorkerStops, PassEnds, QueueHeld, Record, Raise, WorkerGoes
      <3>2. UNCHANGED active /\ worker[p] \notin {"announce", "run"}
        BY <2>3 DEF WorkerStops, PassEnds, QueueHeld, Record, Raise, WorkerRuns, shared
      <3> QED
        BY <1>0, <3>1, <3>2
    <2> QED
      BY <1>4, <2>1, <2>2, <2>3 DEF WorkerStep
  <1> QED
    BY <1>1, <1>2, <1>3, <1>4 DEF Next

LEMMA RaisingStep == Coherent /\ RaisingInv /\ [Next]_vars => RaisingInv'
  <1> SUFFICES ASSUME Coherent, RaisingInv, [Next]_vars, Cancelled',
                      NEW p \in ProjectIDs, worker'[p] \in {"raise", "alarm"}
               PROVE  p \in raising'
    BY DEF RaisingInv
  <1>0. worker \in [ProjectIDs -> WorkerSteps]
    BY DEF Coherent, VariablesTyped
  <1> USE DEF Cancelled, RaisingInv
  <1>1. CASE Start \/ Exit \/ Kill
    BY <1>1 DEF Start, Exit, Kill, ProcessEnds
  <1>2. CASE Signal
    <2>1. Runs /\ worker'[p] = worker[p] /\ worker[p] # "stopped"
      BY <1>2 DEF Signal, Runs, goroutines
    <2>2. p \in Projects
      BY <2>1 DEF Coherent, ThreadInv
    <2> QED
      BY <1>2, <2>1, <2>2 DEF Signal
  <1>3. CASE Decide \/ Beat \/ Leave \/ Join \/ Tick \/ Edit \/ UNCHANGED vars
    BY <1>3 DEF Decide, Beat, Leave, Join, Tick, Edit, vars, goroutines
  <1>4. ASSUME NEW t \in Threads, Push(t) \/ PublicationFails(t) PROVE p \in raising'
    <2>1. PublicationEffect(t)
      BY <1>4, PublicationStepEffect DEF Coherent
    <2>2. p # t
      <3>1. CASE t = Heartbeat
        BY <3>1, HeartbeatAssumption
      <3>2. CASE t # Heartbeat
        BY <1>0, <2>1, <3>2 DEF PublicationEffect, Publishing
      <3> QED
        BY <3>1, <3>2
    <2>3. worker'[p] = worker[p]
      BY <1>0, <2>1, <2>2 DEF PublicationEffect
    <2> QED
      BY <2>1, <2>2, <2>3 DEF PublicationEffect
  <1>5. ASSUME NEW q \in ProjectIDs, WorkerStep(q) PROVE p \in raising'
    <2>1. UNCHANGED <<daemon, raising>>
      BY <1>5, WorkerStepEffect DEF WorkerEffect, Coherent
    <2>2. worker[p] \in {"raise", "alarm"}
      <3>1. CASE Raise(q)
        BY <1>0, <3>1 DEF Raise, WorkerRuns, WorkerGoes
      <3>2. CASE ~Raise(q)
        <4>1. PICK s \in {"stopped", "record", "announce", "report", "complain", "idle"} :
                worker' = [worker EXCEPT ![q] = s]
          BY <1>5, <2>1, <3>2 DEF WorkerStep, WorkerStops, PassFails, TakeUp, TaskEnds,
                                  PassEnds, QueueHeld, Record, WorkerGoes
        <4> QED
          BY <1>0, <4>1
      <3> QED
        BY <3>1, <3>2
    <2> QED
      BY <2>1, <2>2
  <1> QED
    BY <1>1, <1>2, <1>3, <1>4, <1>5 DEF Next

-----------------------------------------------------------------------------
(* The heartbeat and the age of what is published.                         *)

\* A tick finds the heartbeat ready, because its last publication has returned.
LEMMA BeatTick == ASSUME Coherent, BeatInv, Tick PROVE BeatInv'
  <1>0. /\ MaxDelay \in Nat /\ MaxLease \in Nat /\ timer \in Nat
        /\ \A t \in Threads : pending[t] \in Snapshots \cup {None}
        /\ Heartbeat \in Threads
    BY Times DEF Coherent, VariablesTyped, Threads
  <1>1. \A t \in Threads : pending[t] # None => pending[t].age \in Nat /\ pending[t].age < MaxDelay
    BY <1>0, SnapshotType DEF Tick
  <1>2. \A t \in Threads : pending'[t] = AgedSnapshot(pending[t])
    BY DEF Tick
  <1>3. \A t \in Threads : pending'[t] # None => pending'[t].age <= MaxDelay
    <2> SUFFICES ASSUME NEW t \in Threads, pending'[t] # None
                 PROVE  pending'[t].age <= MaxDelay
      OBVIOUS
    <2>1. pending[t] # None /\ pending'[t].age <= pending[t].age + 1
          /\ pending'[t] \in Snapshots \cup {None}
      BY <1>0, <1>2, AgedType
    <2>2. pending'[t].age \in Nat
      BY <2>1, SnapshotType
    <2> QED
      BY <1>0, <1>1, <2>1, <2>2
  <1>4. ASSUME daemon = "up"
        PROVE  /\ main' \notin {"leaving", "join"}
               /\ due' => main' = "returned" \/ (main' = "wait" /\ timer' = 0)
               /\ main' \in {"starting", "decided online", "decided degraded"} => timer' = 0
               /\ main' = "beat" => pending'[Heartbeat].age = timer'
    <2>1. /\ main' = main /\ main \notin {"leaving", "join", "decided online", "decided degraded", "start"}
          /\ ~(main = "wait" /\ due)
      BY <1>4 DEF Tick, BeatInv, Runs, Coherent, Life
    <2>2. IF main = "starting" THEN UNCHANGED <<timer, due>>
          ELSE IF timer + 1 = config.heartbeat THEN timer' = 0 /\ due' = TRUE
          ELSE timer' = timer + 1 /\ UNCHANGED due
      BY <1>4 DEF Tick, Runs
    <2>3. config.heartbeat \in Nat /\ 2 * MaxDelay <= config.heartbeat /\ MaxDelay <= MaxLease
      <3>1. /\ config.heartbeat \in Nat /\ config.heartbeat >= MinHeartbeat
            /\ config.lease \in Nat /\ config.lease > 2 * config.heartbeat /\ config.lease <= MaxLease
        BY <1>4, LoadedFacts DEF Coherent, Life
      <3> QED
        BY <3>1, Times
    <2>4. CASE main = "starting"
      BY <1>4, <2>1, <2>2, <2>4 DEF BeatInv
    <2>5. CASE main = "beat"
      <3>1. pending[Heartbeat] # None /\ pending[Heartbeat].age = timer /\ ~due
        BY <1>4, <2>5 DEF BeatInv, Coherent, ThreadInv
      <3>2. timer < MaxDelay
        BY <1>0, <1>1, <3>1
      <3>3. timer + 1 # config.heartbeat /\ timer < MaxLease
        BY <1>0, <2>3, <3>2
      <3>4. timer' = timer + 1 /\ due' = due
        BY <2>2, <2>5, <3>3
      <3>5. pending'[Heartbeat].age = timer + 1
        BY <1>0, <1>2, <3>1, <3>3, AgedType
      <3> QED
        BY <2>1, <2>5, <3>1, <3>4, <3>5
    <2>6. CASE main = "wait"
      BY <2>1, <2>2, <2>6
    <2>7. CASE main = "returned"
      BY <2>1, <2>7
    <2> QED
      BY <2>1, <2>4, <2>5, <2>6, <2>7 DEF Coherent, VariablesTyped, MainSteps
  <1>5. daemon' = daemon
    BY DEF Tick
  <1> QED
    BY <1>3, <1>4, <1>5 DEF BeatInv

LEMMA BeatStep == Coherent /\ BeatInv /\ [Next]_vars => BeatInv'
  <1> SUFFICES ASSUME Coherent, BeatInv, [Next]_vars PROVE BeatInv'
    OBVIOUS
  <1>0. /\ Heartbeat \in Threads /\ VariablesTyped /\ 0 <= MaxDelay
        /\ Statuses = {"online", "degraded", "offline"}
        /\ \A t \in Threads : pending[t] # None => pending[t].age <= MaxDelay
    <2>1. 0 <= MaxDelay
      BY Times
    <2> QED
      BY <2>1 DEF Threads, Coherent, BeatInv, Statuses
  \* a thread has made a new snapshot, or none, and the others keep theirs
  <1>a. ASSUME NEW t \in Threads, NEW status \in Statuses, Compute(t, status)
        PROVE  /\ \A u \in Threads : pending'[u] # None => pending'[u].age <= MaxDelay
               /\ pending'[t].age = 0
    BY <1>0, <1>a, ComputeEffect DEF Alike
  <1>1. CASE Start
    <2>1. \A u \in Threads : pending'[u] # None => pending'[u].age <= MaxDelay
      BY <1>0, <1>1, <1>a DEF Start
    <2> QED
      BY <1>1, <2>1 DEF Start, BeatInv
  <1>2. CASE Decide
    BY <1>2 DEF Decide, MainGoes, BeatInv
  <1>3. CASE Beat
    <2>1. PICK status \in Statuses : Compute(Heartbeat, status)
      BY <1>0, <1>3 DEF Beat
    <2>2. pending'[Heartbeat].age = 0
          /\ \A u \in Threads : pending'[u] # None => pending'[u].age <= MaxDelay
      BY <1>0, <1>a, <2>1
    <2>3. daemon = "up" => timer = 0 /\ ~due
      BY <1>3 DEF Beat, BeatInv
    <2> QED
      BY <1>3, <2>2, <2>3 DEF Beat, MainGoes, BeatInv
  <1>4. CASE Leave
    <2>1. \A u \in Threads : pending'[u] # None => pending'[u].age <= MaxDelay
      BY <1>0, <1>4, <1>a DEF Leave
    <2> QED
      BY <1>4, <2>1 DEF Leave, Cancelled, BeatInv
  <1>5. CASE Join
    BY <1>5 DEF Join, MainGoes, BeatInv
  <1>6. CASE Exit \/ Kill
    BY <1>6 DEF Exit, Kill, ProcessEnds, BeatInv
  <1>7. CASE Signal \/ Edit \/ UNCHANGED vars
    <2>1. /\ UNCHANGED <<main, timer, due, pending>>
          /\ daemon' = "up" => daemon = "up"
      BY <1>7 DEF Signal, Edit, vars, goroutines
    <2> QED
      BY <2>1 DEF BeatInv
  <1>8. ASSUME NEW t \in Threads, Push(t) \/ PublicationFails(t) PROVE BeatInv'
    <2>1. PublicationEffect(t)
      BY <1>8, PublicationStepEffect DEF Coherent
    <2>2. \A u \in Threads : pending'[u] # None => pending'[u] = pending[u]
      BY <1>0, <2>1 DEF PublicationEffect, VariablesTyped
    <2>3. CASE t = Heartbeat
      BY <1>0, <2>1, <2>2, <2>3 DEF PublicationEffect, BeatInv
    <2>4. CASE t # Heartbeat
      <3>1. pending'[Heartbeat] = pending[Heartbeat]
        BY <1>0, <2>1, <2>4 DEF PublicationEffect, VariablesTyped
      <3> QED
        BY <1>0, <2>1, <2>2, <2>4, <3>1 DEF PublicationEffect, BeatInv
    <2> QED
      BY <2>3, <2>4
  <1>9. ASSUME NEW p \in ProjectIDs, WorkerStep(p) PROVE BeatInv'
    <2>1. WorkerEffect(p)
      BY <1>0, <1>9, WorkerStepEffect
    <2>2. p \in Threads /\ Heartbeat \in Threads \ {p}
      BY HeartbeatAssumption DEF Threads
    <2>3. \A u \in Threads : pending'[u] # None => pending'[u].age <= MaxDelay
      BY <1>0, <2>1, <2>2 DEF WorkerEffect, Alike
    <2>4. main = "beat" => pending'[Heartbeat].age = pending[Heartbeat].age
      BY <2>1, <2>2 DEF WorkerEffect, Alike, Coherent, ThreadInv
    <2> QED
      BY <2>1, <2>3, <2>4 DEF WorkerEffect, BeatInv
  <1> QED
    BY <1>1, <1>2, <1>3, <1>4, <1>5, <1>6, <1>7, <1>8, <1>9, BeatTick DEF Next
-----------------------------------------------------------------------------
(* The age of the snapshot on the branch.                                  *)

\* The numbers that a running daemon's times obey.
LEMMA RunTimes ==
    ASSUME Coherent, Runs
    PROVE  /\ timer \in Nat /\ config.heartbeat \in Nat /\ config.lease \in Nat
           /\ timer < config.heartbeat /\ MaxDelay \in Nat
           /\ 2 * MaxDelay <= config.heartbeat /\ 2 * config.heartbeat < config.lease
  <1>1. timer \in Nat
    BY Times DEF Coherent, VariablesTyped
  <1>2. config \in Loaded /\ timer < config.heartbeat
    BY DEF Coherent, Life, Runs
  <1>3. /\ config.heartbeat \in Nat /\ config.lease \in Nat
        /\ config.heartbeat >= MinHeartbeat /\ config.lease > 2 * config.heartbeat
    BY <1>2, LoadedFacts
  <1> QED
    BY <1>1, <1>2, <1>3, Times

\* A tick takes the bound up with the age; when the ticker fires, the heartbeat
\* is waiting, and has an interval more.
LEMMA AgeTick == ASSUME Coherent, BeatInv, AgeInv, Tick PROVE AgeInv'
  <1> SUFFICES ASSUME daemon' = "up", main' \notin {"starting", "returned"}, ~missed'
               PROVE  branch' # None /\ branch'.age <= Bound'
    BY DEF AgeInv
  <1>0. UNCHANGED <<config, daemon, main, missed>> /\ branch' = AgedSnapshot(branch)
    BY DEF Tick
  <1>1. /\ main \in {"wait", "beat"} /\ (main = "wait" => ~due)
        /\ branch # None /\ branch.age <= Bound
    <2>1. main \in MainSteps /\ main \notin {"start", "leaving", "join"}
      BY <1>0 DEF Coherent, VariablesTyped, Life, BeatInv
    <2>2. main \notin {"decided online", "decided degraded"} /\ (main = "wait" => ~due)
      BY <1>0 DEF Tick, Runs
    <2>3. branch # None /\ branch.age <= Bound
      BY <1>0 DEF AgeInv
    <2> QED
      BY <1>0, <2>1, <2>2, <2>3 DEF MainSteps
  <1>2. IF timer + 1 = config.heartbeat THEN timer' = 0 /\ due' = TRUE
        ELSE timer' = timer + 1 /\ UNCHANGED due
    BY <1>0, <1>1 DEF Tick, Runs
  <1>3. /\ timer \in Nat /\ config.heartbeat \in Nat /\ MaxDelay \in Nat
        /\ 2 * MaxDelay <= config.heartbeat /\ timer < config.heartbeat
    BY <1>0, RunTimes DEF Runs
  <1>4. branch \in Snapshots
    BY <1>1 DEF Coherent, VariablesTyped
  <1>5. branch' # None /\ branch'.age <= branch.age + 1 /\ branch' \in Snapshots
    BY <1>0, <1>1, <1>4, AgedType
  <1>6. branch.age \in Nat /\ branch'.age \in Nat
    BY <1>4, <1>5, SnapshotType
  <1>7. CASE main = "wait"
    <2>1. branch.age <= MaxDelay + timer
      BY <1>1, <1>7 DEF Bound
    <2>2. CASE timer + 1 = config.heartbeat
      <3>1. Bound' = MaxDelay + config.heartbeat + 0
        BY <1>0, <1>2, <2>2 DEF Bound
      <3> QED
        BY <1>3, <1>5, <1>6, <2>1, <2>2, <3>1
    <2>3. CASE timer + 1 # config.heartbeat
      <3>1. Bound' = MaxDelay + (timer + 1)
        BY <1>0, <1>1, <1>2, <1>7, <2>3 DEF Bound
      <3> QED
        BY <1>3, <1>5, <1>6, <2>1, <3>1
    <2> QED
      BY <2>2, <2>3
  <1>8. CASE main = "beat"
    <2>1. pending[Heartbeat] # None /\ pending[Heartbeat].age = timer
      BY <1>0, <1>8 DEF BeatInv, Coherent, ThreadInv
    <2>2. timer < MaxDelay
      BY <2>1 DEF Tick, Threads
    <2>3. timer' = timer + 1
      BY <1>2, <1>3, <2>2
    <2>4. Bound = MaxDelay + config.heartbeat + timer
          /\ Bound' = MaxDelay + config.heartbeat + (timer + 1)
      BY <1>0, <1>8, <2>3 DEF Bound
    <2> QED
      BY <1>1, <1>3, <1>5, <1>6, <2>4
  <1> QED
    BY <1>1, <1>7, <1>8

\* What is pushed has waited for the delay at most.
LEMMA AgePublication ==
    ASSUME Coherent, BeatInv, AgeInv, NEW t \in Threads, Push(t) \/ PublicationFails(t)
    PROVE  AgeInv'
  <1> SUFFICES ASSUME daemon' = "up", main' \notin {"starting", "returned"}, ~missed'
               PROVE  branch' # None /\ branch'.age <= Bound'
    BY DEF AgeInv
  <1>1. /\ Runs /\ UNCHANGED <<config, timer, due>>
        /\ pending[t] # None /\ branch' = pending[t]
    BY DEF Push, PublicationFails
  <1>2. pending[t] \in Snapshots /\ pending[t].age <= MaxDelay
    BY <1>1 DEF Coherent, VariablesTyped, BeatInv
  <1>3. pending[t].age \in Nat
    BY <1>2, SnapshotType
  <1>4. timer \in Nat /\ config.heartbeat \in Nat /\ MaxDelay \in Nat
    BY <1>1, RunTimes
  <1>5. Bound' = MaxDelay + timer \/ Bound' = MaxDelay + config.heartbeat + timer
    BY <1>1 DEF Bound
  <1> QED
    BY <1>1, <1>2, <1>3, <1>4, <1>5

LEMMA AgeStep == Coherent /\ BeatInv /\ AgeInv /\ [Next]_vars => AgeInv'
  <1> SUFFICES ASSUME Coherent, BeatInv, AgeInv, [Next]_vars PROVE AgeInv'
    OBVIOUS
  <1>1. CASE Start \/ Exit \/ Kill \/ Signal \/ Leave \/ Edit
    BY <1>1 DEF Start, Exit, Kill, ProcessEnds, Signal, Leave, Cancelled, Edit, AgeInv
  <1>2. CASE Join
    BY <1>2 DEF Join, BeatInv, Runs, AgeInv
  <1>3. CASE Decide
    BY <1>3 DEF Decide, MainGoes, AgeInv, Bound
  <1>4. CASE Beat
    <2>1. PICK status \in {"online", "degraded"} : Compute(Heartbeat, status)
      BY <1>4 DEF Beat
    <2>2. Heartbeat \in Threads /\ status \in Statuses /\ VariablesTyped
      BY DEF Threads, Statuses, Coherent
    <2>3. Alike(branch', branch)
      BY <2>1, <2>2, ComputeEffect
    <2> QED
      BY <1>4, <2>3 DEF Beat, MainGoes, AgeInv, Bound, Alike
  <1>5. ASSUME NEW p \in ProjectIDs, WorkerStep(p) PROVE AgeInv'
    <2>1. Alike(branch', branch) /\ UNCHANGED <<config, daemon, main, timer, due, missed>>
      BY <1>5, WorkerStepEffect DEF WorkerEffect, Coherent
    <2> QED
      BY <2>1 DEF AgeInv, Bound, Alike
  <1>6. CASE UNCHANGED vars
    BY <1>6 DEF vars, goroutines, AgeInv, Bound
  <1> QED
    BY <1>1, <1>2, <1>3, <1>4, <1>5, <1>6, AgeTick, AgePublication DEF Next

-----------------------------------------------------------------------------
(* Theorems.                                                               *)

\* The inductive invariant: what a daemon has loaded, who publishes what, whose
\* the last error is, and how old what is published can be.
THEOREM ControlInvariance == Spec => []Inv
  <1>1. Init => Inv
    <2> SUFFICES ASSUME Init PROVE Inv
      OBVIOUS
    <2>1. Coherent
      BY CoherentInit
    <2>2. ErrorInv /\ BeatInv /\ AgeInv /\ RaisingInv
      BY DEF Init, ErrorInv, BeatInv, AgeInv, RaisingInv
    <2>3. ActiveIsWorkedOn
      BY DEF Init, ActiveIsWorkedOn
    <2> QED
      BY <2>1, <2>2, <2>3 DEF Coherent, TypeOK, Inv
  <1>2. Inv /\ [Next]_vars => Inv'
    BY CoherentStep, ActiveStep, ErrorStep, BeatStep, AgeStep, RaisingStep
       DEF Coherent, TypeOK, Inv
  <1> QED
    BY <1>1, <1>2, PTL DEF Spec

\* No step of a daemon, its heartbeat, a worker or the owner takes a variable
\* out of its type, and a project is active as long as its task is worked on.
THEOREM ControlTypeCorrect == Spec => []TypeOK
  <1>1. Inv => TypeOK
    BY DEF Inv
  <1> QED
    BY <1>1, ControlInvariance, PTL

\* Validate's rule for the lease is enough, for every heartbeat, lease and delay
\* it admits: while no publication fails, the snapshot on the branch is valid.
THEOREM LeaseTheorem == Spec => []LeaseHolds
  <1>1. Inv => LeaseHolds
    <2> SUFFICES ASSUME Inv, daemon = "up", main \notin {"starting", "returned"}, ~missed
                 PROVE  branch # None /\ branch.age < config.lease
      BY DEF LeaseHolds
    <2>0. Coherent /\ BeatInv /\ AgeInv /\ Runs
      BY DEF Inv, TypeOK, Coherent, Runs
    <2>1. /\ timer \in Nat /\ config.heartbeat \in Nat /\ config.lease \in Nat
          /\ timer < config.heartbeat /\ MaxDelay \in Nat
          /\ 2 * MaxDelay <= config.heartbeat /\ 2 * config.heartbeat < config.lease
      BY <2>0, RunTimes
    <2>2. branch # None /\ branch.age <= Bound
      BY <2>0 DEF AgeInv
    <2>3. branch.age \in Nat
      BY <2>0, <2>2, SnapshotType DEF Coherent, VariablesTyped
    <2>4. CASE main = "wait" /\ ~due
      BY <2>1, <2>2, <2>3, <2>4 DEF Bound
    <2>5. CASE ~(main = "wait" /\ ~due)
      <3>1. timer <= MaxDelay
        <4>1. CASE main = "wait" /\ due
          BY <2>0, <2>1, <4>1 DEF BeatInv
        <4>2. CASE main \in {"decided online", "decided degraded"}
          <5>1. timer = 0
            BY <2>0, <4>2 DEF BeatInv
          <5> QED
            BY <2>1, <5>1
        <4>3. CASE main = "beat"
          BY <2>0, <4>3 DEF BeatInv, Coherent, ThreadInv, Threads
        <4> QED
          BY <2>0, <2>5, <4>1, <4>2, <4>3
             DEF BeatInv, Coherent, VariablesTyped, MainSteps, Life, Runs
      <3>2. Bound = MaxDelay + config.heartbeat + timer
        BY <2>5 DEF Bound
      <3> QED
        BY <2>1, <2>2, <2>3, <3>1, <3>2
    <2> QED
      BY <2>4, <2>5
  <1> QED
    BY <1>1, ControlInvariance, PTL

\* The last error is there exactly as long as some project has an error, except
\* between a worker's setProjectError and its setError.
THEOREM ErrorsTheorem == Spec => []ErrorsAgree
  <1>1. Inv => ErrorsAgree
    <2> SUFFICES ASSUME Inv, Runs, \A p \in Projects : worker[p] # "raise"
                 PROVE  lastError = (errors # {})
      BY DEF ErrorsAgree
    <2>1. \A p \in ProjectIDs : worker[p] # "raise"
      BY DEF Inv, ThreadInv
    <2>2. lastError <=> errors # {}
      BY <2>1 DEF Inv, ErrorInv
    <2>3. lastError = TRUE \/ lastError = FALSE
      BY DEF Inv, TypeOK, VariablesTyped
    <2>4. CASE errors # {}
      BY <2>2, <2>3, <2>4
    <2>5. CASE errors = {}
      BY <2>2, <2>3, <2>5
    <2> QED
      BY <2>4, <2>5
  <1> QED
    BY <1>1, ControlInvariance, PTL

\* What a cancelled daemon still pushes after its farewell is an alarm whose error
\* was recorded before the signal, each at most once; no other step changes what
\* the branch says.
THEOREM OfflineTheorem == Spec => OfflineStays
  <1> DEFINE Excused == /\ branch'.status = "degraded"
                        /\ \E p \in raising : worker[p] = "alarm" /\ p \notin raising'
             Stays == Cancelled /\ main = "join" /\ branch # None
                      /\ branch.status = "offline" /\ branch'.status # "offline"
                      => Excused
  <1>1. Inv /\ [Next]_vars => [Stays]_vars
    <2> SUFFICES ASSUME Inv, Next, Cancelled, main = "join", branch # None,
                        branch.status = "offline", branch'.status # "offline"
                 PROVE  Excused
      OBVIOUS
    <2>0. Coherent /\ branch \in Snapshots \cup {None}
      BY DEF Inv, TypeOK, Coherent, VariablesTyped
    <2>1. CASE Start \/ Decide \/ Beat \/ Leave \/ Join \/ Exit \/ Kill \/ Signal \/ Edit
      BY <2>1 DEF Start, Decide, Beat, Leave, Join, Exit, Kill, ProcessEnds, Signal, Edit, Cancelled
    <2>2. CASE Tick
      BY <2>0, <2>2, AgedType DEF Tick
    <2>3. ASSUME NEW t \in Threads, Push(t) \/ PublicationFails(t)
          PROVE  Excused
      <3>1. OwnContext(t) /\ branch' = pending[t] /\ raising' = raising \ {t}
        BY <2>3 DEF Push, PublicationFails
      <3>2. t \in ProjectIDs /\ worker[t] = "alarm"
        BY <3>1 DEF OwnContext, Threads
      <3>3. t \in raising /\ pending[t].status = "degraded"
        BY <2>0, <3>2 DEF Coherent, ThreadInv, Inv, RaisingInv
      <3> QED
        BY <3>1, <3>2, <3>3
    <2>4. ASSUME NEW p \in ProjectIDs, WorkerStep(p) PROVE FALSE
      BY <2>0, <2>4, WorkerStepEffect DEF WorkerEffect, Alike, Coherent
    <2> QED
      BY <2>1, <2>2, <2>3, <2>4 DEF Next
  <1> QED
    BY <1>1, ControlInvariance, PTL DEF Spec, OfflineStays
=============================================================================
