-------------------------- MODULE SupervisorProofs --------------------------
(***************************************************************************)
(* Proofs about Supervisor, for any number of processes and any bounds.    *)
(* Types are preserved action by action.  OneGateway needs LockInv: until  *)
(* locks have crossed, the lock file is its holder's, and whoever is about *)
(* to judge a lock judges the one that is there.  A stale lock's owner is  *)
(* dead, hence holds nothing, so that removing it takes it from nobody.    *)
(***************************************************************************)
EXTENDS Supervisor, TLAPS

Others(p) == \/ RunCommand(p) \/ OwnerCommand(p) \/ Reuse(p) \/ ReadPidFile(p)
             \/ StatusReports(p) \/ Finish(p) \/ Kill(p)

\* Next, by the parts of the proofs.
LEMMA NextCases ==
    ASSUME [Next]_vars
    PROVE  \/ \E p \in Pids : Acquires(p) \/ Releases(p) \/ Starts(p) \/ Stops(p) \/ Others(p)
           \/ UNCHANGED vars
  BY DEF Next, Proceeds, Others

-----------------------------------------------------------------------------
(* Types.                                                                  *)

LEMMA TypesInit == Init => TypeOK
  <1> SUFFICES ASSUME Init PROVE TypeOK
    OBVIOUS
  <1>1. step \in [Pids -> Steps] /\ crossed \in BOOLEAN
    BY DEF Init, Steps
  <1>2. seen \in [Pids -> Text] /\ port \in Pids \cup {None}
    BY DEF Init, Text
  <1>3. lockBy \in Pids \cup {None} /\ lockText \in Pids \cup {Blank}
    BY DEF Init
  <1>4. pidFile \in Text \ {Blank} /\ temp \in Text \ {Blank}
    BY PidAssumption DEF Init, Text
  <1>5. events \in 0..MaxEvents
    BY BoundAssumption DEF Init
  <1> QED
    BY <1>1, <1>2, <1>3, <1>4, <1>5 DEF TypeOK

LEMMA TypesAcquires ==
    ASSUME TypeOK, NEW p \in Pids, Acquires(p)
    PROVE  TypeOK'
  <1> USE PidAssumption, BoundAssumption DEF TypeOK, files, Text, Steps, Gateway,
             Acquiring, Holding, Commands
  <1>1. CASE Open(p)
    BY <1>1 DEF Open, CreateLock, Goto, Forget
  <1>2. CASE LockExists(p)
    BY <1>2 DEF LockExists, Goto
  <1>3. CASE Inspect(p)
    BY <1>3 DEF Inspect, Read, Goto
  <1>4. CASE Refuse(p)
    BY <1>4 DEF Refuse, End, Goto, Forget
  <1>5. CASE RemoveStale(p)
    BY <1>5 DEF RemoveStale, Goto, Forget, OwnerIsDead, ProcessAlive
  <1>6. CASE Reopen(p)
    BY <1>6 DEF Reopen, CreateLock, Goto, Forget
  <1>7. CASE Fill(p)
    BY <1>7 DEF Fill, Goto
  <1>8. CASE RunTemp(p)
    BY <1>8 DEF RunTemp, Goto
  <1>9. CASE RunRename(p)
    BY <1>9 DEF RunRename, Goto
  <1>10. CASE RunRenameFails(p)
    BY <1>10 DEF RunRenameFails, Goto
  <1>11. CASE Withdraw(p)
    BY <1>11 DEF Withdraw, End, Goto, Forget
  <1>12. CASE Listen(p)
    BY <1>12 DEF Listen, Goto
  <1> QED
    BY <1>1, <1>2, <1>3, <1>4, <1>5, <1>6, <1>7, <1>8, <1>9, <1>10, <1>11, <1>12 DEF Acquires

LEMMA TypesReleases ==
    ASSUME TypeOK, NEW p \in Pids, Releases(p)
    PROVE  TypeOK'
  <1> USE PidAssumption, BoundAssumption DEF TypeOK, files, Text, Steps, Gateway,
             Acquiring, Holding, Commands
  <1>1. CASE ReleaseLock(p)
    BY <1>1 DEF ReleaseLock, Goto
  <1>2. CASE ReleasePid(p)
    BY <1>2 DEF ReleasePid, End, Goto, Forget, RemovePidFile
  <1> QED
    BY <1>1, <1>2 DEF Releases

LEMMA TypesStarts ==
    ASSUME TypeOK, NEW p \in Pids, Starts(p)
    PROVE  TypeOK'
  <1> USE PidAssumption, BoundAssumption DEF TypeOK, files, Text, Steps, Gateway,
             Acquiring, Holding, Commands
  <1>1. CASE StartRefuses(p)
    BY <1>1 DEF StartRefuses, End, Goto, Forget
  <1>2. CASE StartSpawns(p)
    BY <1>2 DEF StartSpawns, DropDead
  <1>3. CASE StartTemp(p)
    BY <1>3 DEF StartTemp, ReleasedPid, Goto
  <1>4. CASE StartRename(p)
    BY <1>4 DEF StartRename, Goto
  <1>5. CASE StartRenameFails(p)
    BY <1>5 DEF StartRenameFails, End, Goto, Forget
  <1>6. CASE StartLooksAgain(p)
    BY <1>6 DEF StartLooksAgain, DropDead, Event, Goto, Forget
  <1>7. CASE StartReturns(p)
    BY <1>7 DEF StartReturns, DropDead, End, Goto, Forget
  <1> QED
    BY <1>1, <1>2, <1>3, <1>4, <1>5, <1>6, <1>7 DEF Starts

LEMMA TypesStops ==
    ASSUME TypeOK, NEW p \in Pids, Stops(p)
    PROVE  TypeOK'
  <1> USE PidAssumption, BoundAssumption DEF TypeOK, files, Text, Steps, Gateway,
             Acquiring, Holding, Commands
  <1>1. CASE StopFindsNone(p)
    BY <1>1 DEF StopFindsNone, RemovePidFile, End, Goto, Forget
  <1>2. CASE StopFinds(p)
    BY <1>2 DEF StopFinds, Goto
  <1>3. CASE StopSignals(p)
    BY <1>3 DEF StopSignals, Graceful, Goto, PortWithout, ProcessAlive
  <1>4. CASE StopMisses(p)
    BY <1>4 DEF StopMisses, End, Goto, Forget
  <1>5. CASE StopSees(p)
    BY <1>5 DEF StopSees, Goto, Forget
  <1>6. CASE StopKills(p)
    BY <1>6 DEF StopKills, ProcessAlive, Event, PortWithout, Forget
  <1>7. CASE StopForgets(p)
    BY <1>7 DEF StopForgets, RemovePidFile, End, Goto, Forget
  <1> QED
    BY <1>1, <1>2, <1>3, <1>4, <1>5, <1>6, <1>7 DEF Stops

LEMMA TypesOthers ==
    ASSUME TypeOK, NEW p \in Pids, Others(p)
    PROVE  TypeOK'
  <1> USE PidAssumption, BoundAssumption DEF TypeOK, files, Text, Steps, Gateway,
             Acquiring, Holding, Commands
  <1>1. CASE RunCommand(p)
    BY <1>1 DEF RunCommand, Exec, Goto, Forget
  <1>2. CASE OwnerCommand(p)
    BY <1>2 DEF OwnerCommand, Exec, Event, Goto, Forget
  <1>3. CASE Reuse(p)
    BY <1>3 DEF Reuse, Exec, Event, Goto, Forget
  <1>4. CASE ReadPidFile(p)
    BY <1>4 DEF ReadPidFile, Read, Goto
  <1>5. CASE StatusReports(p)
    BY <1>5 DEF StatusReports, DropDead, End, Goto, Forget
  <1>6. CASE Finish(p)
    BY <1>6 DEF Finish, Goto, PortWithout
  <1>7. CASE Kill(p)
    BY <1>7 DEF Kill, Event, PortWithout, End, Goto, Forget
  <1> QED
    BY <1>1, <1>2, <1>3, <1>4, <1>5, <1>6, <1>7 DEF Others

\* Every variable keeps its type, whatever processes run, die and are reused.
THEOREM SupervisorTypeCorrect == Spec => []TypeOK
  <1>1. Init => TypeOK
    BY TypesInit
  <1>2. TypeOK /\ [Next]_vars => TypeOK'
    <2> SUFFICES ASSUME TypeOK, [Next]_vars PROVE TypeOK'
      OBVIOUS
    <2>1. CASE UNCHANGED vars
      BY <2>1 DEF vars, files, TypeOK
    <2>2. CASE \E p \in Pids : Acquires(p) \/ Releases(p) \/ Starts(p) \/ Stops(p) \/ Others(p)
      BY <2>2, TypesAcquires, TypesReleases, TypesStarts, TypesStops, TypesOthers
    <2> QED
      BY <2>1, <2>2, NextCases
  <1> QED
    BY <1>1, <1>2, PTL DEF Spec

-----------------------------------------------------------------------------
(* One gateway.                                                            *)

\* The lock file has its creator's id in it, or nothing yet; the text that is
\* judged was one.
LockText ==
    /\ lockBy = None => lockText = Blank
    /\ lockText \in {Blank, lockBy}
    /\ \A q \in Pids : step[q] = "judge" => seen[q] \in Pids

\* Until locks have crossed, a holder's lock is the one that is there, and so
\* is a lock that is about to be judged, unless it has gone.
LockOwned ==
    ~crossed => /\ \A q \in Pids : step[q] \in Holding => lockBy = q
                /\ \A q \in Pids : step[q] = "judge" => lockBy \in {None, seen[q]}

LockInv == TypeOK /\ LockText /\ LockOwned

LEMMA LockAcquires ==
    ASSUME TypeOK, LockText, LockOwned, NEW p \in Pids, Acquires(p)
    PROVE  (LockText /\ LockOwned)'
  <1> USE PidAssumption DEF TypeOK, files, LockText, LockOwned, Holding
  <1>1. CASE Open(p)
    BY <1>1 DEF Open, CreateLock, Goto, Forget
  <1>2. CASE LockExists(p)
    BY <1>2 DEF LockExists, Goto
  <1>3. CASE Inspect(p)
    BY <1>3 DEF Inspect, Read, Goto
  <1>4. CASE Refuse(p)
    BY <1>4 DEF Refuse, End, Goto, Forget
  <1>5. CASE RemoveStale(p)
    BY <1>5 DEF RemoveStale, Goto, Forget, OwnerIsDead, ProcessAlive
  <1>6. CASE Reopen(p)
    BY <1>6 DEF Reopen, CreateLock, Goto, Forget
  <1>7. CASE Fill(p)
    BY <1>7 DEF Fill, Goto
  <1>8. CASE RunTemp(p)
    BY <1>8 DEF RunTemp, Goto
  <1>9. CASE RunRename(p)
    BY <1>9 DEF RunRename, Goto
  <1>10. CASE RunRenameFails(p)
    BY <1>10 DEF RunRenameFails, Goto
  <1>11. CASE Withdraw(p)
    BY <1>11 DEF Withdraw, End, Goto, Forget
  <1>12. CASE Listen(p)
    BY <1>12 DEF Listen, Goto
  <1> QED
    BY <1>1, <1>2, <1>3, <1>4, <1>5, <1>6, <1>7, <1>8, <1>9, <1>10, <1>11, <1>12 DEF Acquires

LEMMA LockReleases ==
    ASSUME TypeOK, LockText, LockOwned, NEW p \in Pids, Releases(p)
    PROVE  (LockText /\ LockOwned)'
  <1> USE PidAssumption DEF TypeOK, files, LockText, LockOwned, Holding
  <1>1. CASE ReleaseLock(p)
    BY <1>1 DEF ReleaseLock, Goto
  <1>2. CASE ReleasePid(p)
    BY <1>2 DEF ReleasePid, End, Goto, Forget, RemovePidFile
  <1> QED
    BY <1>1, <1>2 DEF Releases

LEMMA LockStarts ==
    ASSUME TypeOK, LockText, LockOwned, NEW p \in Pids, Starts(p)
    PROVE  (LockText /\ LockOwned)'
  <1> USE PidAssumption DEF TypeOK, files, LockText, LockOwned, Holding
  <1>1. CASE StartRefuses(p)
    BY <1>1 DEF StartRefuses, End, Goto, Forget
  <1>2. CASE StartSpawns(p)
    BY <1>2 DEF StartSpawns, DropDead
  <1>3. CASE StartTemp(p)
    BY <1>3 DEF StartTemp, ReleasedPid, Goto
  <1>4. CASE StartRename(p)
    BY <1>4 DEF StartRename, Goto
  <1>5. CASE StartRenameFails(p)
    BY <1>5 DEF StartRenameFails, End, Goto, Forget
  <1>6. CASE StartLooksAgain(p)
    BY <1>6 DEF StartLooksAgain, DropDead, Event, Goto, Forget
  <1>7. CASE StartReturns(p)
    BY <1>7 DEF StartReturns, DropDead, End, Goto, Forget
  <1> QED
    BY <1>1, <1>2, <1>3, <1>4, <1>5, <1>6, <1>7 DEF Starts

LEMMA LockStops ==
    ASSUME TypeOK, LockText, LockOwned, NEW p \in Pids, Stops(p)
    PROVE  (LockText /\ LockOwned)'
  <1> USE PidAssumption DEF TypeOK, files, LockText, LockOwned, Holding
  <1>1. CASE StopFindsNone(p)
    BY <1>1 DEF StopFindsNone, RemovePidFile, End, Goto, Forget
  <1>2. CASE StopFinds(p)
    BY <1>2 DEF StopFinds, Goto
  <1>3. CASE StopSignals(p)
    BY <1>3 DEF StopSignals, Graceful, Goto, PortWithout, ProcessAlive
  <1>4. CASE StopMisses(p)
    BY <1>4 DEF StopMisses, End, Goto, Forget
  <1>5. CASE StopSees(p)
    BY <1>5 DEF StopSees, Goto, Forget
  <1>6. CASE StopKills(p)
    BY <1>6 DEF StopKills, ProcessAlive, Event, PortWithout, Forget
  <1>7. CASE StopForgets(p)
    BY <1>7 DEF StopForgets, RemovePidFile, End, Goto, Forget
  <1> QED
    BY <1>1, <1>2, <1>3, <1>4, <1>5, <1>6, <1>7 DEF Stops

LEMMA LockOthers ==
    ASSUME TypeOK, LockText, LockOwned, NEW p \in Pids, Others(p)
    PROVE  (LockText /\ LockOwned)'
  <1> USE PidAssumption DEF TypeOK, files, LockText, LockOwned, Holding
  <1>1. CASE RunCommand(p)
    BY <1>1 DEF RunCommand, Exec, Goto, Forget
  <1>2. CASE OwnerCommand(p)
    BY <1>2 DEF OwnerCommand, Exec, Event, Goto, Forget
  <1>3. CASE Reuse(p)
    BY <1>3 DEF Reuse, Exec, Event, Goto, Forget
  <1>4. CASE ReadPidFile(p)
    BY <1>4 DEF ReadPidFile, Read, Goto
  <1>5. CASE StatusReports(p)
    BY <1>5 DEF StatusReports, DropDead, End, Goto, Forget
  <1>6. CASE Finish(p)
    BY <1>6 DEF Finish, Goto, PortWithout
  <1>7. CASE Kill(p)
    BY <1>7 DEF Kill, Event, PortWithout, End, Goto, Forget
  <1> QED
    BY <1>1, <1>2, <1>3, <1>4, <1>5, <1>6, <1>7 DEF Others

\* The invariant that OneGateway follows from.
THEOREM SupervisorInvariance == Spec => []LockInv
  <1>1. Init => LockInv
    <2>1. Init => LockText
      BY DEF Init, LockText
    <2>2. Init => LockOwned
      BY DEF Init, LockOwned, Holding
    <2> QED
      BY <2>1, <2>2, TypesInit DEF LockInv
  <1>2. LockInv /\ [Next]_vars => LockInv'
    <2> SUFFICES ASSUME TypeOK, LockText, LockOwned, [Next]_vars PROVE LockInv'
      BY DEF LockInv
    <2>1. CASE UNCHANGED vars
      BY <2>1 DEF vars, files, TypeOK, LockInv, LockText, LockOwned
    <2>2. CASE \E p \in Pids : Acquires(p) \/ Releases(p) \/ Starts(p) \/ Stops(p) \/ Others(p)
      <3>1. TypeOK'
        BY <2>2, TypesAcquires, TypesReleases, TypesStarts, TypesStops, TypesOthers
      <3>2. (LockText /\ LockOwned)'
        BY <2>2, LockAcquires, LockReleases, LockStarts, LockStops, LockOthers
      <3> QED
        BY <3>1, <3>2 DEF LockInv
    <2> QED
      BY <2>1, <2>2, NextCases
  <1> QED
    BY <1>1, <1>2, PTL DEF Spec

\* Two processes are never both between the creation of their lock and its
\* removal, unless locks have crossed (OneGateway), for any number of processes.
THEOREM OneGatewayTheorem == Spec => []OneGateway
  <1>1. LockInv => OneGateway
    BY DEF LockInv, LockOwned, OneGateway, TypeOK
  <1> QED
    BY <1>1, SupervisorInvariance, PTL
=============================================================================
