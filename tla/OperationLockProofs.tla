------------------------- MODULE OperationLockProofs -------------------------
(***************************************************************************)
(* TimedExclusion for every number of threads and processes, every way the *)
(* threads are spread over them, and every length of the stale interval.   *)
(* The invariant says that an undisturbed lock directory always belongs to *)
(* the thread that holds it and is never older than the hold, so nobody    *)
(* ever sees it as stale and nobody but its creator removes it.            *)
(***************************************************************************)
EXTENDS OperationLock, TLAPS

\* A fresh directory, and a clock that has run out, have an age.
LEMMA AgesTyped == 0 \in Ages /\ TooOld \in Ages /\ 0 \in 0..MaxExits
  BY ClockAssumption DEF Ages, TooOld

LEMMA ZeroIsYoung == \A n \in Ages : 0 <= n
  BY ClockAssumption DEF Ages, TooOld

\* The initial state satisfies the invariant.
LEMMA InitInv == Init => IInv
  <1> SUFFICES ASSUME Init PROVE IInv
    OBVIOUS
  <1>1. TypeOK
    BY AgesTyped DEF Init, TypeOK, VariablesTyped, MutexIsExclusive, Steps
  <1>2. HolderIsCreator /\ LockIsFresh /\ EmptiedByRelease /\ NobodyRecovers
    BY DEF Init, HolderIsCreator, LockIsFresh, EmptiedByRelease, NobodyRecovers,
           Exists, Busy, Holding, Releasing, Recovering
  <1> QED
    BY <1>1, <1>2 DEF Init, IInv

\* No step of a thread makes a variable lose its type.
LEMMA ThreadTyped ==
  ASSUME VariablesTyped, NEW t \in Threads, Thread(t) \/ GiveUp(t)
  PROVE  VariablesTyped'
  <1> USE DEF VariablesTyped, At, Goto, lockVars, procVars, Steps, Holding, Releasing,
              Recovering
  <1>1. CASE Call(t) \/ DirectoryExists(t) \/ Enter(t) \/ FindStale(t) \/ FindFresh(t)
             \/ Retry(t) \/ Finish(t) \/ GiveUp(t)
    BY <1>1 DEF Call, DirectoryExists, Enter, FindStale, FindFresh, Retry, Finish, GiveUp
  <1>2. CASE MakeDirectory(t) \/ WriteOwner(t)
    BY <1>2, AgesTyped DEF MakeDirectory, WriteOwner
  <1>3. CASE Release(t)
    BY <1>3, AgesTyped DEF Release, Empty, Drop
  <1>4. CASE Recover(t)
    BY <1>4, AgesTyped DEF Recover, Empty, Drop
  <1> QED
    BY <1>1, <1>2, <1>3, <1>4 DEF Thread, Proceed

\* A tick keeps ages in range.
LEMMA LaterTyped ==
  ASSUME NEW n \in Ages
  PROVE  Later(n) \in Ages /\ (n <= StaleAfter => Later(n) = n + 1)
  BY ClockAssumption DEF Later, Ages, TooOld

\* No other step does either.
LEMMA TickTyped == VariablesTyped /\ Tick => VariablesTyped'
  <1> SUFFICES ASSUME VariablesTyped, Tick PROVE VariablesTyped'
    OBVIOUS
  <1>1. age' \in Ages
    BY LaterTyped DEF Tick, VariablesTyped
  <1>2. held' \in [Threads -> Ages]
    BY LaterTyped, ClockAssumption DEF Tick, VariablesTyped, Ages, TooOld
  <1> QED
    BY <1>1, <1>2 DEF Tick, VariablesTyped, procVars

LEMMA ProcessTyped ==
  ASSUME VariablesTyped, NEW p \in Processes, Exit(p) \/ Start(p)
  PROVE  VariablesTyped'
  <1>1. CASE Exit(p)
    BY <1>1, ClockAssumption DEF Exit, VariablesTyped, lockVars, Steps
  <1>2. CASE Start(p)
    BY <1>2 DEF Start, VariablesTyped, lockVars
  <1> QED
    BY <1>1, <1>2

\* Who begins to operate has found the mutex free.
LEMMA MutexStep ==
  ASSUME VariablesTyped, MutexIsExclusive, [Next]_vars
  PROVE  MutexIsExclusive'
  <1> USE DEF VariablesTyped, MutexIsExclusive, At, Goto
  <1>1. ASSUME NEW t \in Threads, Enter(t) PROVE MutexIsExclusive'
    BY <1>1 DEF Enter
  <1>2. ASSUME NEW t \in Threads, NEW s \in Steps \ {"operate"},
               pc' = [pc EXCEPT ![t] = s]
        PROVE  MutexIsExclusive'
    BY <1>2
  <1>3. ASSUME NEW t \in Threads, Thread(t) \/ GiveUp(t), ~Enter(t)
        PROVE  \E s \in Steps \ {"operate"} : pc' = [pc EXCEPT ![t] = s]
    BY <1>3 DEF Thread, Proceed, Call, MakeDirectory, DirectoryExists, WriteOwner, FindStale,
             FindFresh, Retry, Finish, Release, Recover, Empty, Drop, GiveUp, Steps,
             Holding, Releasing, Recovering
  <1>4. CASE Tick \/ UNCHANGED vars
    BY <1>4 DEF Tick, vars
  <1>5. ASSUME NEW p \in Processes, Exit(p) \/ Start(p) PROVE MutexIsExclusive'
    BY <1>5 DEF Exit, Start
  <1> QED
    BY <1>1, <1>2, <1>3, <1>4, <1>5 DEF Next

-----------------------------------------------------------------------------
(* An undisturbed lock.                                                    *)

\* What IInv claims of it.
Sound == HolderIsCreator /\ LockIsFresh /\ EmptiedByRelease /\ NobodyRecovers

\* The lock is fresh for everybody who looks.
LEMMA NeverSeenStale ==
  ASSUME VariablesTyped, Sound, Exists
  PROVE  ~IsStale
  BY ClockAssumption DEF VariablesTyped, Sound, LockIsFresh, Exists, IsStale, Ages, TooOld

\* Steps that move a thread between places outside the lock.
LEMMA OutsideStep ==
  ASSUME VariablesTyped, Sound, NEW t \in Threads,
         Call(t) \/ DirectoryExists(t) \/ FindStale(t) \/ FindFresh(t) \/ Retry(t)
           \/ GiveUp(t)
  PROVE  Sound'
  <1>1. ~FindStale(t)
    BY NeverSeenStale DEF FindStale
  <1>2. /\ \E s \in {"try", "look", "wait", "idle"} : pc' = [pc EXCEPT ![t] = s]
        /\ pc[t] \in {"idle", "try", "look", "wait"}
        /\ UNCHANGED <<creator, owned, age, held>>
    BY <1>1 DEF Call, DirectoryExists, FindFresh, Retry, GiveUp, At, Goto, lockVars
  <1> QED
    BY <1>2 DEF Sound, VariablesTyped, HolderIsCreator, LockIsFresh, EmptiedByRelease,
                NobodyRecovers, Exists, Busy, Holding, Releasing, Recovering

\* Nobody else holds the lock when a thread creates the directory.
LEMMA MakeStep ==
  ASSUME VariablesTyped, Sound, NEW t \in Threads, MakeDirectory(t)
  PROVE  Sound'
  <1>1. \A u \in Threads : ~Busy(u)
    BY ThreadsAssumption DEF MakeDirectory, Sound, HolderIsCreator, Exists
  <1>2. \A u \in Threads : Busy(u)' => u = t
    BY <1>1 DEF MakeDirectory, VariablesTyped, Goto, Busy
  <1>3. HolderIsCreator' /\ EmptiedByRelease' /\ NobodyRecovers'
    BY <1>2 DEF MakeDirectory, VariablesTyped, Sound, Goto, HolderIsCreator, EmptiedByRelease,
                NobodyRecovers, Recovering
  <1>4. /\ creator' = t /\ age' = 0 /\ held'[t] = 0
        /\ pc'[t] \in Holding
    BY DEF MakeDirectory, VariablesTyped, Goto, Holding
  <1>5. LockIsFresh'
    BY <1>4, ClockAssumption DEF LockIsFresh, Busy
  <1> QED
    BY <1>3, <1>5 DEF Sound

\* The holder writes its owner file, enters, and finishes.
LEMMA HolderStep ==
  ASSUME VariablesTyped, Sound, NEW t \in Threads, WriteOwner(t) \/ Enter(t) \/ Finish(t)
  PROVE  Sound'
  <1>1. /\ pc[t] \in Holding
        /\ \E s \in {"enter", "operate", "release"} : pc' = [pc EXCEPT ![t] = s]
        /\ creator' = creator /\ held' = held
        /\ age' \in {age, 0}
        /\ owned' # owned => pc[t] = "write owner"
    BY DEF WriteOwner, Enter, Finish, At, Goto, lockVars, Holding
  <1>2. creator = t /\ Exists
    BY <1>1, ThreadsAssumption DEF Sound, HolderIsCreator, Busy, Exists
  <1>3. /\ \A u \in Threads : Busy(u)' <=> Busy(u)
        /\ Busy(t)
    BY <1>1 DEF VariablesTyped, Busy, Holding, Releasing
  <1>4. HolderIsCreator' /\ NobodyRecovers'
    BY <1>1, <1>3 DEF Sound, VariablesTyped, HolderIsCreator, NobodyRecovers, Recovering
  <1>5. \A u \in Threads : pc'[u] # "release directory"
    BY <1>1, <1>2 DEF Sound, VariablesTyped, HolderIsCreator, Busy, Holding, Releasing
  <1>6. /\ age' <= held[t] /\ held[t] <= StaleAfter
    BY <1>1, <1>2, ZeroIsYoung DEF Sound, VariablesTyped, LockIsFresh
  <1>7. LockIsFresh'
    BY <1>1, <1>2, <1>3, <1>6 DEF LockIsFresh
  <1> QED
    BY <1>4, <1>5, <1>7 DEF Sound, EmptiedByRelease

\* Only the creator removes the directory.
LEMMA ReleaseStep ==
  ASSUME VariablesTyped, Sound, NEW t \in Threads, Release(t)
  PROVE  Sound'
  <1>1. pc[t] \in Releasing
    BY DEF Release, Empty, Drop, At, Releasing
  <1>2. creator = t /\ Exists
    BY <1>1, ThreadsAssumption DEF Sound, HolderIsCreator, Busy, Exists
  <1>3. \A u \in Threads \ {t} : ~Busy(u) /\ pc'[u] = pc[u]
    BY <1>2 DEF Sound, HolderIsCreator, VariablesTyped, Release, Empty, Drop, Goto
  <1>4. CASE pc[t] = "release" /\ owned
    <2>1. /\ pc' = [pc EXCEPT ![t] = "release directory"]
          /\ owned' = FALSE /\ age' = 0 /\ creator' = creator /\ held' = held
      BY <1>2, <1>4 DEF Release, Empty, Drop, At, Goto
    <2>2. pc'[t] \in Releasing /\ 0 <= held[t] /\ held[t] <= StaleAfter
      BY <1>2, <2>1, ZeroIsYoung DEF Sound, VariablesTyped, LockIsFresh, Releasing
    <2>3. LockIsFresh'
      BY <1>2, <2>1, <2>2 DEF LockIsFresh, Busy
    <2> QED
      BY <1>2, <1>3, <2>1, <2>3
         DEF Sound, VariablesTyped, HolderIsCreator, EmptiedByRelease, NobodyRecovers, Busy,
             Recovering
  <1>5. CASE ~(pc[t] = "release" /\ owned)
    <2>1. ~owned
      BY <1>1, <1>5 DEF Sound, EmptiedByRelease, Releasing
    <2>2. pc' = [pc EXCEPT ![t] = "idle"] /\ creator' = Nobody
      BY <1>1, <2>1 DEF Release, Empty, Drop, At, Goto, Releasing
    <2>3. \A u \in Threads : ~Busy(u)' /\ pc'[u] \notin Releasing
      BY <1>3, <2>2 DEF VariablesTyped, Busy, Holding, Releasing
    <2> QED
      BY <1>3, <2>2, <2>3
         DEF Sound, VariablesTyped, HolderIsCreator, LockIsFresh, EmptiedByRelease,
             NobodyRecovers, Exists, Recovering, Releasing
  <1> QED
    BY <1>4, <1>5

\* The directory never gets older than its hold, which is short.
LEMMA TickStep ==
  ASSUME VariablesTyped, Sound, Tick, ~LongOperations, alive = Processes
  PROVE  Sound'
  <1>1. pc' = pc /\ creator' = creator /\ owned' = owned
    BY DEF Tick
  <1>2. HolderIsCreator' /\ EmptiedByRelease' /\ NobodyRecovers'
    BY <1>1 DEF Sound, HolderIsCreator, EmptiedByRelease, NobodyRecovers, Busy
  <1>3. ASSUME Exists PROVE LockIsFresh'
    <2>1. creator \in Threads /\ Busy(creator) /\ age <= held[creator]
      BY <1>3 DEF Sound, VariablesTyped, LockIsFresh, Exists
    <2>2. held[creator] < StaleAfter
      BY <2>1, ThreadsAssumption DEF Tick, Busy, Runs
    <2>3. age' = Later(age) /\ held'[creator] = Later(held[creator])
      BY <1>3, <2>1 DEF Tick, Busy
    <2>4. age \in Ages /\ held[creator] \in Ages
      BY <2>1 DEF VariablesTyped
    <2>5. age' = age + 1 /\ held'[creator] = held[creator] + 1
      BY <2>1, <2>2, <2>3, <2>4, LaterTyped, ClockAssumption DEF Ages, TooOld
    <2>6. age' <= held'[creator] /\ held'[creator] <= StaleAfter
      BY <2>1, <2>2, <2>4, <2>5, ClockAssumption DEF Ages, TooOld
    <2> QED
      BY <1>1, <2>1, <2>6 DEF LockIsFresh, Busy
  <1>4. ASSUME ~Exists PROVE LockIsFresh'
    BY <1>1, <1>4 DEF LockIsFresh, Exists
  <1> QED
    BY <1>2, <1>3, <1>4 DEF Sound

-----------------------------------------------------------------------------
(* The theorems.                                                           *)

\* Every step preserves the invariant.
LEMMA NextInv == IInv /\ [Next]_vars => IInv'
  <1> SUFFICES ASSUME IInv, [Next]_vars PROVE IInv'
    OBVIOUS
  <1>1. VariablesTyped /\ (exits = 0 => alive = Processes) /\ (Undisturbed => Sound)
    BY DEF IInv, TypeOK, Sound
  <1>6. MutexIsExclusive'
    BY MutexStep DEF IInv, TypeOK
  <1> SUFFICES /\ VariablesTyped'
               /\ exits' = 0 => alive' = Processes
               /\ Undisturbed' => Sound'
    BY <1>6 DEF IInv, TypeOK, Sound
  <1>2. CASE \E t \in Threads : Thread(t) \/ GiveUp(t)
    <2> PICK t \in Threads : Thread(t) \/ GiveUp(t)
      BY <1>2
    <2>1. UNCHANGED procVars
      BY DEF Thread, Proceed, Call, MakeDirectory, DirectoryExists, WriteOwner, Enter, FindStale,
             FindFresh, Retry, Finish, Release, Recover, Empty, Drop, GiveUp
    <2>2. ASSUME Undisturbed PROVE ~Recover(t)
      BY <1>1, <2>2 DEF Sound, NobodyRecovers, Recover, Empty, Drop, At, Recovering
    <2>3. ASSUME Undisturbed PROVE Sound'
      BY <1>1, <2>2, <2>3, OutsideStep, MakeStep, HolderStep, ReleaseStep
         DEF Thread, Proceed
    <2> QED
      BY <1>1, <2>1, <2>3, ThreadTyped DEF procVars, Undisturbed
  <1>3. CASE Tick
    <2>1. UNCHANGED procVars
      BY <1>3 DEF Tick
    <2>2. ASSUME Undisturbed PROVE Sound'
      BY <1>1, <1>3, <2>2, TickStep DEF Undisturbed
    <2> QED
      BY <1>1, <1>3, <2>1, <2>2, TickTyped DEF procVars, Undisturbed
  <1>4. CASE \E p \in Processes : Exit(p) \/ Start(p)
    <2> PICK p \in Processes : Exit(p) \/ Start(p)
      BY <1>4
    <2>1. CASE Exit(p)
      <3>1. exits' # 0
        BY <1>1, <2>1, ClockAssumption DEF Exit, VariablesTyped
      <3> QED
        BY <1>1, <3>1, ProcessTyped DEF Undisturbed
    <2>2. CASE Start(p)
      <3>1. exits # 0 /\ exits' = exits
        BY <1>1, <2>2 DEF Start
      <3> QED
        BY <1>1, <3>1, ProcessTyped DEF Undisturbed
    <2> QED
      BY <2>1, <2>2
  <1>5. CASE UNCHANGED vars
    BY <1>1, <1>5
       DEF vars, lockVars, procVars, VariablesTyped, Undisturbed, Sound, HolderIsCreator,
           LockIsFresh, EmptiedByRelease, NobodyRecovers, Exists, Busy
  <1> QED
    BY <1>2, <1>3, <1>4, <1>5 DEF Next

\* The strengthened invariant of the lock holds in every reachable state.
THEOREM LockInvariance == Spec => []IInv
  BY InitInv, NextInv, PTL DEF Spec

\* Every variable keeps its type, and the mutex lets one thread of a process operate.
THEOREM LockTypeCorrect == Spec => []TypeOK
  <1>1. IInv => TypeOK
    BY DEF IInv
  <1> QED
    BY <1>1, LockInvariance, PTL

\* As long as no process ended inside an operation and none takes longer than the
\* stale interval, no two threads operate on the mirror at once.
THEOREM ExclusionTheorem == Spec => []TimedExclusion
  <1>1. IInv => TimedExclusion
    BY DEF IInv, Undisturbed, TimedExclusion, SerializedOperations, HolderIsCreator,
           Operating, At, Busy, Holding
  <1> QED
    BY <1>1, LockInvariance, PTL
=============================================================================
