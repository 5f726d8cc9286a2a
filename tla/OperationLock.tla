---------------------------- MODULE OperationLock ----------------------------
(***************************************************************************)
(* The lock around every operation on the shared mirror                    *)
(* (bus.Manager.acquireOperationLock): a directory that one thread of one  *)
(* process creates, and that its release removes with everything in it.    *)
(* The threads are the project workers and the heartbeat of a daemon, and  *)
(* the `once` and `doctor` commands, which are processes of their own.  A  *)
(* thread that finds the directory looks at its modification time, and     *)
(* removes it when that is too long ago.                                   *)
(***************************************************************************)
EXTENDS Naturals, FiniteSets

CONSTANTS
    Threads,        \* who calls acquireOperationLock
    Processes,      \* the processes they belong to
    ProcessOf,      \* [Threads -> Processes]
    StaleAfter,     \* five minutes, in ticks of the clock
    LongOperations, \* an operation may hold the lock for longer than that
    MaxExits,       \* bound: how many processes end inside a behaviour
    Nobody          \* the lock directory does not exist

ASSUME ThreadsAssumption == /\ ProcessOf \in [Threads -> Processes]
                            /\ Nobody \notin Threads
ASSUME ClockAssumption == StaleAfter \in Nat /\ MaxExits \in Nat
ASSUME LengthAssumption == LongOperations \in BOOLEAN

VARIABLES
    creator,  \* the thread whose Mkdir made the lock directory, or Nobody
    owned,    \* the directory holds its owner file
    age,      \* ticks since the directory was last modified, up to TooOld
    pc,       \* [Threads -> Steps]
    held,     \* [Threads -> 0..TooOld]: ticks since the thread's Mkdir
    alive,    \* SUBSET Processes
    exits     \* processes that have ended so far

lockVars == <<creator, owned, age>>
procVars == <<alive, exits>>
vars == <<lockVars, pc, held, procVars>>

TooOld == StaleAfter + 1
Ages == 0..TooOld
Holding == {"write owner", "enter", "operate"}
\* RemoveAll empties the directory, then removes it; a release and a recovery
\* are the same two calls.
Releasing == {"release", "release directory"}
Recovering == {"recover", "recover directory"}
Steps == {"idle", "try", "look", "wait"} \cup Holding \cup Releasing \cup Recovering

VariablesTyped ==
    /\ creator \in Threads \cup {Nobody}
    /\ owned \in BOOLEAN
    /\ age \in Ages
    /\ pc \in [Threads -> Steps]
    /\ held \in [Threads -> Ages]
    /\ alive \subseteq Processes
    /\ exits \in 0..MaxExits

\* Whatever became of the lock directory, the manager's mutex lets one thread of a
\* process operate.
MutexIsExclusive ==
    \A t, u \in Threads :
        ProcessOf[t] = ProcessOf[u] /\ pc[t] = "operate" /\ pc[u] = "operate" => t = u

TypeOK == VariablesTyped /\ MutexIsExclusive

Init ==
    /\ creator = Nobody /\ owned = FALSE /\ age = 0
    /\ pc = [t \in Threads |-> "idle"]
    /\ held = [t \in Threads |-> 0]
    /\ alive = Processes
    /\ exits = 0

Exists == creator # Nobody
Runs(t) == ProcessOf[t] \in alive
At(s, t) == Runs(t) /\ pc[t] = s
Goto(s, t) == pc' = [pc EXCEPT ![t] = s]

\* Mutants: every lock looks stale; no lock ever does.
StaleAtOnce == TRUE
NeverStale == FALSE
\* time.Since(info.ModTime()) > 5*time.Minute
IsStale == age > StaleAfter

-----------------------------------------------------------------------------
(* acquireOperationLock.                                                   *)

Call(t) ==
    /\ At("idle", t)
    /\ Goto("try", t)
    /\ UNCHANGED <<lockVars, held, procVars>>

MakeDirectory(t) ==
    /\ At("try", t) /\ ~Exists
    /\ creator' = t /\ owned' = FALSE /\ age' = 0
    /\ held' = [held EXCEPT ![t] = 0]
    /\ Goto("write owner", t)
    /\ UNCHANGED procVars

DirectoryExists(t) ==
    /\ At("try", t) /\ Exists
    /\ Goto("look", t)
    /\ UNCHANGED <<lockVars, held, procVars>>

\* The owner file is for people to read; a failing write is ignored.
WriteOwner(t) ==
    /\ At("write owner", t)
    /\ IF Exists THEN owned' = TRUE /\ age' = 0 ELSE UNCHANGED <<owned, age>>
    /\ Goto("enter", t)
    /\ UNCHANGED <<creator, held, procVars>>

\* A mutant that operates without the manager's mutex.
EnterUnlocked(t) ==
    /\ At("enter", t)
    /\ Goto("operate", t)
    /\ UNCHANGED <<lockVars, held, procVars>>

\* The manager's mutex, which the threads of one process share.
Enter(t) ==
    /\ At("enter", t)
    /\ \A u \in Threads : ProcessOf[u] = ProcessOf[t] => pc[u] # "operate"
    /\ Goto("operate", t)
    /\ UNCHANGED <<lockVars, held, procVars>>

FindStale(t) ==
    /\ At("look", t) /\ Exists /\ IsStale
    /\ Goto("recover", t)
    /\ UNCHANGED <<lockVars, held, procVars>>

\* The lock is fresh, or gone since the attempt: try again after 100 ms.
FindFresh(t) ==
    /\ At("look", t) /\ ~(Exists /\ IsStale)
    /\ Goto("wait", t)
    /\ UNCHANGED <<lockVars, held, procVars>>

Retry(t) ==
    /\ At("wait", t)
    /\ Goto("try", t)
    /\ UNCHANGED <<lockVars, held, procVars>>

\* The caller's context ends while it waits: the operation is not performed.
GiveUp(t) ==
    /\ At("wait", t)
    /\ Goto("idle", t)
    /\ UNCHANGED <<lockVars, held, procVars>>

\* The git commands are done, well or not; the mutex is unlocked, then the lock is
\* released.
Finish(t) ==
    /\ At("operate", t)
    /\ Goto("release", t)
    /\ UNCHANGED <<lockVars, held, procVars>>

-----------------------------------------------------------------------------
(* os.RemoveAll on whatever directory has the lock's name at that moment.  *)

\* An empty directory goes at once; otherwise its entries go first, which
\* modifies it.
Empty(t, from, inside, after) ==
    /\ At(from, t)
    /\ IF Exists /\ owned
       THEN owned' = FALSE /\ age' = 0 /\ UNCHANGED creator /\ Goto(inside, t)
       ELSE creator' = Nobody /\ age' = 0 /\ UNCHANGED owned /\ Goto(after, t)
    /\ UNCHANGED <<held, procVars>>

\* A directory that has an entry again is not removed; the error is ignored.
Drop(t, from, after) ==
    /\ At(from, t)
    /\ IF owned THEN UNCHANGED lockVars
       ELSE creator' = Nobody /\ age' = 0 /\ UNCHANGED owned
    /\ Goto(after, t)
    /\ UNCHANGED <<held, procVars>>

Release(t) == \/ Empty(t, "release", "release directory", "idle")
              \/ Drop(t, "release directory", "idle")
Recover(t) == \/ Empty(t, "recover", "recover directory", "try")
              \/ Drop(t, "recover directory", "try")

Proceed(t) ==
    \/ MakeDirectory(t) \/ DirectoryExists(t) \/ WriteOwner(t)
    \/ Enter(t) \/ FindStale(t) \/ FindFresh(t) \/ Retry(t) \/ Finish(t)
    \/ Release(t) \/ Recover(t)
Thread(t) == Call(t) \/ Proceed(t)

-----------------------------------------------------------------------------
(* Time and processes.                                                     *)

Later(n) == IF n < TooOld THEN n + 1 ELSE n

\* Nothing bounds how long the git commands of an operation take; without
\* LongOperations each of them is back within StaleAfter.
Tick ==
    /\ LongOperations \/ \A t \in Threads :
            Runs(t) /\ pc[t] \in Holding \cup Releasing => held[t] < StaleAfter
    /\ age' = IF Exists THEN Later(age) ELSE age
    /\ held' = [t \in Threads |-> IF pc[t] \in Holding \cup Releasing
                                  THEN Later(held[t]) ELSE 0]
    /\ UNCHANGED <<creator, owned, pc, procVars>>

\* A process is killed, a command is interrupted, or a stopped daemon returns
\* while its last snapshot is still being published: no release is called.
Exit(p) ==
    /\ p \in alive /\ exits < MaxExits
    /\ alive' = alive \ {p} /\ exits' = exits + 1
    /\ pc' = [t \in Threads |-> IF ProcessOf[t] = p THEN "idle" ELSE pc[t]]
    /\ UNCHANGED <<lockVars, held>>

Start(p) ==
    /\ p \in Processes \ alive
    /\ alive' = alive \cup {p}
    /\ UNCHANGED <<lockVars, pc, held, exits>>

Next ==
    \/ \E t \in Threads : Thread(t) \/ GiveUp(t)
    \/ Tick
    \/ \E p \in Processes : Exit(p) \/ Start(p)

Spec == Init /\ [][Next]_vars

\* A thread inside an operation goes on, some thread comes back with another one
\* (workers poll, the heartbeat ticks), time passes, and a process that ended is
\* started again.
FairSpec ==
    /\ Spec
    /\ \A t \in Threads : WF_vars(Proceed(t))
    /\ WF_vars(\E t \in Threads : Call(t))
    /\ WF_vars(Tick)
    /\ \A p \in Processes : WF_vars(Start(p))

-----------------------------------------------------------------------------
(* Properties.                                                             *)

Operating(t) == At("operate", t)

\* Two git operations never run at once (ARCHITECTURE.md:48 "Git operations are
\* serialized by an inter-process lock.").
SerializedOperations ==
    \A t, u \in Threads : Operating(t) /\ Operating(u) => t = u

\* What the lock does guarantee: as long as no process ended inside an operation
\* and none takes longer than five minutes, operations are serialized, however
\* many threads and processes contend (acquireOperationLock).
TimedExclusion == exits = 0 /\ ~LongOperations => SerializedOperations

\* A lock that a dead process left behind, emptied or not, or one thread's removal
\* that meets another's new lock, never stops the gateway for good: some
\* operation is always performed again.
OperationsGoOn == []<>(\E t \in Threads : Operating(t))

-----------------------------------------------------------------------------
(* The inductive invariant behind TimedExclusion (OperationLockProofs).    *)

Busy(t) == pc[t] \in Holding \cup Releasing

\* Whoever holds, or releases, has created the directory that is there.
HolderIsCreator ==
    \A t \in Threads : Busy(t) => creator = t
\* The directory belongs to a thread that holds it, and is no older than its hold.
LockIsFresh ==
    Exists => Busy(creator) /\ age <= held[creator] /\ held[creator] <= StaleAfter
EmptiedByRelease ==
    \A t \in Threads : pc[t] = "release directory" => ~owned
NobodyRecovers == \A t \in Threads : pc[t] \notin Recovering

Undisturbed == exits = 0 /\ ~LongOperations

IInv ==
    /\ TypeOK
    /\ exits = 0 => alive = Processes
    /\ Undisturbed =>
            HolderIsCreator /\ LockIsFresh /\ EmptiedByRelease /\ NobodyRecovers
=============================================================================
